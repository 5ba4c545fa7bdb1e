--------------------------- MODULE NativeNodeProofs ---------------------------
(***************************************************************************)
(* What holds of a native node and its engine for every buffer size, modem *)
(* table, set of frames, tick length and bound: the clocks, the driver and *)
(* the chip it believes in, and the way of a frame from the firmware to    *)
(* the engine.                                                             *)
(***************************************************************************)
EXTENDS NativeNode, SequenceLemmas, TLAPS

\* The fields of a chip, of the engine, of the firmware and of the history; those the
\* arguments below look into have a type as well.
Fields ==
  {"mode", "irq", "irqMask", "buffer", "rxLen", "txLen", "hasPendingTx", "pendingTx",
   "inbox", "modem", "rxGain", "fem", "femAtTx", "now", "channelBusy", "busySince",
   "preambleRaised", "headerRaised", "irqReads", "busyReads", "busyMs",
   "nextSpurious", "spuriousRaises"}

ChipShape(c) ==
  /\ DOMAIN c = Fields
  /\ c.now \in Nat /\ c.txLen \in 0..MaxPayload /\ c.hasPendingTx \in BOOLEAN
  /\ c.buffer \in [Cells -> Bytes] /\ c.pendingTx \in Payloads
  /\ c.inbox \in Seq(Seq(Bytes))

EngineFields == {"waiting", "acked", "waves", "given", "told", "busy", "fed"}
FwFields == {"pc", "todo", "state", "ready", "len", "seen", "rest"}
HistFields == {"sent", "heard", "fresh", "up"}

ToNode ==
  [kind : {"Frame"}, frame : Seq(Bytes)] \cup [kind : {"TxDone"}]
    \cup [kind : {"ChannelBusy"}, busy : BOOLEAN] \cup [kind : {"Originate", "Unknown"}]
    \cup [kind : {"Tick"}, at : Nat]
ToEngine ==
  [kind : {"Frame"}, frame : Payloads] \cup [kind : {"Stats"}]
    \cup [kind : {"Ack"}, at : Nat]

Shapes ==
  /\ ChipShape(chip) /\ local \in Nat /\ aired \in Seq(Payloads)
  /\ bridge \in [pc : {"read", "step", "loop", "closed"}, sim : Nat, rtc : Nat,
                 at : Nat, last : BOOLEAN]
  /\ DOMAIN eng = EngineFields
  /\ eng.waiting \in BOOLEAN /\ eng.acked \in Nat /\ eng.waves \in Nat /\ eng.given \in Nat
  /\ toNode \in Seq(ToNode) /\ toEngine \in Seq(ToEngine)
  /\ DOMAIN fw = FwFields /\ fw.ready \in BOOLEAN /\ fw.state \in {"idle", "rx", "tx"}
  /\ DOMAIN hist = HistFields /\ hist.sent \in Seq(OutFrames)

-----------------------------------------------------------------------------
\* The operators on the chip.

\* What is written into the buffer leaves it a buffer.
LEMMA StoreShape ==
  ASSUME NEW mem \in [Cells -> Bytes], NEW at \in Cells, NEW bytes \in Seq(Bytes)
  PROVE  Store(mem, at, bytes) \in [Cells -> Bytes]
<1>. SUFFICES ASSUME NEW i \in Cells, at <= i, i < at + Len(bytes)
              PROVE  bytes[i - at + 1] \in Bytes
  BY DEF Store
<1>1. i - at + 1 \in 1..Len(bytes)
  BY BufLenAssumption DEF Cells
<1>. QED
  BY <1>1

\* What is read out of it is a payload.
LEMMA PrefixShape ==
  ASSUME NEW mem \in [Cells -> Bytes], NEW n \in 0..MaxPayload
  PROVE  Prefix(mem, n) \in Payloads
<1>1. \A i \in 1..n : i - 1 \in Cells
  BY BufLenAssumption DEF Cells, MaxPayload
<1>2. Prefix(mem, n) \in [1..n -> Bytes]
  BY <1>1 DEF Prefix
<1>. QED
  BY <1>2 DEF Payloads

\* What was staged is what is read out.
LEMMA StagedPrefix ==
  ASSUME NEW mem, NEW f \in Payloads
  PROVE  Prefix(Store(mem, 0, f), Len(f)) = f
<1>1. PICK n \in 0..MaxPayload : f \in [1..n -> Bytes]
  BY DEF Payloads
<1>2. n \in Nat /\ Len(f) = n
  BY <1>1, BufLenAssumption DEF MaxPayload
<1>3. \A i \in 1..n : /\ i - 1 \in Cells /\ 0 <= i - 1 /\ i - 1 < 0 + n
                      /\ i - 1 - 0 + 1 = i
  BY <1>2, BufLenAssumption DEF Cells, MaxPayload
<1>4. \A i \in 1..n : Store(mem, 0, f)[i - 1] = f[i]
  BY <1>2, <1>3 DEF Store
<1>. QED
  BY <1>1, <1>2, <1>4 DEF Prefix

\* What neither time nor a frame that arrives touches.
Alike(c, d) ==
  /\ d.mode = c.mode /\ d.irqMask = c.irqMask /\ d.txLen = c.txLen
  /\ d.hasPendingTx = c.hasPendingTx /\ d.pendingTx = c.pendingTx
  /\ "TxDone" \in d.irq <=> "TxDone" \in c.irq
  /\ "Timeout" \in d.irq <=> "Timeout" \in c.irq

\* The elapsed time.
LEMMA ElapseEffect ==
  ASSUME NEW c, ChipShape(c), NEW t \in Nat
  PROVE  LET d == Elapse(c, t)
         IN ChipShape(d) /\ Alike(c, d) /\ d.now = t /\ d.inbox = c.inbox /\ d.buffer = c.buffer
BY Zenon DEF Elapse, ChipShape, Fields, Alike

\* The faulty chip's own preamble.
LEMMA SpuriousEffect ==
  ASSUME NEW c, ChipShape(c)
  PROVE  LET d == Spurious(c)
         IN /\ ChipShape(d) /\ Alike(c, d) /\ d.now = c.now
            /\ d.inbox = c.inbox /\ d.buffer = c.buffer
<1>1. \A S : /\ "TxDone" \in S \cup {"Preamble"} <=> "TxDone" \in S
             /\ "Timeout" \in S \cup {"Preamble"} <=> "Timeout" \in S
  OBVIOUS
<1>. QED
  BY <1>1, Zenon DEF Spurious, ChipShape, Fields, Alike

\* A signal detected.
LEMMA DetectEffect ==
  ASSUME NEW c, ChipShape(c)
  PROVE  LET d == Detect(c)
         IN /\ ChipShape(d) /\ Alike(c, d) /\ d.now = c.now
            /\ d.inbox = c.inbox /\ d.buffer = c.buffer
<1>. DEFINE preamble == /\ c.channelBusy /\ ~c.preambleRaised
                        /\ c.now - c.busySince >= PreambleMs[c.modem]
            header == /\ c.channelBusy /\ ~c.headerRaised
                      /\ c.now - c.busySince >= HeaderMs[c.modem]
            flags == c.irq \cup (IF preamble THEN {"Preamble"} ELSE {})
                           \cup (IF header THEN {"Header", "SyncWord"} ELSE {})
            p == c.preambleRaised \/ preamble
            h == c.headerRaised \/ header
<1>1. Detect(c) = [c EXCEPT !.irq = flags, !.preambleRaised = p, !.headerRaised = h]
  BY Zenon DEF Detect
<1>2. /\ "TxDone" \in flags <=> "TxDone" \in c.irq
      /\ "Timeout" \in flags <=> "Timeout" \in c.irq
  <2>. HIDE DEF preamble, header
  <2>. QED
    OBVIOUS
<1>. HIDE DEF flags, p, h
<1>. QED
  BY <1>1, <1>2, Zenon DEF ChipShape, Fields, Alike

\* A frame moved from the inbox into the buffer.
LEMMA DeliverEffect ==
  ASSUME NEW c, ChipShape(c)
  PROVE  LET d == Deliver(c)
         IN /\ ChipShape(d) /\ Alike(c, d) /\ d.now = c.now
            /\ c.inbox = << >> => d = c
            /\ c.inbox # << >> => d.inbox = Tail(c.inbox)
<1>1. CASE c.inbox = << >>
  BY <1>1, Zenon DEF Deliver, Alike
<1>2. CASE c.inbox # << >>
  <2>. DEFINE f == Head(c.inbox)
              n == RxLength(f)
              mem == Store(c.buffer, 0, SubSeq(f, 1, n))
              rest == Tail(c.inbox)
              flags == c.irq \cup {"RxDone", "Preamble", "Header", "SyncWord"}
  <2>1. c.inbox \in Seq(Seq(Bytes)) /\ c.buffer \in [Cells -> Bytes]
    BY DEF ChipShape
  <2>2. f \in Seq(Bytes) /\ rest \in Seq(Seq(Bytes))
    BY <1>2, <2>1
  <2>3. n \in 0..MaxPayload /\ n <= Len(f)
    BY <2>2, BufLenAssumption DEF RxLength, MaxPayload
  <2>4. SubSeq(f, 1, n) \in Seq(Bytes)
    BY <2>2, <2>3, SubSeqProperties DEF MaxPayload
  <2>5. mem \in [Cells -> Bytes]
    <3>1. 0 \in Cells
      BY BufLenAssumption DEF Cells
    <3>. HIDE DEF f, n
    <3>. QED
      BY <2>1, <2>4, <3>1, StoreShape, Zenon
  <2>6. /\ "TxDone" \in flags <=> "TxDone" \in c.irq
        /\ "Timeout" \in flags <=> "Timeout" \in c.irq
    OBVIOUS
  <2>7. Deliver(c) = [c EXCEPT !.rxLen = n, !.buffer = mem, !.inbox = rest, !.irq = flags]
    BY <1>2, Zenon DEF Deliver
  <2>. HIDE DEF f, n, mem, flags
  <2>. QED
    BY <1>2, <2>2, <2>5, <2>6, <2>7, Zenon DEF ChipShape, Fields, Alike
<1>. QED
  BY <1>1, <1>2

\* A tick sets the clock; in reception it takes one frame out of the inbox.
LEMMA TickEffect ==
  ASSUME NEW c, ChipShape(c), NEW t \in Nat
  PROVE  LET d == Tick(c, t)
         IN /\ ChipShape(d) /\ Alike(c, d) /\ d.now = t
            /\ c.mode # "rx" \/ c.inbox = << >> => d.inbox = c.inbox /\ d.buffer = c.buffer
            /\ c.mode = "rx" /\ c.inbox # << >> => d.inbox = Tail(c.inbox)
<1>. DEFINE b == Elapse(c, t)
            e == Spurious(b)
            g == Deliver(e)
<1>0. ChipShape(b) /\ Alike(c, b) /\ b.now = t /\ b.inbox = c.inbox /\ b.buffer = c.buffer
  BY ElapseEffect, Zenon
<1>1. /\ ChipShape(e) /\ Alike(c, e) /\ e.now = t /\ e.inbox = c.inbox
      /\ e.buffer = c.buffer
  <2>. HIDE DEF b
  <2>. QED
    BY <1>0, SpuriousEffect, Zenon DEF Alike
<1>2. /\ ChipShape(g) /\ Alike(e, g) /\ g.now = e.now
      /\ e.inbox = << >> => g = e
      /\ e.inbox # << >> => g.inbox = Tail(e.inbox)
  BY <1>1, DeliverEffect, Zenon
<1>3. /\ ChipShape(Detect(g)) /\ Alike(g, Detect(g)) /\ Detect(g).now = g.now
      /\ Detect(g).inbox = g.inbox /\ Detect(g).buffer = g.buffer
  BY <1>2, DetectEffect, Zenon
<1>4. Tick(c, t) = IF e.mode = "rx" THEN Detect(g) ELSE e
  BY Zenon DEF Tick
<1>. HIDE DEF e, g
<1>5. e.mode = c.mode
  BY <1>1 DEF Alike
<1>6. Alike(c, Detect(g))
  BY <1>1, <1>2, <1>3, Zenon DEF Alike
<1>. QED
  BY <1>1, <1>2, <1>3, <1>4, <1>5, <1>6, Zenon

\* A command that neither starts nor stages anything.
Harmless == {"GetRxBufferStatus", "GetIrqStatus", "ReadBuffer", "ClearIrqStatus"}

\* What the commands of the driver do, as far as it matters here.
LEMMA HarmlessEffect ==
  ASSUME NEW c, ChipShape(c), NEW cmd, cmd.op \in Harmless
  PROVE  LET d == RunCommand(c, cmd)
         IN /\ ChipShape(d) /\ d.now = c.now /\ d.inbox = c.inbox /\ d.buffer = c.buffer
            /\ d.mode = c.mode /\ d.irqMask = c.irqMask /\ d.txLen = c.txLen
            /\ d.hasPendingTx = c.hasPendingTx /\ d.pendingTx = c.pendingTx
            /\ d.irq \subseteq c.irq
            /\ cmd.op # "ClearIrqStatus" => d.irq = c.irq
            /\ cmd.op = "ClearIrqStatus" => d.irq = c.irq \ cmd.arg
<1>1. CASE cmd.op = "ClearIrqStatus"
  <2>1. RunCommand(c, cmd) = ClearIrqStatus(c, cmd.arg)
    BY <1>1 DEF RunCommand
  <2>. DEFINE i == c.irq \ cmd.arg
              p == c.preambleRaised /\ "Preamble" \notin cmd.arg
              h == c.headerRaised /\ "Header" \notin cmd.arg
  <2>2. RunCommand(c, cmd) = [c EXCEPT !.irq = i, !.preambleRaised = p, !.headerRaised = h]
    BY <2>1, Zenon DEF ClearIrqStatus
  <2>3. i \subseteq c.irq
    OBVIOUS
  <2>. HIDE DEF p, h
  <2>. QED
    BY <1>1, <2>2, <2>3, Zenon DEF ChipShape, Fields
<1>2. CASE cmd.op = "GetIrqStatus"
  <2>1. RunCommand(c, cmd) = GetIrqStatus(c)
    BY <1>2 DEF RunCommand
  <2>. QED
    BY <1>2, <2>1, Zenon DEF GetIrqStatus, ChipShape, Fields
<1>3. CASE cmd.op \in {"GetRxBufferStatus", "ReadBuffer"}
  <2>1. RunCommand(c, cmd) = c
    BY <1>3 DEF RunCommand
  <2>. QED
    BY <1>3, <2>1
<1>. QED
  BY <1>1, <1>2, <1>3 DEF Harmless

LEMMA StandbyEffect ==
  ASSUME NEW c, ChipShape(c), NEW cmd, cmd.op \in {"SetStandby", "SetRx"}
  PROVE  LET d == RunCommand(c, cmd)
         IN /\ ChipShape(d) /\ d.now = c.now /\ d.inbox = c.inbox /\ d.buffer = c.buffer
            /\ d.mode = IF cmd.op = "SetRx" THEN "rx" ELSE "standby"
            /\ d.irq = c.irq /\ d.hasPendingTx = c.hasPendingTx /\ d.pendingTx = c.pendingTx
<1>1. RunCommand(c, cmd) = [c EXCEPT !.mode = IF cmd.op = "SetRx" THEN "rx" ELSE "standby"]
  BY Zenon DEF RunCommand, SetStandby, SetRx
<1>. QED
  BY <1>1, Zenon DEF ChipShape, Fields

LEMMA StageEffect ==
  ASSUME NEW c, ChipShape(c), NEW cmd,
         \/ cmd.op = "SetPacketParams" /\ cmd.arg \in 0..MaxPayload
         \/ cmd.op = "SetDioIrqParams"
         \/ cmd.op = "WriteBuffer" /\ cmd.arg[1] = 0 /\ cmd.arg[2] \in Payloads
  PROVE  LET d == RunCommand(c, cmd)
         IN /\ ChipShape(d) /\ d.now = c.now /\ d.inbox = c.inbox
            /\ d.mode = c.mode /\ d.irq = c.irq
            /\ d.hasPendingTx = c.hasPendingTx /\ d.pendingTx = c.pendingTx
            /\ d.txLen = IF cmd.op = "SetPacketParams" THEN cmd.arg ELSE c.txLen
            /\ d.irqMask = IF cmd.op = "SetDioIrqParams" THEN cmd.arg[1] ELSE c.irqMask
            /\ d.buffer = IF cmd.op = "WriteBuffer" THEN Store(c.buffer, 0, cmd.arg[2])
                          ELSE c.buffer
<1>1. CASE cmd.op = "SetPacketParams" /\ cmd.arg \in 0..MaxPayload
  <2>1. RunCommand(c, cmd) = [c EXCEPT !.txLen = cmd.arg]
    BY <1>1, Zenon DEF RunCommand, SetPacketParams
  <2>. QED
    BY <1>1, <2>1, Zenon DEF ChipShape, Fields
<1>2. CASE cmd.op = "SetDioIrqParams"
  <2>1. RunCommand(c, cmd) = [c EXCEPT !.irqMask = cmd.arg[1]]
    BY <1>2, Zenon DEF RunCommand, SetDioIrqParams
  <2>. QED
    BY <1>2, <2>1, Zenon DEF ChipShape, Fields
<1>3. CASE cmd.op = "WriteBuffer" /\ cmd.arg[1] = 0 /\ cmd.arg[2] \in Payloads
  <2>. DEFINE mem == Store(c.buffer, 0, cmd.arg[2])
  <2>1. RunCommand(c, cmd) = [c EXCEPT !.buffer = mem]
    BY <1>3, Zenon DEF RunCommand, WriteBuffer
  <2>2. cmd.arg[2] \in Seq(Bytes) /\ 0 \in Cells /\ c.buffer \in [Cells -> Bytes]
    BY <1>3, BufLenAssumption DEF Payloads, Cells, MaxPayload, ChipShape
  <2>3. mem \in [Cells -> Bytes]
    BY <2>2, StoreShape, Zenon
  <2>. HIDE DEF mem
  <2>4. LET d == [c EXCEPT !.buffer = mem]
        IN /\ ChipShape(d) /\ d.now = c.now /\ d.inbox = c.inbox
           /\ d.mode = c.mode /\ d.irq = c.irq
           /\ d.hasPendingTx = c.hasPendingTx /\ d.pendingTx = c.pendingTx
           /\ d.txLen = c.txLen /\ d.irqMask = c.irqMask /\ d.buffer = mem
    BY <2>3, Zenon DEF ChipShape, Fields
  <2>. USE DEF mem
  <2>. QED
    BY <1>3, <2>1, <2>4, Zenon
<1>. QED
  BY <1>1, <1>2, <1>3, Zenon

LEMMA SetTxEffect ==
  ASSUME NEW c, ChipShape(c), NEW cmd, cmd.op = "SetTx"
  PROVE  LET d == RunCommand(c, cmd)
         IN /\ ChipShape(d) /\ d.now = c.now /\ d.inbox = c.inbox /\ d.buffer = c.buffer
            /\ d.mode = "tx" /\ d.irq = c.irq /\ d.irqMask = c.irqMask
            /\ d.txLen = c.txLen
            /\ d.hasPendingTx = TRUE /\ d.pendingTx = Prefix(c.buffer, c.txLen)
<1>. DEFINE frame == Prefix(c.buffer, c.txLen)
            fem == IF c.fem THEN "in" ELSE "out"
<1>1. RunCommand(c, cmd) =
        [c EXCEPT !.mode = "tx", !.femAtTx = fem, !.pendingTx = frame, !.hasPendingTx = TRUE]
  BY Zenon DEF RunCommand, SetTx
<1>2. frame \in Payloads
  BY PrefixShape, Zenon DEF ChipShape
<1>. HIDE DEF frame, fem
<1>3. LET d == [c EXCEPT !.mode = "tx", !.femAtTx = fem, !.pendingTx = frame,
                         !.hasPendingTx = TRUE]
      IN /\ ChipShape(d) /\ d.now = c.now /\ d.inbox = c.inbox /\ d.buffer = c.buffer
         /\ d.mode = "tx" /\ d.irq = c.irq /\ d.irqMask = c.irqMask /\ d.txLen = c.txLen
         /\ d.hasPendingTx = TRUE /\ d.pendingTx = frame
  BY <1>2, Zenon DEF ChipShape, Fields
<1>. USE DEF frame
<1>. QED
  BY <1>1, <1>3, Zenon

-----------------------------------------------------------------------------
\* The two sockets.

\* At most one message of a kind.
Only(s, kind) ==
  \A i, j \in 1..Len(s) : s[i].kind = kind /\ s[j].kind = kind => i = j

\* A message more at the end.
LEMMA Told ==
  ASSUME NEW A, NEW s \in Seq(A), NEW m \in A, NEW t, t = Append(s, m)
  PROVE  /\ \A kind : Holds(t, kind) <=> Holds(s, kind) \/ m.kind = kind
         /\ \A kind : Only(s, kind) /\ (m.kind = kind => ~Holds(s, kind)) => Only(t, kind)
<1>1. /\ t \in Seq(A) /\ Len(s) \in Nat /\ Len(t) = Len(s) + 1 /\ t[Len(s) + 1] = m
      /\ \A i \in 1..Len(s) : t[i] = s[i]
  OBVIOUS
<1>. DEFINE n == Len(s)
<1>2. /\ n \in Nat /\ Len(t) = n + 1 /\ t[n + 1] = m
      /\ \A i \in 1..n : t[i] = s[i]
  BY <1>1
<1>3. \A kind : Holds(s, kind) <=> \E i \in 1..n : s[i].kind = kind
  BY DEF Holds
<1>4. \A kind : Only(s, kind) <=>
        \A i, j \in 1..n : s[i].kind = kind /\ s[j].kind = kind => i = j
  BY DEF Only
<1>. HIDE DEF n
<1>5. \A kind : Holds(t, kind) <=> Holds(s, kind) \/ m.kind = kind
  <2>. SUFFICES ASSUME NEW kind
                PROVE  Holds(t, kind) <=> Holds(s, kind) \/ m.kind = kind
    OBVIOUS
  <2>1. \A i \in 1..(n + 1) : i \in 1..n \/ i = n + 1
    BY <1>2
  <2>2. n + 1 \in 1..(n + 1) /\ \A i \in 1..n : i \in 1..(n + 1)
    BY <1>2
  <2>3. Holds(t, kind) <=> \E i \in 1..(n + 1) : t[i].kind = kind
    BY <1>2 DEF Holds
  <2>4. ASSUME NEW i \in 1..(n + 1), t[i].kind = kind
        PROVE  Holds(s, kind) \/ m.kind = kind
    BY <1>2, <1>3, <2>1, <2>4
  <2>5. ASSUME NEW i \in 1..n, s[i].kind = kind
        PROVE  Holds(t, kind)
    BY <1>2, <2>2, <2>3, <2>5
  <2>6. m.kind = kind => Holds(t, kind)
    BY <1>2, <2>2, <2>3
  <2>. QED
    BY <1>3, <2>3, <2>4, <2>5, <2>6, Zenon
<1>6. \A kind : Only(s, kind) /\ (m.kind = kind => ~Holds(s, kind)) => Only(t, kind)
  BY ONLY <1>2, <1>3, <1>4 DEF Only
<1>. QED
  BY <1>5, <1>6, Zenon

\* The first message taken.
LEMMA Taken ==
  ASSUME NEW A, NEW s \in Seq(A), s # << >>, NEW t, t = Tail(s)
  PROVE  /\ \A kind : Holds(t, kind) => Holds(s, kind)
         /\ \A kind : Holds(s, kind) /\ Head(s).kind # kind => Holds(t, kind)
         /\ \A kind : Only(s, kind) => Only(t, kind)
         /\ \A kind : Only(s, kind) /\ Head(s).kind = kind => ~Holds(t, kind)
<1>1. /\ t \in Seq(A) /\ Len(s) \in Nat \ {0} /\ Len(t) = Len(s) - 1
      /\ \A i \in 1..Len(t) : t[i] = s[i + 1]
      /\ Head(s) = s[1] /\ Head(s) \in A
  OBVIOUS
<1>. DEFINE n == Len(t)
<1>2. /\ n \in Nat /\ Len(s) = n + 1 /\ Head(s) = s[1]
      /\ \A i \in 1..n : t[i] = s[i + 1]
  BY <1>1
<1>3. \A kind : Holds(t, kind) <=> \E i \in 1..n : t[i].kind = kind
  BY DEF Holds
<1>4. \A kind : Only(t, kind) <=>
        \A i, j \in 1..n : t[i].kind = kind /\ t[j].kind = kind => i = j
  BY DEF Only
<1>. HIDE DEF n
<1>5. \A i \in 1..n : i + 1 \in 1..(n + 1)
  BY <1>2
<1>6. \A i \in 1..(n + 1) : i # 1 => i - 1 \in 1..n /\ t[i - 1] = s[i]
  BY <1>2
<1>7. \A kind : Holds(t, kind) => Holds(s, kind)
  BY ONLY <1>2, <1>3, <1>5 DEF Holds
<1>8. \A kind : Holds(s, kind) /\ Head(s).kind # kind => Holds(t, kind)
  <2>. SUFFICES ASSUME NEW kind, Head(s).kind # kind,
                       NEW i \in 1..(n + 1), s[i].kind = kind
                PROVE  Holds(t, kind)
    BY <1>2 DEF Holds
  <2>1. i # 1
    BY <1>2
  <2>. QED
    BY <1>3, <1>6, <2>1
<1>9. \A kind : Only(s, kind) => Only(t, kind)
  <2>. SUFFICES ASSUME NEW kind, Only(s, kind)
                PROVE  Only(t, kind)
    OBVIOUS
  <2>1. ASSUME NEW i \in 1..n, NEW j \in 1..n, t[i].kind = kind, t[j].kind = kind
        PROVE  i = j
    <3>1. i + 1 = j + 1
      BY <1>2, <1>5, <2>1 DEF Only
    <3>. QED
      BY <1>2, <3>1
  <2>. QED
    BY <1>4, <2>1, Zenon
<1>10. \A kind : Only(s, kind) /\ Head(s).kind = kind => ~Holds(t, kind)
  <2>. SUFFICES ASSUME NEW kind, Only(s, kind), Head(s).kind = kind,
                       NEW i \in 1..n, t[i].kind = kind
                PROVE  FALSE
    BY <1>3
  <2>1. i + 1 \in 1..(n + 1) /\ 1 \in 1..(n + 1) /\ i + 1 # 1 /\ s[i + 1].kind = kind
    BY <1>2
  <2>. QED
    BY <1>2, <2>1 DEF Only
<1>. QED
  BY <1>7, <1>8, <1>9, <1>10, Zenon

-----------------------------------------------------------------------------
\* The inductive invariant.

\* The node and the engine take turns, and an acknowledgement ends the node's: the clocks
\* are where it says until the engine has read it.
InStep == bridge.pc \in {"step", "loop"}

Turns ==
  /\ chip.now = local /\ local >= bridge.sim
  /\ bridge.rtc = bridge.sim \div RtcPeriod
  /\ ~eng.waiting =>
       /\ ~InStep /\ eng.acked = bridge.sim /\ toEngine = << >>
       /\ ~Holds(toNode, "Tick")
  /\ InStep => toNode = << >> /\ bridge.at >= bridge.sim
  /\ bridge.pc = "loop" /\ bridge.last => bridge.at = bridge.sim
  /\ \A i \in 1..Len(toNode) : toNode[i].kind = "Tick" =>
       /\ i = Len(toNode) /\ toNode[i].at >= bridge.sim /\ ~Holds(toEngine, "Ack")
  /\ \A i \in 1..Len(toEngine) : toEngine[i].kind = "Ack" =>
       /\ i = Len(toEngine) /\ toEngine[i].at = bridge.sim /\ ~InStep

\* What the wrapper believes at each place in loop().
States ==
  /\ bridge.pc # "loop" => fw.pc = "drain"
  /\ fw.pc = "drain" /\ bridge.pc = "loop" => fw.state # "idle"
  /\ fw.pc \in {"recv", "len", "listen"} => fw.state # "tx"
  /\ fw.pc = "started" => fw.state = "idle"
  /\ fw.pc = "listen" => ~fw.ready
  /\ fw.pc = "recv" /\ fw.todo # << >> => fw.state = "idle"
  /\ fw.pc \in {"choose", "lbt", "sent"} => fw.state = "rx"
  /\ fw.pc \in {"drain", "top", "recv", "len", "listen", "started", "choose", "lbt", "sent"}

\* What the driver has still to send there, and what it has achieved so far.
Staged(s, k) == fw.todo = SubSeq(s, k, Len(s))

Sends(f, k) ==
  /\ Staged(StartTransmit(f), k)
  /\ k > 1 => chip.txLen = Len(f)
  /\ k > 2 => chip.irqMask = TxIrqFlags
  /\ k > 4 => "TxDone" \notin chip.irq
  /\ IF k > 5 THEN chip.mode = "tx" /\ chip.hasPendingTx ELSE ~chip.hasPendingTx
  /\ FramesPerTick <= 1 =>
       /\ k > 3 => Prefix(chip.buffer, chip.txLen) = f
       /\ k > 5 => chip.pendingTx = f

Stages ==
  /\ fw.pc \in {"drain", "top", "choose"} => fw.todo = << >>
  /\ fw.pc = "recv" => \E k \in 1..3 : Staged(FinishTransmit, k)
  /\ fw.pc = "len" => \E k \in 1..2 : Staged(GetPacketLength, k)
  /\ fw.pc = "lbt" => \E k \in 1..2 : Staged(GetIrqFlags, k)
  /\ fw.pc = "listen" => \E k \in 1..5 : Staged(ReadData, k)
  /\ fw.pc = "started" =>
       \E k \in 1..6 : Staged(StartReceive, k) /\ (k > 5 => chip.mode = "rx")
  /\ fw.pc = "sent" => hist.sent # << >> /\ \E k \in 1..6 : Sends(Last(hist.sent), k)

\* A driver that listens has a chip that listens; one that waits for its send has a chip
\* that transmits or says it is done, and then hears of it in the next pass.
Listens ==
  /\ fw.state = "rx" /\ (fw.pc = "sent" => fw.todo # << >>) => chip.mode = "rx"
  /\ fw.state = "tx" =>
       /\ chip.irqMask = TxIrqFlags
       /\ IF "TxDone" \in chip.irq THEN chip.mode = "standby" ELSE chip.mode = "tx"
  /\ bridge.pc = "loop" /\ fw.state = "tx" /\ "TxDone" \in chip.irq =>
       fw.pc = "top" /\ fw.ready

\* A chip that transmits has a frame to drain or a waveform on its way.
OnAir == Holds(toEngine, "Frame") \/ eng.waves > 0 \/ Holds(toNode, "TxDone")

Airs ==
  /\ chip.hasPendingTx =>
       /\ bridge.pc = "loop"
       /\ \/ fw.pc = "sent" /\ fw.todo = << >>
          \/ fw.pc = "drain" /\ fw.state = "tx"
  /\ chip.mode = "tx" /\ ~chip.hasPendingTx => OnAir

\* And a waveform has a chip that transmits, if the firmware never gives up: there is one
\* at most, and it is in one place.
OneAtATime ==
  ~GivesUp =>
    /\ "Timeout" \notin chip.irq
    /\ fw.state = "tx" /\ fw.ready => "TxDone" \in chip.irq
    /\ fw.state = "idle" => chip.mode # "tx"
    /\ OnAir => chip.mode = "tx" /\ ~chip.hasPendingTx
    /\ eng.waves <= 1
    /\ eng.waves > 0 => ~Holds(toEngine, "Frame") /\ ~Holds(toNode, "TxDone")
    /\ ~(Holds(toEngine, "Frame") /\ Holds(toNode, "TxDone"))
    /\ Only(toEngine, "Frame") /\ Only(toNode, "TxDone")

\* If the engine delivers one frame before a tick at most, there is one on its way at
\* most, none while the chip transmits and none once it listens: nothing overwrites what
\* is staged to be sent.
Arrives ==
  FramesPerTick <= 1 =>
    /\ Len(chip.inbox) <= 1 /\ Only(toNode, "Frame")
    /\ Holds(toNode, "Frame") => chip.inbox = << >>
    /\ ~eng.waiting /\ eng.given = 0 => chip.inbox = << >> /\ ~Holds(toNode, "Frame")
    /\ eng.waiting => eng.given = 0
    /\ Holds(toEngine, "Ack") => chip.inbox = << >> /\ ~Holds(toNode, "Frame")
    /\ bridge.pc = "loop" /\ chip.mode = "rx" => chip.inbox = << >>
    /\ chip.mode = "tx" => chip.inbox = << >>
    /\ chip.mode = "tx" => \A i \in 1..Len(toNode) : toNode[i].kind = "Frame" =>
         \E j \in 1..(i - 1) : toNode[j].kind = "TxDone"

\* What was sent and has not gone out is the last, and it is what the chip has to drain.
GoesOut ==
  FramesPerTick <= 1 =>
    /\ fw.pc # "sent" /\ ~chip.hasPendingTx => aired = hist.sent
    /\ fw.pc = "sent" \/ chip.hasPendingTx =>
         /\ hist.sent # << >>
         /\ aired = SubSeq(hist.sent, 1, Len(hist.sent) - 1)
    /\ chip.hasPendingTx => chip.pendingTx = Last(hist.sent)

IInv ==
  /\ Shapes /\ Turns /\ States /\ Stages /\ Listens
  /\ Airs /\ OneAtATime /\ Arrives /\ GoesOut

-----------------------------------------------------------------------------
\* The engine moves.

\* What it leaves alone.
LEMMA EngineLeaves ==
  ASSUME IInv, UNCHANGED <<chip, mainVars, fw, hist>>
  PROVE  States' /\ Stages' /\ Listens' /\ GoesOut'
<1>. USE DEF mainVars
<1>1. States'
  BY DEF IInv, States
<1>2. Stages'
  BY DEF IInv, Stages, Sends, Staged
<1>3. Listens'
  BY DEF IInv, Listens
<1>4. GoesOut'
  BY DEF IInv, GoesOut
<1>. QED
  BY <1>1, <1>2, <1>3, <1>4

\* A frame is delivered.
LEMMA GiveFrameKeeps ==
  ASSUME IInv, GiveFrame, UNCHANGED <<chip, mainVars, fw, hist>>
  PROVE  IInv'
<1>. USE DEF mainVars
<1>1. PICK f \in Frames :
        /\ toNode' = Append(toNode, [kind |-> "Frame", frame |-> f])
        /\ toEngine' = toEngine
        /\ eng' = [eng EXCEPT !.given = @ + 1, !.fed = Append(@, f)]
  BY DEF GiveFrame, Tell
<1>2. ~eng.waiting /\ eng.waves = 0 /\ eng.given < FramesPerTick
  BY DEF GiveFrame
<1>. DEFINE m == [kind |-> "Frame", frame |-> f]
<1>3. m \in ToNode /\ m.kind = "Frame"
  BY NodeAssumption DEF ToNode
<1>4. /\ DOMAIN eng' = EngineFields /\ eng'.given = eng.given + 1
      /\ eng'.waiting = eng.waiting /\ eng'.acked = eng.acked /\ eng'.waves = eng.waves
  BY <1>1, Zenon DEF IInv, Shapes, EngineFields
<1>5. toNode \in Seq(ToNode) /\ toNode' = Append(toNode, m)
  BY <1>1 DEF IInv, Shapes
<1>. HIDE DEF m
<1>6. /\ toNode' \in Seq(ToNode) /\ Len(toNode) \in Nat /\ Len(toNode') = Len(toNode) + 1
      /\ toNode'[Len(toNode) + 1] = m
      /\ \A i \in 1..Len(toNode) : toNode'[i] = toNode[i]
  BY <1>3, <1>5
<1>7. /\ \A kind : Holds(toNode', kind) <=> Holds(toNode, kind) \/ m.kind = kind
      /\ \A kind : Only(toNode, kind) /\ (m.kind = kind => ~Holds(toNode, kind))
                    => Only(toNode', kind)
  BY <1>3, <1>5, Told
<1>8. Shapes'
  BY <1>1, <1>4, <1>6, <1>7 DEF IInv, Shapes
<1>9. Turns'
  BY <1>1, <1>2, <1>3, <1>4, <1>6, <1>7 DEF IInv, Turns, InStep, Holds
<1>10. Airs'
  BY <1>1, <1>3, <1>4, <1>6, <1>7 DEF IInv, Airs, OnAir
<1>11. OneAtATime'
  BY <1>1, <1>3, <1>4, <1>6, <1>7 DEF IInv, OneAtATime, OnAir
<1>12. Arrives'
  <2>. SUFFICES ASSUME FramesPerTick <= 1
                PROVE  Arrives'
    BY DEF Arrives
  <2>1. /\ eng.given = 0 /\ chip.inbox = << >> /\ ~Holds(toNode, "Frame")
        /\ toEngine = << >> /\ ~InStep /\ ~Holds(toEngine, "Ack")
    BY <1>2, EngineAssumption DEF IInv, Shapes, Arrives, Turns, Holds
  <2>2. chip.mode = "tx" => Holds(toNode, "TxDone")
    BY <1>2, <2>1 DEF IInv, Airs, OnAir, InStep, Holds
  <2>3. \A i \in 1..Len(toNode') : i \in 1..Len(toNode) \/ i = Len(toNode) + 1
    BY <1>6
  <2>4. Len(chip.inbox) <= 1
    BY <2>1
  <2>5. Only(toNode', "Frame")
    BY <1>3, <1>7, <2>1 DEF IInv, Arrives
  <2>6. eng'.given = 1
    BY <1>4, <2>1
  <2>7. ASSUME chip.mode = "tx", NEW i \in 1..Len(toNode'), toNode'[i].kind = "Frame"
        PROVE  \E j \in 1..(i - 1) : toNode'[j].kind = "TxDone"
    <3>1. i = Len(toNode) + 1
      BY <1>6, <1>7, <2>1, <2>3, <2>7 DEF Holds
    <3>2. PICK j \in 1..Len(toNode) : toNode[j].kind = "TxDone"
      BY <2>2, <2>7 DEF Holds
    <3>. QED
      BY <1>6, <3>1, <3>2
  <2>. QED
    BY <1>1, <1>2, <1>4, <2>1, <2>4, <2>5, <2>6, <2>7 DEF Arrives, InStep
<1>. QED
  BY <1>8, <1>9, <1>10, <1>11, <1>12, EngineLeaves DEF IInv

\* Something else is told than a frame or a tick; the end of a waveform ends one.
LEMMA TellKeeps ==
  ASSUME IInv, UNCHANGED <<chip, mainVars, fw, hist>>, ~eng.waiting,
         NEW m \in ToNode, m.kind \notin {"Frame", "Tick"}, Tell(m),
         DOMAIN eng' = EngineFields, eng'.waiting = eng.waiting, eng'.acked = eng.acked,
         eng'.given = eng.given, eng'.waves \in Nat,
         eng.waves = IF m.kind = "TxDone" THEN eng'.waves + 1 ELSE eng'.waves
  PROVE  IInv'
<1>. USE DEF mainVars
<1>1. toNode \in Seq(ToNode) /\ toNode' = Append(toNode, m) /\ toEngine' = toEngine
  BY DEF IInv, Shapes, Tell
<1>2. /\ toNode' \in Seq(ToNode) /\ Len(toNode) \in Nat /\ Len(toNode') = Len(toNode) + 1
      /\ toNode'[Len(toNode) + 1] = m
      /\ \A i \in 1..Len(toNode) : toNode'[i] = toNode[i]
  BY <1>1
<1>3. /\ \A kind : Holds(toNode', kind) <=> Holds(toNode, kind) \/ m.kind = kind
      /\ \A kind : Only(toNode, kind) /\ (m.kind = kind => ~Holds(toNode, kind))
                    => Only(toNode', kind)
  BY <1>1, Told
<1>4. \A i \in 1..Len(toNode') : i \in 1..Len(toNode) \/ i = Len(toNode) + 1
  BY <1>2
<1>5. eng.waves \in Nat
  BY DEF IInv, Shapes
<1>6. Shapes'
  BY <1>1, <1>2 DEF IInv, Shapes
<1>7. Turns'
  BY <1>1, <1>2, <1>3, <1>4 DEF IInv, Turns, InStep, Holds
<1>8. Airs'
  BY <1>1, <1>3, <1>5 DEF IInv, Airs, OnAir
<1>9. OneAtATime'
  BY <1>1, <1>3, <1>5 DEF IInv, OneAtATime, OnAir
<1>10. Arrives'
  <2>. SUFFICES ASSUME FramesPerTick <= 1
                PROVE  Arrives'
    BY DEF Arrives
  <2>1. Only(toNode', "Frame")
    BY <1>3 DEF IInv, Arrives
  <2>2. ASSUME chip.mode = "tx", NEW i \in 1..Len(toNode'), toNode'[i].kind = "Frame"
        PROVE  \E j \in 1..(i - 1) : toNode'[j].kind = "TxDone"
    <3>1. i \in 1..Len(toNode) /\ toNode[i].kind = "Frame"
      BY <1>2, <1>4, <2>2
    <3>2. PICK j \in 1..(i - 1) : toNode[j].kind = "TxDone"
      BY <2>2, <3>1 DEF IInv, Arrives
    <3>3. j \in 1..Len(toNode)
      BY <1>2, <3>1
    <3>. QED
      BY <1>2, <3>2, <3>3
  <2>. QED
    BY <1>1, <1>3, <2>1, <2>2 DEF IInv, Arrives
<1>. QED
  BY <1>6, <1>7, <1>8, <1>9, <1>10, EngineLeaves DEF IInv

LEMMA TellTxDoneKeeps ==
  ASSUME IInv, TellTxDone, UNCHANGED <<chip, mainVars, fw, hist>>
  PROVE  IInv'
<1>. DEFINE m == [kind |-> "TxDone"]
<1>1. ~eng.waiting /\ eng.waves > 0 /\ Tell(m) /\ eng' = [eng EXCEPT !.waves = @ - 1]
  BY DEF TellTxDone
<1>2. m \in ToNode /\ m.kind = "TxDone"
  BY DEF ToNode
<1>3. eng.waves \in Nat /\ DOMAIN eng = EngineFields
  BY DEF IInv, Shapes
<1>. HIDE DEF m
<1>4. /\ DOMAIN eng' = EngineFields /\ eng'.waiting = eng.waiting /\ eng'.acked = eng.acked
      /\ eng'.given = eng.given /\ eng'.waves = eng.waves - 1
  BY <1>1, <1>3, Zenon DEF EngineFields
<1>5. eng'.waves \in Nat /\ eng.waves = eng'.waves + 1
  BY <1>1, <1>3, <1>4
<1>. QED
  BY <1>1, <1>2, <1>4, <1>5, TellKeeps

LEMMA TellChannelKeeps ==
  ASSUME IInv, TellChannel, UNCHANGED <<chip, mainVars, fw, hist>>
  PROVE  IInv'
<1>. DEFINE m == [kind |-> "ChannelBusy", busy |-> ~eng.busy]
<1>1. ~eng.waiting /\ Tell(m) /\ eng' = [eng EXCEPT !.busy = ~@, !.told = TRUE]
  BY DEF TellChannel
<1>2. m \in ToNode /\ m.kind = "ChannelBusy"
  BY DEF ToNode
<1>3. eng.waves \in Nat /\ DOMAIN eng = EngineFields
  BY DEF IInv, Shapes
<1>. HIDE DEF m
<1>4. /\ DOMAIN eng' = EngineFields /\ eng'.waiting = eng.waiting /\ eng'.acked = eng.acked
      /\ eng'.given = eng.given /\ eng'.waves = eng.waves
  BY <1>1, <1>3, Zenon DEF EngineFields
<1>. QED
  BY <1>1, <1>2, <1>3, <1>4, TellKeeps

LEMMA TellOddKeeps ==
  ASSUME IInv, TellOdd, UNCHANGED <<chip, mainVars, fw, hist>>
  PROVE  IInv'
<1>1. PICK k \in OddKinds : Tell([kind |-> k])
  BY DEF TellOdd
<1>. DEFINE m == [kind |-> k]
<1>2. ~eng.waiting /\ Tell(m) /\ eng' = [eng EXCEPT !.told = TRUE]
  BY <1>1 DEF TellOdd
<1>3. m \in ToNode /\ m.kind \in {"Originate", "Unknown"}
  BY EngineAssumption DEF ToNode
<1>4. eng.waves \in Nat /\ DOMAIN eng = EngineFields
  BY DEF IInv, Shapes
<1>. HIDE DEF m
<1>5. /\ DOMAIN eng' = EngineFields /\ eng'.waiting = eng.waiting /\ eng'.acked = eng.acked
      /\ eng'.given = eng.given /\ eng'.waves = eng.waves
  BY <1>2, <1>4, Zenon DEF EngineFields
<1>. QED
  BY <1>2, <1>3, <1>4, <1>5, TellKeeps

\* A tick: from here it is the node's turn.
LEMMA SendTickKeeps ==
  ASSUME IInv, SendTick, UNCHANGED <<chip, mainVars, fw, hist>>
  PROVE  IInv'
<1>. USE DEF mainVars
<1>1. PICK k \in EngineLumps : Tell([kind |-> "Tick", at |-> eng.acked + k])
  BY DEF SendTick
<1>. DEFINE m == [kind |-> "Tick", at |-> eng.acked + k]
<1>2. ~eng.waiting /\ eng' = [eng EXCEPT !.waiting = TRUE, !.given = 0, !.told = FALSE]
  BY DEF SendTick
<1>3. eng.waves \in Nat /\ eng.acked \in Nat /\ DOMAIN eng = EngineFields
  BY DEF IInv, Shapes
<1>4. eng.acked + k \in Nat /\ eng.acked + k >= eng.acked
  BY <1>3, EngineAssumption
<1>5. m \in ToNode /\ m.kind = "Tick" /\ m.at >= eng.acked
  BY <1>4 DEF ToNode
<1>6. toNode \in Seq(ToNode) /\ toNode' = Append(toNode, m) /\ toEngine' = toEngine
  BY <1>1 DEF IInv, Shapes, Tell
<1>. HIDE DEF m
<1>7. /\ DOMAIN eng' = EngineFields /\ eng'.waiting = TRUE /\ eng'.acked = eng.acked
      /\ eng'.given = 0 /\ eng'.waves = eng.waves
  BY <1>2, <1>3, Zenon DEF EngineFields
<1>8. /\ toNode' \in Seq(ToNode) /\ Len(toNode) \in Nat /\ Len(toNode') = Len(toNode) + 1
      /\ toNode'[Len(toNode) + 1] = m
      /\ \A i \in 1..Len(toNode) : toNode'[i] = toNode[i]
  BY <1>5, <1>6
<1>9. /\ \A kind : Holds(toNode', kind) <=> Holds(toNode, kind) \/ m.kind = kind
      /\ \A kind : Only(toNode, kind) /\ (m.kind = kind => ~Holds(toNode, kind))
                    => Only(toNode', kind)
  BY <1>5, <1>6, Told
<1>10. \A i \in 1..Len(toNode') : i \in 1..Len(toNode) \/ i = Len(toNode) + 1
  BY <1>8
<1>11. Shapes'
  <2>1. eng'.waiting \in BOOLEAN
    BY <1>7, Zenon
  <2>2. eng'.given \in Nat
    BY <1>7
  <2>. QED
    BY <1>3, <1>6, <1>7, <1>8, <2>1, <2>2, Zenon DEF IInv, Shapes
<1>12. toEngine = << >> /\ ~InStep /\ eng.acked = bridge.sim /\ ~Holds(toNode, "Tick")
       /\ ~Holds(toEngine, "Ack")
  BY <1>2 DEF IInv, Turns, Holds
<1>13. Turns'
  BY <1>5, <1>6, <1>7, <1>8, <1>10, <1>12 DEF IInv, Turns, InStep, Holds
<1>14. Airs'
  BY <1>5, <1>6, <1>7, <1>9 DEF IInv, Airs, OnAir
<1>15. OneAtATime'
  BY <1>5, <1>6, <1>7, <1>9 DEF IInv, OneAtATime, OnAir
<1>16. Arrives'
  <2>. SUFFICES ASSUME FramesPerTick <= 1
                PROVE  Arrives'
    BY DEF Arrives
  <2>1. Only(toNode', "Frame")
    BY <1>5, <1>9 DEF IInv, Arrives
  <2>2. ASSUME chip.mode = "tx", NEW i \in 1..Len(toNode'), toNode'[i].kind = "Frame"
        PROVE  \E j \in 1..(i - 1) : toNode'[j].kind = "TxDone"
    <3>1. i \in 1..Len(toNode) /\ toNode[i].kind = "Frame"
      BY <1>5, <1>8, <1>10, <2>2
    <3>2. PICK j \in 1..(i - 1) : toNode[j].kind = "TxDone"
      BY <2>2, <3>1 DEF IInv, Arrives
    <3>3. j \in 1..Len(toNode)
      BY <1>8, <3>1
    <3>. QED
      BY <1>8, <3>2, <3>3
  <2>. QED
    BY <1>5, <1>6, <1>7, <1>9, <1>12, <2>1, <2>2 DEF IInv, Arrives
<1>. QED
  BY <1>11, <1>13, <1>14, <1>15, <1>16, EngineLeaves DEF IInv

\* The engine reads what the node has written.
LEMMA HearNodeKeeps ==
  ASSUME IInv, HearNode, UNCHANGED <<chip, mainVars, fw, hist>>
  PROVE  IInv'
<1>. USE DEF mainVars
<1>. DEFINE m == Head(toEngine)
<1>1. toEngine \in Seq(ToEngine) /\ toEngine # << >> /\ toEngine' = Tail(toEngine)
      /\ toNode' = toNode
  BY DEF IInv, Shapes, HearNode
<1>2. /\ toEngine' \in Seq(ToEngine) /\ Len(toEngine) \in Nat \ {0}
      /\ Len(toEngine') = Len(toEngine) - 1 /\ m = toEngine[1] /\ m \in ToEngine
      /\ \A i \in 1..Len(toEngine') : toEngine'[i] = toEngine[i + 1]
  BY <1>1
<1>3. /\ \A kind : Holds(toEngine', kind) => Holds(toEngine, kind)
      /\ \A kind : Holds(toEngine, kind) /\ m.kind # kind => Holds(toEngine', kind)
      /\ \A kind : Only(toEngine, kind) => Only(toEngine', kind)
      /\ \A kind : Only(toEngine, kind) /\ m.kind = kind => ~Holds(toEngine', kind)
  BY <1>1, Taken
<1>4. 1 \in 1..Len(toEngine) /\ Holds(toEngine, m.kind) /\ eng.waiting = TRUE
  <2>1. 1 \in 1..Len(toEngine) /\ Holds(toEngine, m.kind)
    BY <1>2 DEF Holds
  <2>2. eng.waiting = TRUE
    BY <1>1, Zenon DEF IInv, Shapes, Turns
  <2>. QED
    BY <2>1, <2>2
<1>5. m.kind \in {"Frame", "Stats", "Ack"} /\ (m.kind = "Ack" => m.at \in Nat)
  BY <1>2 DEF ToEngine
<1>6. eng' = IF m.kind = "Frame" THEN [eng EXCEPT !.waves = @ + 1]
             ELSE IF m.kind = "Ack" THEN [eng EXCEPT !.waiting = FALSE, !.acked = m.at]
             ELSE eng
  BY <1>5 DEF HearNode
<1>. HIDE DEF m
<1>7. eng.waves \in Nat /\ eng.acked \in Nat /\ eng.given \in Nat /\ DOMAIN eng = EngineFields
  BY DEF IInv, Shapes
<1>8. /\ DOMAIN eng' = EngineFields /\ eng'.given = eng.given
      /\ eng'.waves = IF m.kind = "Frame" THEN eng.waves + 1 ELSE eng.waves
      /\ eng'.acked = IF m.kind = "Ack" THEN m.at ELSE eng.acked
      /\ eng'.waiting = IF m.kind = "Ack" THEN FALSE ELSE eng.waiting
  BY <1>6, <1>7, Zenon DEF EngineFields
<1>9. Shapes'
  <2>1. eng'.waiting \in BOOLEAN
    BY <1>4, <1>8, Zenon
  <2>2. eng'.acked \in Nat /\ eng'.waves \in Nat /\ eng'.given \in Nat
    BY <1>5, <1>7, <1>8
  <2>. QED
    BY <1>1, <1>2, <1>8, <2>1, <2>2, Zenon DEF IInv, Shapes
<1>10. m.kind = "Ack" => /\ toEngine' = << >> /\ m.at = bridge.sim /\ ~InStep
                         /\ ~Holds(toNode, "Tick")
  <2>1. m.kind = "Ack" => Len(toEngine') = 0 /\ m.at = bridge.sim /\ ~InStep
    BY <1>2, <1>4 DEF IInv, Turns
  <2>2. m.kind = "Ack" => ~Holds(toNode, "Tick")
    BY <1>4 DEF IInv, Turns, Holds
  <2>3. toEngine' = << >> <=> Len(toEngine') = 0
    BY <1>2, EmptySeq
  <2>. QED
    BY <2>1, <2>2, <2>3, Zenon
<1>11. Turns'
  <2>1. \A i \in 1..Len(toEngine') : i + 1 \in 1..Len(toEngine) /\ toEngine'[i] = toEngine[i + 1]
    BY <1>2
  <2>2. \A i \in 1..Len(toEngine') : toEngine'[i].kind = "Ack" =>
          i = Len(toEngine') /\ toEngine'[i].at = bridge.sim /\ ~InStep
    BY <1>2, <2>1 DEF IInv, Turns
  <2>. QED
    BY <1>1, <1>3, <1>4, <1>8, <1>10, <2>2 DEF IInv, Turns, InStep
<1>12. Airs'
  BY <1>1, <1>3, <1>7, <1>8 DEF IInv, Airs, OnAir
<1>13. OneAtATime'
  BY <1>1, <1>3, <1>4, <1>7, <1>8 DEF IInv, OneAtATime, OnAir
<1>14. Arrives'
  BY <1>1, <1>3, <1>4, <1>8 DEF IInv, Arrives
<1>. QED
  BY <1>9, <1>11, <1>12, <1>13, <1>14, EngineLeaves DEF IInv

-----------------------------------------------------------------------------
\* The node reads a message.

\* What any reading does to the socket, and where the firmware is meanwhile.
LEMMA TakeFacts ==
  ASSUME IInv, NEW kind, Take(kind)
  PROVE  /\ toNode \in Seq(ToNode) /\ toNode # << >> /\ toNode' = Tail(toNode)
         /\ toNode' \in Seq(ToNode) /\ Len(toNode) \in Nat \ {0}
         /\ Len(toNode') = Len(toNode) - 1
         /\ \A i \in 1..Len(toNode') :
              i \in Nat /\ i + 1 \in 1..Len(toNode) /\ toNode'[i] = toNode[i + 1]
         /\ 1 \in 1..Len(toNode) /\ toNode[1] = Head(toNode) /\ toNode[1].kind = kind
         /\ Head(toNode) \in ToNode /\ Holds(toNode, kind)
         /\ \A k : Holds(toNode', k) => Holds(toNode, k)
         /\ \A k : Holds(toNode, k) /\ kind # k => Holds(toNode', k)
         /\ \A k : Only(toNode, k) => Only(toNode', k)
         /\ Only(toNode, kind) => ~Holds(toNode', kind)
         /\ UNCHANGED <<eng, toEngine, fw, hist, local, aired>>
         /\ bridge.pc = "read" /\ fw.pc = "drain" /\ fw.todo = << >>
         /\ ~chip.hasPendingTx
<1>1. /\ toNode \in Seq(ToNode) /\ toNode # << >> /\ toNode' = Tail(toNode)
      /\ Head(toNode).kind = kind /\ bridge.pc = "read"
      /\ UNCHANGED <<eng, toEngine, fw, hist, local, aired>>
  BY DEF IInv, Shapes, Take
<1>2. /\ toNode' \in Seq(ToNode) /\ Len(toNode) \in Nat \ {0}
      /\ Len(toNode') = Len(toNode) - 1
      /\ \A i \in 1..Len(toNode') : toNode'[i] = toNode[i + 1]
      /\ toNode[1] = Head(toNode) /\ Head(toNode) \in ToNode
  BY <1>1
<1>3. 1 \in 1..Len(toNode) /\ \A i \in 1..Len(toNode') : i \in Nat /\ i + 1 \in 1..Len(toNode)
  BY <1>2
<1>4. /\ \A k : Holds(toNode', k) => Holds(toNode, k)
      /\ \A k : Holds(toNode, k) /\ Head(toNode).kind # k => Holds(toNode', k)
      /\ \A k : Only(toNode, k) => Only(toNode', k)
      /\ \A k : Only(toNode, k) /\ Head(toNode).kind = k => ~Holds(toNode', k)
  BY <1>1, Taken
<1>5. Holds(toNode, kind)
  BY <1>1, <1>2, <1>3, Zenon DEF Holds
<1>6. fw.pc = "drain" /\ fw.todo = << >> /\ ~chip.hasPendingTx
  BY <1>1 DEF IInv, States, Stages, Airs
<1>. QED
  BY <1>1, <1>2, <1>3, <1>4, <1>5, <1>6, Zenon

\* The firmware stands still.
LEMMA ReadLeaves ==
  ASSUME IInv, UNCHANGED <<fw, hist, aired>>, fw.pc = "drain", ~chip.hasPendingTx,
         bridge'.pc # "loop", ~chip'.hasPendingTx
  PROVE  States' /\ Stages' /\ GoesOut'
<1>1. States'
  BY DEF IInv, States
<1>2. Stages'
  BY DEF IInv, Stages
<1>3. GoesOut'
  BY DEF IInv, GoesOut
<1>. QED
  BY <1>1, <1>2, <1>3

\* The clocks, when it is no tick.
LEMMA ReadTurns ==
  ASSUME IInv, NEW kind, Take(kind), kind # "Tick", chip'.now = chip.now,
         bridge'.pc \in {"read", "closed"}, bridge'.sim = bridge.sim, bridge'.rtc = bridge.rtc
  PROVE  Turns'
<1>. USE TakeFacts
<1>1. ~InStep /\ ~InStep'
  BY DEF InStep
<1>2. \A i \in 1..Len(toNode') : toNode'[i].kind = "Tick" =>
         i = Len(toNode') /\ toNode'[i].at >= bridge.sim /\ ~Holds(toEngine, "Ack")
  BY DEF IInv, Turns
<1>. QED
  BY <1>1, <1>2 DEF IInv, Turns, InStep

\* A message that leaves the chip's business alone.
LEMMA ReadOther ==
  ASSUME IInv, NEW kind, Take(kind), kind \notin {"Frame", "TxDone", "Tick"},
         ChipShape(chip'), Alike(chip, chip'), chip'.now = chip.now,
         chip'.inbox = chip.inbox, bridge' = [bridge EXCEPT !.pc = bridge'.pc],
         bridge'.pc \in {"read", "closed"}
  PROVE  IInv'
<1>. USE TakeFacts
<1>1. /\ bridge'.sim = bridge.sim /\ bridge'.rtc = bridge.rtc
      /\ bridge' \in [pc : {"read", "step", "loop", "closed"}, sim : Nat, rtc : Nat,
                      at : Nat, last : BOOLEAN]
  BY DEF IInv, Shapes
<1>2. Shapes'
  BY <1>1, Zenon DEF IInv, Shapes
<1>3. Turns'
  BY <1>1, ReadTurns
<1>4. States' /\ Stages' /\ GoesOut'
  BY ReadLeaves DEF Alike
<1>5. Listens'
  BY DEF IInv, Listens, Alike
<1>6. Airs'
  BY DEF IInv, Airs, OnAir, Alike
<1>7. OneAtATime'
  BY DEF IInv, OneAtATime, OnAir, Alike
<1>8. Arrives'
  <2>. SUFFICES ASSUME FramesPerTick <= 1
                PROVE  Arrives'
    BY DEF Arrives
  <2>1. ASSUME chip'.mode = "tx", NEW i \in 1..Len(toNode'), toNode'[i].kind = "Frame"
        PROVE  \E j \in 1..(i - 1) : toNode'[j].kind = "TxDone"
    <3>1. PICK j \in 1..((i + 1) - 1) : toNode[j].kind = "TxDone"
      BY <2>1 DEF IInv, Arrives, Alike
    <3>2. j # 1
      BY <3>1
    <3>3. j - 1 \in 1..(i - 1) /\ j - 1 \in 1..Len(toNode') /\ (j - 1) + 1 = j
      BY <2>1, <3>1, <3>2
    <3>. QED
      BY <3>1, <3>3
  <2>. QED
    BY <2>1 DEF IInv, Arrives, Alike
<1>. QED
  BY <1>2, <1>3, <1>4, <1>5, <1>6, <1>7, <1>8 DEF IInv

LEMMA ReadChannelKeeps ==
  ASSUME IInv, ReadChannel
  PROVE  IInv'
<1>1. Take("ChannelBusy") /\ chip' = SetChannelBusy(chip, Head(toNode).busy) /\ bridge' = bridge
  BY DEF ReadChannel
<1>2. ChipShape(chip) /\ bridge.pc = "read"
        /\ bridge \in [pc : {"read", "step", "loop", "closed"}, sim : Nat, rtc : Nat,
                      at : Nat, last : BOOLEAN]
  BY <1>1 DEF IInv, Shapes, Take
<1>3. /\ ChipShape(chip') /\ Alike(chip, chip') /\ chip'.now = chip.now
      /\ chip'.inbox = chip.inbox
  BY <1>1, <1>2, Zenon DEF SetChannelBusy, ChipShape, Fields, Alike
<1>4. bridge' = [bridge EXCEPT !.pc = bridge'.pc]
  BY <1>1, <1>2
<1>. QED
  BY <1>1, <1>2, <1>3, <1>4, ReadOther

LEMMA ReadOriginateKeeps ==
  ASSUME IInv, ReadOriginate
  PROVE  IInv'
<1>1. Take("Originate") /\ chip' = chip /\ bridge' = bridge
  BY DEF ReadOriginate
<1>2. ChipShape(chip) /\ bridge.pc = "read"
        /\ bridge \in [pc : {"read", "step", "loop", "closed"}, sim : Nat, rtc : Nat,
                      at : Nat, last : BOOLEAN]
  BY <1>1 DEF IInv, Shapes, Take
<1>3. Alike(chip, chip') /\ bridge' = [bridge EXCEPT !.pc = bridge'.pc]
  BY <1>1, <1>2 DEF Alike
<1>. QED
  BY <1>1, <1>2, <1>3, ReadOther

LEMMA ReadUnknownKeeps ==
  ASSUME IInv, ReadUnknown
  PROVE  IInv'
<1>1. Take("Unknown") /\ chip' = chip /\ bridge' = [bridge EXCEPT !.pc = "closed"]
  BY DEF ReadUnknown
<1>2. ChipShape(chip)
        /\ bridge \in [pc : {"read", "step", "loop", "closed"}, sim : Nat, rtc : Nat,
                      at : Nat, last : BOOLEAN]
  BY <1>1 DEF IInv, Shapes
<1>3. bridge'.pc = "closed"
  BY <1>1, <1>2
<1>4. Alike(chip, chip')
  BY <1>1 DEF Alike
<1>. QED
  BY <1>1, <1>2, <1>3, <1>4, ReadOther

\* A frame goes into the inbox; the chip is not transmitting.
LEMMA ReadFrameKeeps ==
  ASSUME IInv, ReadFrame
  PROVE  IInv'
<1>1. Take("Frame") /\ chip' = QueueFrame(chip, Head(toNode).frame) /\ bridge' = bridge
  BY DEF ReadFrame
<1>. USE <1>1, TakeFacts
<1>2. Head(toNode).frame \in Seq(Bytes)
  <2>1. Head(toNode) \in ToNode /\ Head(toNode).kind = "Frame"
    BY Zenon
  <2>. QED
    BY ONLY <2>1 DEF ToNode
<1>. DEFINE box == Append(chip.inbox, Head(toNode).frame)
<1>3. /\ box \in Seq(Seq(Bytes)) /\ (chip.inbox = << >> => Len(box) <= 1)
      /\ ChipShape(chip)
  BY <1>2 DEF IInv, Shapes, ChipShape
<1>4. chip' = [chip EXCEPT !.inbox = box]
  BY DEF QueueFrame
<1>. HIDE DEF box
<1>5. /\ ChipShape(chip') /\ Alike(chip, chip') /\ chip'.now = chip.now
      /\ chip'.inbox = box
  BY <1>3, <1>4, Zenon DEF ChipShape, Fields, Alike
<1>6. Shapes'
  BY <1>5, Zenon DEF IInv, Shapes
<1>7. Turns'
  BY <1>5, ReadTurns
<1>8. States' /\ Stages' /\ GoesOut'
  BY <1>5, ReadLeaves DEF Alike
<1>9. Listens'
  BY <1>5 DEF IInv, Listens, Alike
<1>10. Airs'
  BY <1>5 DEF IInv, Airs, OnAir, Alike
<1>11. OneAtATime'
  BY <1>5 DEF IInv, OneAtATime, OnAir, Alike
<1>12. Arrives'
  <2>. SUFFICES ASSUME FramesPerTick <= 1
                PROVE  Arrives'
    BY DEF Arrives
  <2>1. chip.mode # "tx"
    BY DEF IInv, Arrives
  <2>2. Only(toNode', "Frame") /\ ~Holds(toNode', "Frame") /\ chip.inbox = << >>
    BY DEF IInv, Arrives
  <2>3. ~Holds(toEngine, "Ack") /\ ~(~eng.waiting /\ eng.given = 0)
    BY DEF IInv, Arrives
  <2>4. chip'.mode = chip.mode /\ Len(chip'.inbox) <= 1
    BY <1>3, <1>5, <2>2 DEF Alike
  <2>. QED
    BY <2>1, <2>2, <2>3, <2>4 DEF IInv, Arrives
<1>. QED
  BY <1>6, <1>7, <1>8, <1>9, <1>10, <1>11, <1>12 DEF IInv

\* The end of a waveform ends the chip's transmission.
LEMMA ReadTxDoneKeeps ==
  ASSUME IInv, ReadTxDone
  PROVE  IInv'
<1>1. Take("TxDone") /\ chip' = TransmitFinished(chip) /\ bridge' = bridge
  BY DEF ReadTxDone
<1>. USE <1>1, TakeFacts
<1>2. ChipShape(chip)
  BY DEF IInv, Shapes
<1>. DEFINE flags == chip.irq \cup {"TxDone"}
<1>3. "TxDone" \in flags /\ ("Timeout" \in flags <=> "Timeout" \in chip.irq)
  OBVIOUS
<1>4. chip' = IF chip.mode = "tx" THEN [chip EXCEPT !.irq = flags, !.mode = "standby"] ELSE chip
  BY DEF TransmitFinished
<1>. HIDE DEF flags
<1>5. /\ ChipShape(chip') /\ chip'.now = chip.now /\ chip'.inbox = chip.inbox
      /\ chip'.irqMask = chip.irqMask /\ chip'.hasPendingTx = chip.hasPendingTx
      /\ chip'.mode = IF chip.mode = "tx" THEN "standby" ELSE chip.mode
      /\ "Timeout" \in chip'.irq <=> "Timeout" \in chip.irq
      /\ "TxDone" \in chip'.irq <=> chip.mode = "tx" \/ "TxDone" \in chip.irq
  <2>1. CASE chip.mode = "tx"
    <3>1. /\ ChipShape(chip') /\ chip'.now = chip.now /\ chip'.inbox = chip.inbox
          /\ chip'.irqMask = chip.irqMask /\ chip'.hasPendingTx = chip.hasPendingTx
          /\ chip'.mode = "standby" /\ chip'.irq = flags
      <4>1. chip' = [chip EXCEPT !.irq = flags, !.mode = "standby"]
        BY ONLY <1>4, <2>1
      <4>. QED
        BY ONLY <1>2, <4>1, Zenon DEF ChipShape, Fields
    <3>. QED
      BY <1>3, <2>1, <3>1, Zenon
  <2>2. CASE chip.mode # "tx"
    BY <1>2, <1>4, <2>2, Zenon
  <2>. QED
    BY <2>1, <2>2
<1>6. Shapes'
  BY <1>5, Zenon DEF IInv, Shapes
<1>7. Turns'
  BY <1>5, ReadTurns
<1>8. States' /\ Stages' /\ GoesOut'
  BY <1>5, ReadLeaves
<1>9. Listens'
  BY <1>5 DEF IInv, Listens
<1>10. Airs'
  BY <1>5 DEF IInv, Airs, OnAir
<1>11. OneAtATime'
  <2>. SUFFICES ASSUME ~GivesUp
                PROVE  OneAtATime'
    BY DEF OneAtATime
  <2>1. ~OnAir'
    BY DEF IInv, OneAtATime, OnAir
  <2>. QED
    BY <1>5, <2>1 DEF IInv, OneAtATime, OnAir
<1>12. Arrives'
  <2>. SUFFICES ASSUME FramesPerTick <= 1
                PROVE  Arrives'
    BY DEF Arrives
  <2>1. chip'.mode # "tx"
    BY <1>5
  <2>. QED
    BY <1>5, <2>1 DEF IInv, Arrives
<1>. QED
  BY <1>6, <1>7, <1>8, <1>9, <1>10, <1>11, <1>12 DEF IInv

\* A tick begins the node's turn.
LEMMA ReadTickKeeps ==
  ASSUME IInv, ReadTick
  PROVE  IInv'
<1>1. /\ Take("Tick") /\ chip' = chip
      /\ bridge' = [bridge EXCEPT !.pc = "step", !.at = Head(toNode).at]
  BY DEF ReadTick
<1>. USE <1>1, TakeFacts
<1>2. Head(toNode).at \in Nat
  <2>1. Head(toNode) \in ToNode /\ Head(toNode).kind = "Tick"
    BY Zenon
  <2>. QED
    BY ONLY <2>1 DEF ToNode
<1>3. /\ bridge' \in [pc : {"read", "step", "loop", "closed"}, sim : Nat, rtc : Nat,
                      at : Nat, last : BOOLEAN]
      /\ bridge'.pc = "step" /\ bridge'.sim = bridge.sim /\ bridge'.rtc = bridge.rtc
      /\ bridge'.at = Head(toNode).at
  BY <1>2 DEF IInv, Shapes
<1>4. /\ Head(toNode).at >= bridge.sim /\ ~Holds(toEngine, "Ack") /\ Len(toNode) = 1
  BY DEF IInv, Turns
<1>5. eng.waiting
  BY DEF IInv, Turns
<1>6. toNode' = << >>
  BY <1>4, EmptySeq
<1>7. Shapes'
  BY <1>3, Zenon DEF IInv, Shapes
<1>8. Turns'
  BY <1>3, <1>4, <1>5, <1>6 DEF IInv, Turns, InStep, Holds
<1>9. States' /\ Stages' /\ GoesOut'
  BY <1>3, ReadLeaves
<1>10. Listens'
  BY <1>3 DEF IInv, Listens
<1>11. Airs'
  BY <1>3 DEF IInv, Airs, OnAir
<1>12. OneAtATime'
  BY <1>3 DEF IInv, OneAtATime, OnAir
<1>13. Arrives'
  BY <1>3, <1>4, <1>6 DEF IInv, Arrives
<1>. QED
  BY <1>7, <1>8, <1>9, <1>10, <1>11, <1>12, <1>13 DEF IInv

-----------------------------------------------------------------------------
\* A millisecond begins.

\* The real-time clock counts the periods that have passed.
LEMMA NextPeriod ==
  ASSUME NEW s \in Nat, NEW p \in Nat \ {0}
  PROVE  (s + 1) \div p = IF (s + 1) % p = 0 THEN (s \div p) + 1 ELSE s \div p
OBVIOUS

LEMMA BeginMsKeeps ==
  ASSUME IInv, BeginMs
  PROVE  IInv' /\ local' >= local
<1>. DEFINE more == bridge.sim < bridge.at
            s == IF more THEN bridge.sim + 1 ELSE bridge.sim
            second == more /\ s % RtcPeriod = 0
            r == IF second THEN bridge.rtc + 1 ELSE bridge.rtc
            t == BeginTick(s)
            c == Tick(chip, t)
<1>1. /\ bridge.pc = "step"
      /\ bridge' = [bridge EXCEPT !.pc = "loop", !.sim = s, !.last = ~more, !.rtc = r]
      /\ local' = t /\ chip' = c
      /\ fw' = [fw EXCEPT !.pc = "top", !.ready = ServiceIrq(c)]
      /\ UNCHANGED <<eng, toNode, toEngine, hist, aired>>
  BY DEF BeginMs, engineVars
<1>2. /\ bridge.sim \in Nat /\ bridge.at \in Nat /\ bridge.rtc \in Nat /\ local \in Nat
      /\ ChipShape(chip) /\ chip.now = local /\ bridge.at >= bridge.sim
      /\ bridge.rtc = bridge.sim \div RtcPeriod
  BY <1>1 DEF IInv, Shapes, Turns, InStep
<1>3. /\ s \in Nat /\ r \in Nat /\ s >= bridge.sim /\ bridge.at >= s
      /\ ~more => bridge.at = s
  BY <1>2
<1>4. r = s \div RtcPeriod
  <2>1. CASE more
    <3>1. s = bridge.sim + 1 /\ second <=> (bridge.sim + 1) % RtcPeriod = 0
      BY <2>1
    <3>. QED
      BY <1>2, <2>1, <3>1, NextPeriod, NodeAssumption
  <2>2. CASE ~more
    BY <1>2, <2>2
  <2>. QED
    BY <2>1, <2>2
<1>. HIDE DEF s, r
<1>5. t \in Nat /\ t >= local /\ t >= s
  BY <1>2, <1>3 DEF BeginTick
<1>. HIDE DEF t
<1>6. /\ ChipShape(c) /\ Alike(chip, c) /\ c.now = t
      /\ chip.mode # "rx" \/ chip.inbox = << >> => c.inbox = chip.inbox
      /\ chip.mode = "rx" /\ chip.inbox # << >> => c.inbox = Tail(chip.inbox)
  BY <1>2, <1>5, TickEffect, Zenon
<1>. HIDE DEF c
<1>7. /\ bridge'.pc = "loop" /\ bridge'.sim = s /\ bridge'.last = (~more) /\ bridge'.rtc = r
      /\ bridge'.at = bridge.at
      /\ bridge' \in [pc : {"read", "step", "loop", "closed"}, sim : Nat, rtc : Nat,
                      at : Nat, last : BOOLEAN]
  <2>1. bridge \in [pc : {"read", "step", "loop", "closed"}, sim : Nat, rtc : Nat,
                    at : Nat, last : BOOLEAN]
    BY DEF IInv, Shapes
  <2>2. (~more) \in BOOLEAN
    OBVIOUS
  <2>. HIDE DEF more
  <2>. QED
    BY <1>1, <1>3, <2>1, <2>2, Zenon
<1>. HIDE DEF more
<1>8. /\ DOMAIN fw' = FwFields /\ fw'.pc = "top" /\ fw'.ready = ServiceIrq(c)
      /\ fw'.state = fw.state /\ fw'.todo = fw.todo /\ fw'.ready \in BOOLEAN
  <2>1. ServiceIrq(c) \in BOOLEAN
    BY Zenon DEF ServiceIrq
  <2>2. DOMAIN fw = FwFields
    BY DEF IInv, Shapes
  <2>. QED
    BY <1>1, <2>1, <2>2, Zenon DEF FwFields
<1>9. ServiceIrq(c) <=> fw.ready \/ c.irq \cap c.irqMask # {}
  BY DEF ServiceIrq, IrqAsserted
<1>10. fw.pc = "drain" /\ fw.todo = << >> /\ ~chip.hasPendingTx
  BY <1>1 DEF IInv, States, Stages, Airs
<1>11. toNode = << >> /\ eng.waiting /\ ~Holds(toEngine, "Ack")
  BY <1>1 DEF IInv, Turns, InStep, Holds
<1>12. Shapes'
  BY <1>1, <1>5, <1>6, <1>7, <1>8, Zenon DEF IInv, Shapes
<1>13. Turns'
  <2>1. chip'.now = local' /\ local' >= bridge'.sim /\ bridge'.rtc = bridge'.sim \div RtcPeriod
    BY <1>1, <1>4, <1>5, <1>6, <1>7
  <2>2. /\ toNode' = << >> /\ bridge'.at >= bridge'.sim
        /\ bridge'.last => bridge'.at = bridge'.sim
    BY <1>1, <1>3, <1>7, <1>11
  <2>3. ~Holds(toNode', "Tick") /\ ~Holds(toEngine', "Ack") /\ eng'.waiting
    BY <1>1, <1>11 DEF Holds
  <2>. QED
    BY <2>1, <2>2, <2>3 DEF Turns, Holds
<1>14. States'
  BY <1>7, <1>8 DEF States
<1>15. Stages'
  BY <1>8, <1>10 DEF Stages
<1>16. Listens'
  <2>1. /\ fw.state = "rx" => chip.mode = "rx"
        /\ fw.state = "tx" => /\ chip.irqMask = TxIrqFlags
                              /\ IF "TxDone" \in chip.irq THEN chip.mode = "standby"
                                 ELSE chip.mode = "tx"
    BY <1>10 DEF IInv, Listens
  <2>2. "TxDone" \in c.irq /\ c.irqMask = TxIrqFlags => c.irq \cap c.irqMask # {}
    BY DEF TxIrqFlags
  <2>. QED
    BY <1>1, <1>6, <1>8, <1>9, <2>1, <2>2 DEF Listens, Alike
<1>17. Airs'
  BY <1>1, <1>6, <1>10 DEF IInv, Airs, OnAir, Alike
<1>18. OneAtATime'
  <2>. SUFFICES ASSUME ~GivesUp
                PROVE  OneAtATime'
    BY DEF OneAtATime
  <2>1. "Timeout" \notin c.irq /\ (fw.state = "tx" /\ fw.ready => "TxDone" \in c.irq)
    BY <1>6 DEF IInv, OneAtATime, Alike
  <2>2. fw.state = "tx" => c.irqMask = TxIrqFlags
    BY <1>6 DEF IInv, Listens, Alike
  <2>3. fw.state = "tx" /\ c.irq \cap c.irqMask # {} => "TxDone" \in c.irq
    BY <2>1, <2>2 DEF TxIrqFlags
  <2>. QED
    BY <1>1, <1>6, <1>8, <1>9, <2>1, <2>3 DEF IInv, OneAtATime, OnAir, Alike
<1>19. Arrives'
  <2>. SUFFICES ASSUME FramesPerTick <= 1
                PROVE  Arrives'
    BY DEF Arrives
  <2>1. chip.inbox \in Seq(Seq(Bytes)) /\ Len(chip.inbox) <= 1
    BY DEF IInv, Arrives, Shapes, ChipShape
  <2>2. chip.inbox # << >> => Tail(chip.inbox) = << >>
    BY <2>1, LastTaken
  <2>3. c.mode = "rx" => c.inbox = << >>
    BY <1>6, <2>2 DEF Alike
  <2>4. c.mode # "rx" => c.inbox = chip.inbox
    BY <1>6 DEF Alike
  <2>5. Len(c.inbox) <= 1
    BY <2>1, <2>3, <2>4
  <2>6. ~Holds(toNode, "Frame") /\ Only(toNode, "Frame") /\ Len(toNode) = 0
    BY <1>11 DEF Holds, Only
  <2>. QED
    BY <1>1, <1>6, <1>7, <1>11, <2>3, <2>4, <2>5, <2>6 DEF IInv, Arrives, Alike
<1>20. GoesOut'
  BY <1>1, <1>6, <1>8, <1>10 DEF IInv, GoesOut, Alike
<1>. QED
  BY <1>1, <1>5, <1>12, <1>13, <1>14, <1>15, <1>16, <1>17, <1>18, <1>19, <1>20 DEF IInv

-----------------------------------------------------------------------------
\* The end of loop().

LEMMA EndLoopKeeps ==
  ASSUME IInv, EndLoop
  PROVE  IInv'
<1>. DEFINE drains == chip.hasPendingTx
            frame == [kind |-> "Frame", frame |-> chip.pendingTx]
            stats == [kind |-> "Stats"]
            ack == [kind |-> "Ack", at |-> bridge.at]
            q == IF drains THEN Append(toEngine, frame) ELSE toEngine
            r == Append(q, stats)
            s == IF bridge.last THEN Append(r, ack) ELSE q
<1>1. /\ bridge.pc = "loop" /\ fw.pc = "drain" /\ fw.todo = << >>
      /\ bridge' = [bridge EXCEPT !.pc = IF bridge.last THEN "read" ELSE "step"]
      /\ toEngine' = toEngine \o (IF drains THEN << frame >> ELSE << >>)
                              \o (IF bridge.last THEN << stats, ack >> ELSE << >>)
      /\ aired' = IF drains THEN Append(aired, chip.pendingTx) ELSE aired
      /\ chip' = IF drains THEN TakeTx(chip) ELSE chip
      /\ UNCHANGED <<local, eng, toNode, fw, hist>>
  BY DEF EndLoop, EndLoopWith
<1>2. /\ toEngine \in Seq(ToEngine) /\ aired \in Seq(Payloads) /\ ChipShape(chip)
      /\ chip.pendingTx \in Payloads /\ drains \in BOOLEAN
      /\ bridge \in [pc : {"read", "step", "loop", "closed"}, sim : Nat, rtc : Nat,
                     at : Nat, last : BOOLEAN]
  BY DEF IInv, Shapes, ChipShape
<1>3. bridge.at \in Nat /\ bridge.last \in BOOLEAN
  BY <1>2
<1>4. /\ frame \in ToEngine /\ stats \in ToEngine /\ ack \in ToEngine
      /\ frame.kind = "Frame" /\ stats.kind = "Stats" /\ ack.kind = "Ack"
      /\ ack.at = bridge.at
  BY <1>2, <1>3 DEF ToEngine
<1>. HIDE DEF frame, stats, ack
<1>5. q \in Seq(ToEngine) /\ r \in Seq(ToEngine)
  BY <1>2, <1>4
<1>6. toEngine' = s
  <2>1. q = toEngine \o (IF drains THEN << frame >> ELSE << >>)
    BY <1>2, <1>4, JoinedTwo
  <2>. HIDE DEF q
  <2>2. s = q \o (IF bridge.last THEN << stats, ack >> ELSE << >>)
    BY <1>4, <1>5, JoinedTwo
  <2>. HIDE DEF s
  <2>. QED
    BY <1>1, <2>1, <2>2
<1>7. /\ Holds(q, "Frame") <=> Holds(toEngine, "Frame") \/ drains
      /\ Holds(q, "Ack") <=> Holds(toEngine, "Ack")
      /\ Only(toEngine, "Frame") /\ (drains => ~Holds(toEngine, "Frame")) => Only(q, "Frame")
  BY <1>2, <1>4, Told
<1>. HIDE DEF q
<1>8. /\ Holds(r, "Frame") <=> Holds(q, "Frame")
      /\ Holds(r, "Ack") <=> Holds(q, "Ack")
      /\ Only(q, "Frame") => Only(r, "Frame")
  BY <1>4, <1>5, Told
<1>. HIDE DEF r
<1>9. /\ Holds(s, "Frame") <=> Holds(toEngine, "Frame") \/ drains
      /\ Holds(s, "Ack") <=> Holds(toEngine, "Ack") \/ bridge.last
      /\ Only(toEngine, "Frame") /\ (drains => ~Holds(toEngine, "Frame")) => Only(s, "Frame")
  <2>1. CASE bridge.last
    <3>1. s = Append(r, ack)
      BY <2>1
    <3>2. /\ Holds(s, "Frame") <=> Holds(r, "Frame")
          /\ Holds(s, "Ack")
          /\ Only(r, "Frame") => Only(s, "Frame")
      BY <1>4, <1>5, <3>1, Told
    <3>. QED
      BY <1>7, <1>8, <2>1, <3>2
  <2>2. CASE ~bridge.last
    BY <1>7, <2>2
  <2>. QED
    BY <2>1, <2>2
<1>10. ~Holds(toEngine, "Ack")
  BY <1>1 DEF IInv, Turns, InStep, Holds
<1>11. /\ s \in Seq(ToEngine)
       /\ \A i \in 1..Len(s) : s[i].kind = "Ack" =>
            i = Len(s) /\ s[i].at = bridge.at /\ bridge.last
  <2>1. CASE bridge.last
    <3>1. s = Append(r, ack)
      BY <2>1
    <3>2. /\ s \in Seq(ToEngine) /\ Len(r) \in Nat /\ Len(s) = Len(r) + 1
          /\ s[Len(r) + 1] = ack /\ \A i \in 1..Len(r) : s[i] = r[i]
      BY <1>4, <1>5, <3>1
    <3>3. \A i \in 1..Len(s) : i \in 1..Len(r) \/ i = Len(r) + 1
      BY <3>2
    <3>4. \A i \in 1..Len(r) : r[i].kind # "Ack"
      BY <1>7, <1>8, <1>10 DEF Holds
    <3>. QED
      BY <1>4, <2>1, <3>2, <3>3, <3>4
  <2>2. CASE ~bridge.last
    BY <1>5, <1>7, <1>10, <2>2 DEF Holds
  <2>. QED
    BY <2>1, <2>2
<1>. HIDE DEF s
<1>12. /\ bridge' \in [pc : {"read", "step", "loop", "closed"}, sim : Nat, rtc : Nat,
                       at : Nat, last : BOOLEAN]
       /\ bridge'.sim = bridge.sim /\ bridge'.rtc = bridge.rtc /\ bridge'.at = bridge.at
       /\ bridge'.pc = IF bridge.last THEN "read" ELSE "step"
  BY <1>1, <1>2
<1>13. /\ ChipShape(chip') /\ ~chip'.hasPendingTx /\ chip'.now = chip.now
       /\ chip'.mode = chip.mode /\ chip'.irq = chip.irq /\ chip'.irqMask = chip.irqMask
       /\ chip'.inbox = chip.inbox
  BY <1>1, <1>2, Zenon DEF TakeTx, ChipShape, Fields
<1>14. toNode = << >> /\ eng.waiting /\ (bridge.last => bridge.at = bridge.sim)
       /\ bridge.at >= bridge.sim
  BY <1>1 DEF IInv, Turns, InStep
<1>15. /\ fw.state = "rx" \/ fw.state = "tx"
       /\ fw.state = "rx" => chip.mode = "rx"
       /\ fw.state = "tx" => chip.mode = "tx" /\ "TxDone" \notin chip.irq
       /\ drains => fw.state = "tx"
  BY <1>1 DEF IInv, Shapes, States, Listens, Airs
<1>16. Shapes'
  <2>1. aired' \in Seq(Payloads)
    BY <1>1, <1>2
  <2>. QED
    BY <1>1, <1>6, <1>11, <1>12, <1>13, <2>1, Zenon DEF IInv, Shapes
<1>17. Turns'
  <2>1. /\ chip'.now = local' /\ local' >= bridge'.sim
        /\ bridge'.rtc = bridge'.sim \div RtcPeriod
    BY <1>1, <1>12, <1>13 DEF IInv, Turns
  <2>2. toNode' = << >> /\ eng'.waiting /\ ~Holds(toNode', "Tick")
    BY <1>1, <1>14 DEF Holds
  <2>3. bridge'.at >= bridge'.sim /\ bridge'.pc # "loop"
    BY <1>12, <1>14
  <2>4. \A i \in 1..Len(toEngine') : toEngine'[i].kind = "Ack" =>
          i = Len(toEngine') /\ toEngine'[i].at = bridge'.sim /\ ~InStep'
    BY <1>6, <1>11, <1>12, <1>14 DEF InStep
  <2>. QED
    BY <2>1, <2>2, <2>3, <2>4 DEF Turns, Holds
<1>18. States'
  BY <1>1, <1>12 DEF States
<1>19. Stages'
  BY <1>1 DEF Stages
<1>20. Listens'
  BY <1>1, <1>12, <1>13 DEF IInv, Listens
<1>21. Airs'
  BY <1>1, <1>6, <1>9, <1>13 DEF IInv, Airs, OnAir
<1>22. OneAtATime'
  <2>. SUFFICES ASSUME ~GivesUp
                PROVE  OneAtATime'
    BY DEF OneAtATime
  <2>1. drains => ~OnAir /\ chip.mode = "tx"
    BY <1>15 DEF IInv, OneAtATime
  <2>. QED
    BY <1>1, <1>6, <1>9, <1>13, <2>1 DEF IInv, OneAtATime, OnAir
<1>23. Arrives'
  <2>. SUFFICES ASSUME FramesPerTick <= 1
                PROVE  Arrives'
    BY DEF Arrives
  <2>1. chip.inbox = << >>
    BY <1>1, <1>15 DEF IInv, Arrives
  <2>2. ~Holds(toNode, "Frame") /\ Len(toNode) = 0
    BY <1>14 DEF Holds
  <2>. QED
    BY <1>1, <1>13, <1>14, <2>1, <2>2 DEF IInv, Arrives
<1>24. GoesOut'
  <2>. SUFFICES ASSUME FramesPerTick <= 1
                PROVE  aired' = hist.sent
    BY <1>1, <1>13 DEF GoesOut
  <2>1. CASE ~drains
    BY <1>1, <2>1 DEF IInv, GoesOut
  <2>2. CASE drains
    <3>1. /\ hist.sent # << >> /\ aired = SubSeq(hist.sent, 1, Len(hist.sent) - 1)
          /\ chip.pendingTx = Last(hist.sent) /\ hist.sent \in Seq(OutFrames)
      BY <2>2 DEF IInv, GoesOut, Shapes
    <3>. QED
      BY <1>1, <2>2, <3>1, FrontAndLast
  <2>. QED
    BY <2>1, <2>2
<1>. QED
  BY <1>16, <1>17, <1>18, <1>19, <1>20, <1>21, <1>22, <1>23, <1>24 DEF IInv

-----------------------------------------------------------------------------
\* A transaction with the chip.

Before == Tick(chip, local')
After == RunCommand(Before, Head(fw.todo))

\* What it leaves alone, and where the firmware is when it has a command to send.
SpiLeaves ==
  /\ fw.todo # << >> /\ DOMAIN fw' = FwFields /\ fw'.todo = Tail(fw.todo)
  /\ fw'.pc = fw.pc /\ fw'.state = fw.state /\ fw'.ready = fw.ready
  /\ DOMAIN hist' = HistFields /\ hist'.sent = hist.sent
  /\ UNCHANGED <<eng, toNode, toEngine, bridge, aired>>
  /\ bridge.pc = "loop" /\ toNode = << >> /\ eng.waiting /\ ~chip.hasPendingTx
  /\ fw.pc \in {"recv", "len", "lbt", "listen", "started", "sent"}
  /\ fw.state # "tx" /\ (fw.state = "rx" => chip.mode = "rx")
  /\ ~GivesUp => chip.mode # "tx"

LEMMA SpiFacts ==
  ASSUME IInv, Spi
  PROVE  /\ SpiLeaves /\ local' \in Nat /\ local' >= local /\ chip' = Tick(After, local')
         /\ ChipShape(Before) /\ Alike(chip, Before) /\ Before.now = local'
         /\ chip.mode # "rx" \/ chip.inbox = << >> =>
              Before.inbox = chip.inbox /\ Before.buffer = chip.buffer
         /\ chip.mode = "rx" /\ chip.inbox # << >> => Before.inbox = Tail(chip.inbox)
<1>1. fw.todo # << >> /\ UNCHANGED <<eng, toNode, toEngine, bridge, aired>>
  BY DEF Spi, engineVars
<1>2. PICK d \in 0..SpiMs :
        /\ local' = local + d
        /\ chip' = Tick(RunCommand(Tick(chip, local + d), Head(fw.todo)), local + d)
        /\ \E n, f : fw' = [fw EXCEPT !.todo = Tail(@), !.len = n, !.seen = f]
        /\ \E h, f, u : hist' = [hist EXCEPT !.heard = h, !.fresh = f, !.up = u]
  <2>. DEFINE cmd == Head(fw.todo)
              b(d) == Tick(chip, local + d)
              count(d) == IF fw.pc = "len" \/ b(d).rxLen < fw.len THEN b(d).rxLen ELSE fw.len
              len(d) == IF cmd.op = "GetRxBufferStatus" THEN count(d) ELSE fw.len
              seen(d) == IF cmd.op = "GetIrqStatus"
                         THEN IrqReply(b(d), GetterLength(cmd.op)) \cap BusyFlags ELSE fw.seen
              frame(d) == Prefix(b(d).buffer, fw.len)
              heard(d) == IF cmd.op = "ReadBuffer" THEN Append(hist.heard, frame(d))
                          ELSE hist.heard
              fresh(d) == IF cmd.op = "ReadBuffer" /\ "RxDone" \in b(d).irq
                          THEN Append(hist.fresh, frame(d)) ELSE hist.fresh
              up(d) == IF cmd.op = "GetIrqStatus" THEN b(d).irq \cap BusyFlags ELSE hist.up
  <2>1. PICK d \in 0..SpiMs :
          /\ local' = local + d /\ chip' = Tick(RunCommand(b(d), cmd), local + d)
          /\ fw' = [fw EXCEPT !.todo = Tail(@), !.len = len(d), !.seen = seen(d)]
          /\ hist' = [hist EXCEPT !.heard = heard(d), !.fresh = fresh(d), !.up = up(d)]
    BY Zenon DEF Spi
  <2>. HIDE DEF len, seen, heard, fresh, up
  <2>. QED
    BY <2>1, Zenon
<1>3. /\ local \in Nat /\ ChipShape(chip) /\ DOMAIN fw = FwFields /\ DOMAIN hist = HistFields
      /\ fw.state \in {"idle", "rx", "tx"}
  BY DEF IInv, Shapes
<1>4. local' \in Nat /\ local' >= local
  BY <1>2, <1>3, NodeAssumption
<1>5. chip' = Tick(After, local')
  BY <1>2 DEF Before, After
<1>6. /\ ChipShape(Before) /\ Alike(chip, Before) /\ Before.now = local'
      /\ chip.mode # "rx" \/ chip.inbox = << >> =>
           Before.inbox = chip.inbox /\ Before.buffer = chip.buffer
      /\ chip.mode = "rx" /\ chip.inbox # << >> => Before.inbox = Tail(chip.inbox)
  BY <1>3, <1>4, TickEffect, Zenon DEF Before
<1>7. /\ DOMAIN fw' = FwFields /\ fw'.todo = Tail(fw.todo)
      /\ fw'.pc = fw.pc /\ fw'.state = fw.state /\ fw'.ready = fw.ready
  BY <1>2, <1>3, Zenon DEF FwFields
<1>8. DOMAIN hist' = HistFields /\ hist'.sent = hist.sent
  BY <1>2, <1>3, Zenon DEF HistFields
<1>9. /\ bridge.pc = "loop" /\ fw.pc \in {"recv", "len", "lbt", "listen", "started", "sent"}
      /\ fw.state # "tx" /\ (fw.state = "rx" => chip.mode = "rx") /\ ~chip.hasPendingTx
  BY <1>1, <1>3 DEF IInv, States, Stages, Listens, Airs
<1>10. toNode = << >> /\ eng.waiting
  BY <1>9 DEF IInv, Turns, InStep
<1>11. ~GivesUp => chip.mode # "tx"
  BY <1>3, <1>9 DEF IInv, OneAtATime
<1>. QED
  BY <1>1, <1>4, <1>5, <1>6, <1>7, <1>8, <1>9, <1>10, <1>11, Zenon DEF SpiLeaves

\* It is enough to look at the command.
LEMMA CommandKeeps ==
  ASSUME IInv, Spi, Stages', ChipShape(After), After.inbox = Before.inbox,
         fw.state = "rx" /\ (fw.pc = "sent" => fw'.todo # << >>) => After.mode = "rx",
         After.hasPendingTx =>
           /\ fw.pc = "sent" /\ fw'.todo = << >> /\ chip.mode = "rx"
           /\ FramesPerTick <= 1 => After.pendingTx = Last(hist.sent),
         After.mode = "tx" /\ ~After.hasPendingTx => chip.mode = "tx",
         "Timeout" \in After.irq => "Timeout" \in Before.irq
  PROVE  IInv'
<1>1. /\ SpiLeaves /\ local' \in Nat /\ local' >= local /\ chip' = Tick(After, local')
      /\ Alike(chip, Before)
      /\ chip.mode # "rx" \/ chip.inbox = << >> => Before.inbox = chip.inbox
      /\ chip.mode = "rx" /\ chip.inbox # << >> => Before.inbox = Tail(chip.inbox)
  BY SpiFacts
<1>2. /\ ChipShape(chip') /\ Alike(After, chip') /\ chip'.now = local'
      /\ After.mode # "rx" \/ After.inbox = << >> => chip'.inbox = After.inbox
      /\ After.mode = "rx" /\ After.inbox # << >> => chip'.inbox = Tail(After.inbox)
  BY <1>1, TickEffect, Zenon
<1>3. Shapes'
  BY <1>1, <1>2, Zenon DEF IInv, Shapes, SpiLeaves
<1>4. Turns'
  <2>1. chip'.now = local' /\ local' >= bridge'.sim
    BY <1>1, <1>2 DEF IInv, Turns, Shapes, SpiLeaves
  <2>. QED
    BY <1>1, <2>1 DEF IInv, Turns, InStep, SpiLeaves
<1>5. States'
  BY <1>1 DEF IInv, States, SpiLeaves
<1>6. Listens'
  BY <1>1, <1>2 DEF Listens, SpiLeaves, Alike
<1>7. Airs'
  BY <1>1, <1>2 DEF IInv, Airs, OnAir, SpiLeaves, Alike
<1>8. OneAtATime'
  <2>. SUFFICES ASSUME ~GivesUp
                PROVE  OneAtATime'
    BY DEF OneAtATime
  <2>1. ~OnAir /\ chip.mode # "tx" /\ "Timeout" \notin chip'.irq
    BY <1>1, <1>2 DEF IInv, OneAtATime, SpiLeaves, Alike
  <2>2. fw.state = "idle" => chip'.mode # "tx"
    BY <1>1, <1>2, <2>1 DEF IInv, States, SpiLeaves, Alike
  <2>. QED
    BY <1>1, <2>1, <2>2 DEF IInv, OneAtATime, OnAir, SpiLeaves
<1>9. Arrives'
  <2>. SUFFICES ASSUME FramesPerTick <= 1
                PROVE  Arrives'
    BY DEF Arrives
  <2>1. chip.inbox \in Seq(Seq(Bytes)) /\ Len(chip.inbox) <= 1
    BY DEF IInv, Arrives, Shapes, ChipShape
  <2>2. chip.mode \in {"rx", "tx"} => chip.inbox = << >>
    BY <1>1 DEF IInv, Arrives, SpiLeaves
  <2>3. Before.inbox = chip.inbox
    BY <1>1, <2>2
  <2>4. After.mode = "tx" => chip.inbox = << >>
    BY <2>2
  <2>5. chip.inbox # << >> => Tail(chip.inbox) = << >>
    BY <2>1, LastTaken
  <2>6. /\ chip'.mode \in {"rx", "tx"} => chip'.inbox = << >>
        /\ chip'.inbox = << >> \/ chip'.inbox = chip.inbox
    BY <1>2, <2>3, <2>4, <2>5 DEF Alike
  <2>7. Len(chip'.inbox) <= 1
    BY <2>1, <2>6
  <2>8. ~Holds(toNode, "Frame") /\ Only(toNode, "Frame") /\ Len(toNode) = 0
    BY <1>1 DEF Holds, Only, SpiLeaves
  <2>9. ~Holds(toEngine, "Ack")
    BY <1>1 DEF IInv, Turns, InStep, Holds, SpiLeaves
  <2>. QED
    BY <1>1, <2>6, <2>7, <2>8, <2>9 DEF IInv, Arrives, SpiLeaves
<1>10. GoesOut'
  BY <1>1, <1>2 DEF IInv, GoesOut, SpiLeaves, Alike
<1>. QED
  BY <1>3, <1>4, <1>5, <1>6, <1>7, <1>8, <1>9, <1>10 DEF IInv

\* The kinds of command the driver sends.
LEMMA HarmlessKeeps ==
  ASSUME IInv, Spi, Stages', Head(fw.todo).op \in Harmless
  PROVE  IInv'
<1>1. SpiLeaves /\ ChipShape(Before) /\ Alike(chip, Before)
  BY SpiFacts
<1>2. /\ ChipShape(After) /\ After.inbox = Before.inbox /\ After.mode = Before.mode
      /\ After.hasPendingTx = Before.hasPendingTx /\ After.irq \subseteq Before.irq
  BY <1>1, HarmlessEffect, Zenon DEF After
<1>. QED
  BY <1>1, <1>2, CommandKeeps DEF SpiLeaves, Alike

LEMMA StandbyKeeps ==
  ASSUME IInv, Spi, Stages', Head(fw.todo).op \in {"SetStandby", "SetRx"}, fw.state = "idle"
  PROVE  IInv'
<1>1. SpiLeaves /\ ChipShape(Before) /\ Alike(chip, Before)
  BY SpiFacts
<1>2. /\ ChipShape(After) /\ After.inbox = Before.inbox
      /\ After.mode = IF Head(fw.todo).op = "SetRx" THEN "rx" ELSE "standby"
      /\ After.hasPendingTx = Before.hasPendingTx /\ After.irq = Before.irq
  BY <1>1, StandbyEffect DEF After
<1>. QED
  BY <1>1, <1>2, CommandKeeps DEF SpiLeaves, Alike

LEMMA StageKeeps ==
  ASSUME IInv, Spi, Stages', NEW cmd, cmd = Head(fw.todo),
         \/ cmd.op = "SetPacketParams" /\ cmd.arg \in 0..MaxPayload
         \/ cmd.op = "SetDioIrqParams"
         \/ cmd.op = "WriteBuffer" /\ cmd.arg[1] = 0 /\ cmd.arg[2] \in Payloads
  PROVE  IInv'
<1>1. SpiLeaves /\ ChipShape(Before) /\ Alike(chip, Before)
  BY SpiFacts
<1>2. /\ ChipShape(After) /\ After.inbox = Before.inbox /\ After.mode = Before.mode
      /\ After.hasPendingTx = Before.hasPendingTx /\ After.irq = Before.irq
  BY <1>1, StageEffect, Zenon DEF After
<1>. QED
  BY <1>1, <1>2, CommandKeeps DEF SpiLeaves, Alike

\* The programs, command by command.
LEMMA FinishKeeps ==
  ASSUME IInv, Spi, fw.pc = "recv"
  PROVE  IInv'
<1>. DEFINE s == FinishTransmit
            S == {s[1], s[2]}
<1>1. /\ s \in Seq(S) /\ Len(s) = 2
      /\ s[1].op = "ClearIrqStatus" /\ s[2].op = "SetStandby"
  BY DEF FinishTransmit, Cmd
<1>2. SpiLeaves /\ fw.state = "idle"
  BY SpiFacts DEF IInv, States, SpiLeaves
<1>3. PICK k \in 1..3 : Staged(s, k)
  BY DEF IInv, Stages
<1>. HIDE DEF s, S
<1>4. /\ k \in 1..2 /\ k + 1 \in 1..3 /\ Head(fw.todo) = s[k]
      /\ fw'.todo = SubSeq(s, k + 1, Len(s))
  BY <1>1, <1>2, <1>3, NextCommand DEF Staged, SpiLeaves
<1>5. Stages'
  BY <1>2, <1>4 DEF Stages, Staged, SpiLeaves, s
<1>6. CASE k = 1
  BY <1>1, <1>4, <1>5, <1>6, HarmlessKeeps DEF Harmless
<1>7. CASE k = 2
  BY <1>1, <1>2, <1>4, <1>5, <1>7, StandbyKeeps
<1>. QED
  BY <1>4, <1>6, <1>7

LEMMA LengthKeeps ==
  ASSUME IInv, Spi, fw.pc = "len"
  PROVE  IInv'
<1>. DEFINE s == GetPacketLength
            S == {s[1]}
<1>1. s \in Seq(S) /\ Len(s) = 1 /\ s[1].op = "GetRxBufferStatus"
  BY DEF GetPacketLength, Cmd
<1>2. SpiLeaves
  BY SpiFacts
<1>3. PICK k \in 1..2 : Staged(s, k)
  BY DEF IInv, Stages
<1>. HIDE DEF s, S
<1>4. /\ k = 1 /\ k + 1 \in 1..2 /\ Head(fw.todo) = s[1]
      /\ fw'.todo = SubSeq(s, k + 1, Len(s))
  BY <1>1, <1>2, <1>3, NextCommand DEF Staged, SpiLeaves
<1>5. Stages'
  BY <1>2, <1>4 DEF Stages, Staged, SpiLeaves, s
<1>. QED
  BY <1>1, <1>4, <1>5, HarmlessKeeps DEF Harmless

LEMMA FlagsKeeps ==
  ASSUME IInv, Spi, fw.pc = "lbt"
  PROVE  IInv'
<1>. DEFINE s == GetIrqFlags
            S == {s[1]}
<1>1. s \in Seq(S) /\ Len(s) = 1 /\ s[1].op = "GetIrqStatus"
  BY DEF GetIrqFlags, Cmd
<1>2. SpiLeaves
  BY SpiFacts
<1>3. PICK k \in 1..2 : Staged(s, k)
  BY DEF IInv, Stages
<1>. HIDE DEF s, S
<1>4. /\ k = 1 /\ k + 1 \in 1..2 /\ Head(fw.todo) = s[1]
      /\ fw'.todo = SubSeq(s, k + 1, Len(s))
  BY <1>1, <1>2, <1>3, NextCommand DEF Staged, SpiLeaves
<1>5. Stages'
  BY <1>2, <1>4 DEF Stages, Staged, SpiLeaves, s
<1>. QED
  BY <1>1, <1>4, <1>5, HarmlessKeeps DEF Harmless

LEMMA ReadKeeps ==
  ASSUME IInv, Spi, fw.pc = "listen"
  PROVE  IInv'
<1>. DEFINE s == ReadData
            S == {s[1], s[2], s[3], s[4]}
<1>1. /\ s \in Seq(S) /\ Len(s) = 4
      /\ s[1].op \in Harmless /\ s[2].op \in Harmless
      /\ s[3].op \in Harmless /\ s[4].op \in Harmless
  BY DEF ReadData, Cmd, Harmless
<1>2. SpiLeaves
  BY SpiFacts
<1>3. PICK k \in 1..5 : Staged(s, k)
  BY DEF IInv, Stages
<1>. HIDE DEF s, S
<1>4. /\ k \in 1..4 /\ k + 1 \in 1..5 /\ Head(fw.todo) = s[k]
      /\ fw'.todo = SubSeq(s, k + 1, Len(s))
  BY <1>1, <1>2, <1>3, NextCommand DEF Staged, SpiLeaves
<1>5. Stages'
  BY <1>2, <1>4 DEF Stages, Staged, SpiLeaves, s
<1>6. s[k].op \in Harmless
  BY <1>1, <1>4
<1>. QED
  BY <1>4, <1>5, <1>6, HarmlessKeeps

LEMMA ReceiveKeeps ==
  ASSUME IInv, Spi, fw.pc = "started"
  PROVE  IInv'
<1>. DEFINE s == StartReceive
            S == {s[1], s[2], s[3], s[4], s[5]}
<1>1. /\ s \in Seq(S) /\ Len(s) = 5
      /\ s[1].op = "SetStandby" /\ s[2].op = "SetDioIrqParams" /\ s[3].op = "ClearIrqStatus"
      /\ s[4].op = "SetPacketParams" /\ s[4].arg = MaxPayload /\ s[5].op = "SetRx"
  BY DEF StartReceive, Cmd
<1>2. SpiLeaves /\ fw.state = "idle" /\ ChipShape(Before) /\ chip' = Tick(After, local')
      /\ local' \in Nat
  BY SpiFacts DEF IInv, States
<1>3. PICK k \in 1..6 : Staged(s, k)
  BY DEF IInv, Stages
<1>. HIDE DEF s, S
<1>4. /\ k \in 1..5 /\ k + 1 \in 1..6 /\ Head(fw.todo) = s[k]
      /\ fw'.todo = SubSeq(s, k + 1, Len(s))
  BY <1>1, <1>2, <1>3, NextCommand DEF Staged, SpiLeaves
<1>5. k = 5 => chip'.mode = "rx"
  <2>. SUFFICES ASSUME k = 5
                PROVE  chip'.mode = "rx"
    OBVIOUS
  <2>1. Head(fw.todo).op = "SetRx" /\ Head(fw.todo).op \in {"SetStandby", "SetRx"}
    BY <1>1, <1>4
  <2>2. /\ ChipShape(After)
        /\ After.mode = IF Head(fw.todo).op = "SetRx" THEN "rx" ELSE "standby"
    BY <1>2, <2>1, StandbyEffect DEF After
  <2>. QED
    BY <1>2, <2>1, <2>2, TickEffect DEF Alike
<1>6. Stages'
  <2>1. k + 1 > 5 => chip'.mode = "rx"
    BY <1>4, <1>5
  <2>. QED
    BY <1>2, <1>4, <2>1 DEF Stages, Staged, SpiLeaves, s
<1>7. CASE k \in {1, 5}
  BY <1>1, <1>2, <1>4, <1>6, <1>7, StandbyKeeps
<1>8. CASE k = 3
  BY <1>1, <1>4, <1>6, <1>8, HarmlessKeeps DEF Harmless
<1>9. CASE k \in {2, 4}
  <2>1. MaxPayload \in 0..MaxPayload
    BY BufLenAssumption DEF MaxPayload
  <2>. QED
    BY <1>1, <1>4, <1>6, <1>9, <2>1, StageKeeps
<1>. QED
  BY <1>4, <1>7, <1>8, <1>9

\* What is staged to be sent stays as it is until the chip takes it.
LEMMA TransmitKeeps ==
  ASSUME IInv, Spi, fw.pc = "sent"
  PROVE  IInv'
<1>. DEFINE f == Last(hist.sent)
            s == StartTransmit(f)
            S == {s[1], s[2], s[3], s[4], s[5]}
            cmd == Head(fw.todo)
            txLen == chip.txLen
<1>1. /\ s \in Seq(S) /\ Len(s) = 5
      /\ s[1].op = "SetPacketParams" /\ s[1].arg = Len(f)
      /\ s[2].op = "SetDioIrqParams" /\ s[2].arg[1] = TxIrqFlags
      /\ s[3].op = "WriteBuffer" /\ s[3].arg[1] = 0 /\ s[3].arg[2] = f
      /\ s[4].op = "ClearIrqStatus" /\ s[4].arg = Flags /\ s[5].op = "SetTx"
  BY DEF StartTransmit, Cmd
<1>2. /\ SpiLeaves /\ local' \in Nat /\ chip' = Tick(After, local')
      /\ ChipShape(Before) /\ Alike(chip, Before)
      /\ fw.state = "rx" /\ chip.mode = "rx"
      /\ chip.inbox = << >> => Before.inbox = chip.inbox /\ Before.buffer = chip.buffer
  <2>1. SpiLeaves /\ fw.state = "rx"
    BY SpiFacts DEF IInv, States
  <2>. QED
    BY <2>1, SpiFacts DEF SpiLeaves
<1>3. hist.sent # << >> /\ \E k \in 1..6 : Sends(f, k)
  BY DEF IInv, Stages
<1>4. f \in Payloads /\ Len(f) \in 0..MaxPayload
  <2>1. hist.sent \in Seq(OutFrames)
    BY DEF IInv, Shapes
  <2>2. f \in OutFrames
    BY <1>3, <2>1 DEF Last
  <2>3. f \in Payloads
    BY <2>2, MeshCoreAssumption
  <2>. HIDE DEF f
  <2>4. PICK n \in 0..MaxPayload : f \in [1..n -> Bytes]
    BY <2>3 DEF Payloads
  <2>5. Len(f) = n
    BY <2>4, BufLenAssumption DEF MaxPayload
  <2>. QED
    BY <2>3, <2>4, <2>5
<1>5. PICK k \in 1..6 : Sends(f, k)
  BY <1>3
<1>6. f' = f
  BY <1>2 DEF SpiLeaves, Last
<1>. HIDE DEF f, s, S
<1>7. /\ k \in 1..5 /\ k + 1 \in 1..6 /\ cmd = s[k]
      /\ fw'.todo = SubSeq(s, k + 1, Len(s))
  BY <1>1, <1>2, <1>5, NextCommand DEF Sends, Staged, SpiLeaves, s
<1>8. fw'.todo = << >> <=> k = 5
  <2>. DEFINE j == k + 1
  <2>1. j \in 1..(Len(s) + 1) /\ fw'.todo = SubSeq(s, j, Len(s)) /\ (j = 6 <=> k = 5)
    BY <1>1, <1>7
  <2>2. j = Len(s) + 1 <=> j = 6
    BY <1>1
  <2>. DEFINE u == fw'.todo
  <2>3. s \in Seq(S) /\ j \in 1..(Len(s) + 1) /\ u = SubSeq(s, j, Len(s))
    BY <1>1, <2>1
  <2>. HIDE DEF j, u
  <2>4. u = << >> => j = Len(s) + 1
    BY ONLY <2>3, NextCommand
  <2>5. j = Len(s) + 1 => u = << >>
    BY ONLY <2>3, NextCommand
  <2>. QED
    BY <2>1, <2>2, <2>4, <2>5 DEF u
<1>9. FramesPerTick <= 1 =>
        chip.inbox = << >> /\ Before.inbox = << >> /\ Before.buffer = chip.buffer
  BY <1>2 DEF IInv, Arrives, SpiLeaves
<1>. HIDE DEF cmd
<1>10. ASSUME ChipShape(After), After.inbox = Before.inbox,
              k > 0 => After.txLen = Len(f),
              k > 1 => After.irqMask = TxIrqFlags,
              k > 3 => "TxDone" \notin After.irq,
              IF k > 4 THEN After.mode = "tx" /\ After.hasPendingTx ELSE ~After.hasPendingTx,
              k # 5 => After.mode = "rx",
              FramesPerTick <= 1 /\ k > 2 => Prefix(After.buffer, After.txLen) = f,
              k > 4 => After.pendingTx = Prefix(After.buffer, After.txLen)
       PROVE  Stages'
  <2>1. /\ Alike(After, chip')
        /\ After.mode # "rx" \/ After.inbox = << >> => chip'.buffer = After.buffer
    BY <1>2, <1>10, TickEffect, Zenon
  <2>2. Sends(f, k + 1)'
    <3>1. Staged(StartTransmit(f), k + 1)'
      BY <1>6, <1>7 DEF Staged, s
    <3>2. FramesPerTick <= 1 /\ k > 2 =>
            /\ Prefix(chip'.buffer, chip'.txLen) = f
            /\ k > 4 => chip'.pendingTx = f
      BY <1>9, <1>10, <2>1 DEF Alike
    <3>3. /\ chip'.txLen = After.txLen /\ chip'.irqMask = After.irqMask
          /\ chip'.mode = After.mode /\ chip'.hasPendingTx = After.hasPendingTx
          /\ "TxDone" \in chip'.irq <=> "TxDone" \in After.irq
      BY <2>1 DEF Alike
    <3>. QED
      BY <1>6, <1>7, <1>10, <3>1, <3>2, <3>3 DEF Sends
  <2>3. hist'.sent # << >>
    BY <1>2, <1>3 DEF SpiLeaves
  <2>. QED
    BY <1>2, <1>6, <1>7, <2>2, <2>3 DEF Stages, SpiLeaves, f
<1>11. /\ k > 1 => Before.txLen = Len(f)
       /\ k > 2 => Before.irqMask = TxIrqFlags
       /\ k > 4 => "TxDone" \notin Before.irq
       /\ ~Before.hasPendingTx /\ Before.mode = "rx"
       /\ FramesPerTick <= 1 /\ k > 3 => Prefix(Before.buffer, Before.txLen) = f
  BY <1>2, <1>5, <1>9 DEF Sends, SpiLeaves, Alike
<1>12. CASE k = 1
  <2>1. cmd.op = "SetPacketParams" /\ cmd.arg = Len(f)
    BY <1>1, <1>7, <1>12
  <2>2. /\ ChipShape(After) /\ After.inbox = Before.inbox /\ After.mode = "rx"
        /\ After.txLen = Len(f) /\ ~After.hasPendingTx
    BY <1>2, <1>4, <1>11, <2>1, StageEffect DEF After, cmd
  <2>3. Stages'
    BY <1>10, <1>12, <2>2
  <2>. QED
    BY <1>4, <2>1, <2>3, StageKeeps DEF cmd
<1>13. CASE k = 2
  <2>1. cmd.op = "SetDioIrqParams" /\ cmd.arg[1] = TxIrqFlags
    BY <1>1, <1>7, <1>13
  <2>2. /\ ChipShape(After) /\ After.inbox = Before.inbox /\ After.mode = "rx"
        /\ After.txLen = IF cmd.op = "SetPacketParams" THEN cmd.arg ELSE Before.txLen
        /\ After.irqMask = TxIrqFlags /\ ~After.hasPendingTx
    BY <1>2, <1>11, <2>1, StageEffect DEF After, cmd
  <2>3. Stages'
    BY <1>10, <1>11, <1>13, <2>1, <2>2
  <2>. QED
    BY <2>1, <2>3, StageKeeps DEF cmd
<1>14. CASE k = 3
  <2>1. cmd.op = "WriteBuffer" /\ cmd.arg[1] = 0 /\ cmd.arg[2] = f
    BY <1>1, <1>7, <1>14
  <2>2. /\ ChipShape(After) /\ After.inbox = Before.inbox /\ After.mode = "rx"
        /\ After.txLen = IF cmd.op = "SetPacketParams" THEN cmd.arg ELSE Before.txLen
        /\ After.irqMask = IF cmd.op = "SetDioIrqParams" THEN cmd.arg[1] ELSE Before.irqMask
        /\ After.buffer = Store(Before.buffer, 0, f) /\ ~After.hasPendingTx
    BY <1>2, <1>4, <1>11, <2>1, StageEffect DEF After, cmd
  <2>3. Prefix(Store(Before.buffer, 0, f), Len(f)) = f
    BY <1>4, StagedPrefix
  <2>4. Stages'
    BY <1>10, <1>11, <1>14, <2>1, <2>2, <2>3
  <2>. QED
    BY <1>4, <2>1, <2>4, StageKeeps DEF cmd
<1>15. CASE k = 4
  <2>1. cmd.op = "ClearIrqStatus" /\ cmd.arg = Flags /\ cmd.op \in Harmless
    BY <1>1, <1>7, <1>15 DEF Harmless
  <2>2. /\ ChipShape(After) /\ After.inbox = Before.inbox /\ After.mode = "rx"
        /\ After.txLen = Before.txLen /\ After.irqMask = Before.irqMask
        /\ After.buffer = Before.buffer /\ ~After.hasPendingTx
        /\ After.irq = Before.irq \ Flags
    BY <1>2, <1>11, <2>1, HarmlessEffect DEF After, cmd
  <2>3. "TxDone" \notin After.irq
    BY <2>2 DEF Flags, LowByte
  <2>4. Stages'
    BY <1>10, <1>11, <1>15, <2>2, <2>3
  <2>. QED
    BY <2>1, <2>4, HarmlessKeeps DEF cmd
<1>16. CASE k = 5
  <2>1. cmd.op = "SetTx"
    BY <1>1, <1>7, <1>16
  <2>2. /\ ChipShape(After) /\ After.inbox = Before.inbox /\ After.mode = "tx"
        /\ After.txLen = Before.txLen /\ After.irqMask = Before.irqMask
        /\ After.buffer = Before.buffer /\ After.hasPendingTx
        /\ After.irq = Before.irq /\ After.pendingTx = Prefix(Before.buffer, Before.txLen)
    BY <1>2, <1>11, <2>1, SetTxEffect, Zenon DEF After, cmd
  <2>3. Stages'
    BY <1>10, <1>11, <1>16, <2>2
  <2>4. FramesPerTick <= 1 => After.pendingTx = f
    BY <1>11, <1>16, <2>2
  <2>. QED
    BY <1>2, <1>8, <1>16, <2>2, <2>3, <2>4, CommandKeeps DEF f
<1>. QED
  BY <1>7, <1>12, <1>13, <1>14, <1>15, <1>16

LEMMA SpiKeeps ==
  ASSUME IInv, Spi
  PROVE  IInv' /\ local' >= local
<1>1. fw.pc \in {"recv", "len", "lbt", "listen", "started", "sent"} /\ local' >= local
  BY SpiFacts DEF SpiLeaves
<1>. QED
  BY <1>1, FinishKeeps, LengthKeeps, FlagsKeeps, ReadKeeps, ReceiveKeeps, TransmitKeeps

-----------------------------------------------------------------------------
\* The firmware decides.

\* Every program at its start and at its end.
LEMMA Programs ==
  /\ SubSeq(FinishTransmit, 1, 2) = FinishTransmit
  /\ SubSeq(FinishTransmit, 3, Len(FinishTransmit)) = << >>
  /\ SubSeq(GetPacketLength, 1, 1) = GetPacketLength
  /\ SubSeq(GetIrqFlags, 1, 1) = GetIrqFlags
  /\ SubSeq(ReadData, 1, 4) = ReadData /\ SubSeq(ReadData, 5, Len(ReadData)) = << >>
  /\ SubSeq(StartReceive, 1, 5) = StartReceive
  /\ Len(FinishTransmit) = 2 /\ Len(GetPacketLength) = 1 /\ Len(GetIrqFlags) = 1
  /\ Len(ReadData) = 4 /\ Len(StartReceive) = 5
<1>. DEFINE A == {FinishTransmit[1], FinishTransmit[2]}
            B == {ReadData[1], ReadData[2], ReadData[3], ReadData[4]}
            C == {StartReceive[1], StartReceive[2], StartReceive[3], StartReceive[4],
                  StartReceive[5]}
<1>1. FinishTransmit \in Seq(A) /\ Len(FinishTransmit) = 2
  BY DEF FinishTransmit
<1>2. ReadData \in Seq(B) /\ Len(ReadData) = 4
  BY DEF ReadData
<1>3. StartReceive \in Seq(C) /\ Len(StartReceive) = 5
  BY DEF StartReceive
<1>4. GetPacketLength \in Seq({GetPacketLength[1]}) /\ Len(GetPacketLength) = 1
  BY DEF GetPacketLength
<1>5. GetIrqFlags \in Seq({GetIrqFlags[1]}) /\ Len(GetIrqFlags) = 1
  BY DEF GetIrqFlags
<1>. HIDE DEF A, B, C
<1>6. /\ SubSeq(FinishTransmit, 1, 2) = FinishTransmit
      /\ SubSeq(FinishTransmit, 3, Len(FinishTransmit)) = << >>
  BY <1>1, WholeSeq
<1>7. SubSeq(ReadData, 1, 4) = ReadData /\ SubSeq(ReadData, 5, Len(ReadData)) = << >>
  BY <1>2, WholeSeq
<1>8. SubSeq(StartReceive, 1, 5) = StartReceive
  BY <1>3, WholeSeq
<1>9. SubSeq(GetPacketLength, 1, 1) = GetPacketLength
  BY <1>4, WholeSeq
<1>10. SubSeq(GetIrqFlags, 1, 1) = GetIrqFlags
  BY <1>5, WholeSeq
<1>. QED
  BY <1>1, <1>2, <1>3, <1>4, <1>5, <1>6, <1>7, <1>8, <1>9, <1>10

\* What was to be sent to the chip has been sent.
LEMMA AllSent ==
  ASSUME fw.todo = << >>
  PROVE  /\ \A k \in 1..6 : Staged(StartReceive, k) => k = 6
         /\ \A f : \A k \in 1..6 : Staged(StartTransmit(f), k) => k = 6
<1>1. ASSUME NEW s, NEW S, s \in Seq(S), Len(s) = 5, NEW k \in 1..6, Staged(s, k)
      PROVE  k = 6
  <2>1. k \in 1..(Len(s) + 1) /\ fw.todo = SubSeq(s, k, Len(s))
    BY <1>1 DEF Staged
  <2>2. k = Len(s) + 1
    BY <1>1, <2>1, NextCommand
  <2>. QED
    BY <1>1, <2>2
<1>. DEFINE s == StartReceive
            t(f) == StartTransmit(f)
            S == {s[1], s[2], s[3], s[4], s[5]}
            T(f) == {t(f)[1], t(f)[2], t(f)[3], t(f)[4], t(f)[5]}
<1>2. s \in Seq(S) /\ Len(s) = 5
  BY DEF StartReceive
<1>3. \A f : t(f) \in Seq(T(f)) /\ Len(t(f)) = 5
  BY DEF StartTransmit
<1>. HIDE DEF S, T
<1>. QED
  BY <1>1, <1>2, <1>3

\* What a decision has to see to.
LEMMA DecisionKeeps ==
  ASSUME IInv, Loop, DOMAIN fw' = FwFields, fw'.ready \in BOOLEAN,
         fw'.state \in {"idle", "rx", "tx"},
         DOMAIN hist' = HistFields, hist'.sent \in Seq(OutFrames),
         States', Stages', Listens', Airs', GoesOut',
         ~GivesUp => /\ fw'.state = "tx" /\ fw'.ready => "TxDone" \in chip.irq
                     /\ fw'.state = "idle" => chip.mode # "tx"
  PROVE  IInv'
<1>1. UNCHANGED <<chip, local, bridge, aired, eng, toNode, toEngine>>
  BY DEF Loop, mainVars, engineVars
<1>2. Shapes'
  BY <1>1 DEF IInv, Shapes
<1>3. Turns'
  BY <1>1 DEF IInv, Turns, InStep
<1>4. OneAtATime'
  BY <1>1 DEF IInv, OneAtATime, OnAir
<1>5. Arrives'
  BY <1>1 DEF IInv, Arrives
<1>. QED
  BY <1>2, <1>3, <1>4, <1>5 DEF IInv

\* None but one of them sends.
LEMMA QuietKeeps ==
  ASSUME IInv, Loop, UNCHANGED hist, fw.pc # "sent", fw'.pc # "sent",
         fw.pc \in {"top", "recv", "len", "listen", "started", "choose", "lbt"},
         DOMAIN fw' = FwFields, fw'.ready \in BOOLEAN, fw'.state \in {"idle", "rx", "tx"},
         States', Stages',
         fw'.state = "rx" => chip.mode = "rx",
         fw'.state = "tx" => /\ fw.state = "tx" /\ "TxDone" \notin chip.irq
                             /\ fw'.ready = fw.ready,
         ~GivesUp /\ fw'.state = "idle" => chip.mode # "tx"
  PROVE  IInv'
<1>1. UNCHANGED <<chip, local, bridge, aired, eng, toNode, toEngine>> /\ bridge.pc = "loop"
  BY DEF Loop, mainVars, engineVars
<1>2. ~chip.hasPendingTx
  BY DEF IInv, Airs
<1>3. Listens'
  BY <1>1 DEF IInv, Listens
<1>4. Airs'
  BY <1>1, <1>2 DEF IInv, Airs, OnAir
<1>5. GoesOut'
  BY <1>1, <1>2 DEF IInv, GoesOut
<1>6. DOMAIN hist' = HistFields /\ hist'.sent \in Seq(OutFrames)
  BY DEF IInv, Shapes
<1>7. ~GivesUp => (fw'.state = "tx" /\ fw'.ready => "TxDone" \in chip.irq)
  BY DEF IInv, OneAtATime
<1>. QED
  BY <1>3, <1>4, <1>5, <1>6, <1>7, DecisionKeeps

\* The radio, seen from the firmware.
LEMMA Radio ==
  ASSUME IInv, Loop
  PROVE  /\ DOMAIN fw = FwFields /\ fw.ready \in BOOLEAN /\ fw.state \in {"idle", "rx", "tx"}
         /\ bridge'.pc = "loop"
         /\ fw.state = "rx" /\ fw.pc # "sent" => chip.mode = "rx"
         /\ ~GivesUp /\ fw.state = "idle" => chip.mode # "tx"
BY DEF IInv, Shapes, Loop, mainVars, Listens, OneAtATime

LEMMA NotSendingKeeps ==
  ASSUME IInv, Loop, NotSending
  PROVE  IInv'
<1>1. /\ fw.pc = "top" /\ fw.todo = << >> /\ fw.state # "tx"
      /\ fw' = [fw EXCEPT !.pc = "recv"] /\ hist' = hist
  BY DEF NotSending, At
<1>2. /\ DOMAIN fw' = FwFields /\ fw'.pc = "recv" /\ fw'.todo = fw.todo
      /\ fw'.state = fw.state /\ fw'.ready = fw.ready
  BY <1>1, Radio, Zenon DEF FwFields
<1>3. States'
  BY <1>1, <1>2, Radio DEF States
<1>4. Stages'
  <2>1. fw'.todo = SubSeq(FinishTransmit, 3, Len(FinishTransmit))
    BY <1>1, <1>2, Programs, Zenon
  <2>. QED
    BY <1>2, <2>1 DEF Stages, Staged
<1>. QED
  BY <1>1, <1>2, <1>3, <1>4, Radio, QuietKeeps

\* The wait ends with the chip at rest, unless the firmware has given up.
LEMMA SendOverKeeps ==
  ASSUME IInv, Loop, SendOver
  PROVE  IInv'
<1>1. /\ fw.pc = "top" /\ fw.todo = << >> /\ fw.state = "tx" /\ (fw.ready \/ GivesUp)
      /\ fw' = [fw EXCEPT !.pc = "recv", !.todo = FinishTransmit,
                          !.state = "idle", !.ready = FALSE, !.rest = TRUE]
      /\ hist' = hist
  BY DEF SendOver, At
<1>2. /\ DOMAIN fw' = FwFields /\ fw'.pc = "recv" /\ fw'.todo = FinishTransmit
      /\ fw'.state = "idle" /\ fw'.ready = FALSE
  BY <1>1, Radio, Zenon DEF FwFields
<1>3. States'
  BY <1>2, Radio DEF States
<1>4. Stages'
  BY <1>2, Programs DEF Stages, Staged
<1>5. ~GivesUp => chip.mode # "tx"
  BY <1>1 DEF IInv, Listens, OneAtATime
<1>. QED
  BY <1>1, <1>2, <1>3, <1>4, <1>5, QuietKeeps

LEMMA StillSendingKeeps ==
  ASSUME IInv, Loop, StillSending
  PROVE  IInv'
<1>1. /\ fw.pc = "top" /\ fw.todo = << >> /\ fw.state = "tx" /\ ~fw.ready
      /\ fw' = [fw EXCEPT !.pc = "drain"] /\ hist' = hist
  BY DEF StillSending, At
<1>2. /\ DOMAIN fw' = FwFields /\ fw'.pc = "drain" /\ fw'.todo = fw.todo
      /\ fw'.state = fw.state /\ fw'.ready = fw.ready
  BY <1>1, Radio, Zenon DEF FwFields
<1>3. States'
  BY <1>1, <1>2, Radio DEF States
<1>4. Stages'
  BY <1>1, <1>2 DEF Stages
<1>5. "TxDone" \notin chip.irq
  BY <1>1, Radio DEF IInv, Listens, Loop
<1>. QED
  BY <1>1, <1>2, <1>3, <1>4, <1>5, Radio, QuietKeeps

LEMMA CollectKeeps ==
  ASSUME IInv, Loop, Collect \/ NothingToCollect
  PROVE  IInv'
<1>1. /\ fw.pc = "recv" /\ fw.todo = << >> /\ hist' = hist
      /\ IF fw.ready THEN fw' = [fw EXCEPT !.pc = "len", !.todo = GetPacketLength]
         ELSE fw' = [fw EXCEPT !.pc = "listen"]
  BY DEF Collect, NothingToCollect, At
<1>2. /\ DOMAIN fw' = FwFields /\ fw'.state = fw.state /\ fw'.ready = fw.ready
      /\ IF fw.ready THEN fw'.pc = "len" /\ fw'.todo = GetPacketLength
         ELSE fw'.pc = "listen" /\ fw'.todo = << >>
  BY <1>1, Radio, Zenon DEF FwFields
<1>3. fw.state # "tx"
  BY <1>1 DEF IInv, States
<1>4. States'
  BY <1>2, <1>3, Radio DEF States
<1>5. Stages'
  <2>1. CASE fw.ready
    BY <1>2, <2>1, Programs DEF Stages, Staged
  <2>2. CASE ~fw.ready
    <3>1. fw'.todo = SubSeq(ReadData, 5, Len(ReadData))
      BY <1>2, <2>2, Programs, Zenon
    <3>. QED
      BY <1>2, <2>2, <3>1 DEF Stages, Staged
  <2>. QED
    BY <2>1, <2>2
<1>. QED
  BY <1>1, <1>2, <1>3, <1>4, <1>5, Radio, QuietKeeps

LEMMA ReadPacketKeeps ==
  ASSUME IInv, Loop, ReadPacket
  PROVE  IInv'
<1>. DEFINE todo == IF fw.len > 0 THEN ReadData ELSE << >>
<1>1. /\ fw.pc = "len" /\ fw.todo = << >> /\ hist' = hist
      /\ fw' = [fw EXCEPT !.pc = "listen", !.state = "idle", !.ready = FALSE, !.todo = todo]
  BY DEF ReadPacket, At
<1>2. todo = ReadData \/ todo = << >>
  OBVIOUS
<1>. HIDE DEF todo
<1>3. /\ DOMAIN fw' = FwFields /\ fw'.pc = "listen" /\ fw'.todo = todo
      /\ fw'.state = "idle" /\ fw'.ready = FALSE
  BY <1>1, Radio, Zenon DEF FwFields
<1>4. States'
  BY <1>3, Radio DEF States
<1>5. Stages'
  <2>1. \E k \in 1..5 : fw'.todo = SubSeq(ReadData, k, Len(ReadData))
    <3>1. todo = SubSeq(ReadData, 1, Len(ReadData)) \/ todo = SubSeq(ReadData, 5, Len(ReadData))
      BY <1>2, Programs
    <3>. QED
      BY <1>3, <3>1
  <2>. QED
    BY <1>3, <2>1 DEF Stages, Staged
<1>6. ~GivesUp => chip.mode # "tx"
  BY <1>1, Radio DEF IInv, States
<1>. QED
  BY <1>1, <1>3, <1>4, <1>5, <1>6, QuietKeeps

LEMMA ListenKeeps ==
  ASSUME IInv, Loop, Listen
  PROVE  IInv'
<1>1. /\ fw.pc = "listen" /\ fw.todo = << >> /\ hist' = hist
      /\ fw' = IF fw.state = "rx" /\ ~fw.ready
                THEN [fw EXCEPT !.pc = "choose"]
                ELSE [fw EXCEPT !.pc = "started", !.todo = StartReceive]
  BY DEF Listen, At
<1>2. /\ DOMAIN fw' = FwFields /\ fw'.state = fw.state /\ fw'.ready = fw.ready
      /\ IF fw.state = "rx" /\ ~fw.ready THEN fw'.pc = "choose" /\ fw'.todo = << >>
         ELSE fw'.pc = "started" /\ fw'.todo = StartReceive
  BY <1>1, Radio, Zenon DEF FwFields
<1>3. fw.state # "tx" /\ ~fw.ready
  BY <1>1 DEF IInv, States
<1>4. States'
  BY <1>2, <1>3, Radio DEF States
<1>5. Stages'
  BY <1>2, Programs DEF Stages, Staged
<1>. QED
  BY <1>1, <1>2, <1>3, <1>4, <1>5, Radio, QuietKeeps

LEMMA StartedKeeps ==
  ASSUME IInv, Loop, Started
  PROVE  IInv'
<1>1. /\ fw.pc = "started" /\ fw.todo = << >> /\ hist' = hist
      /\ fw' = [fw EXCEPT !.pc = "choose", !.state = "rx", !.ready = FALSE]
  BY DEF Started, At
<1>2. /\ DOMAIN fw' = FwFields /\ fw'.pc = "choose" /\ fw'.todo = fw.todo
      /\ fw'.state = "rx" /\ fw'.ready = FALSE
  BY <1>1, Radio, Zenon DEF FwFields
<1>3. chip.mode = "rx"
  <2>1. PICK k \in 1..6 : Staged(StartReceive, k) /\ (k > 5 => chip.mode = "rx")
    BY <1>1 DEF IInv, Stages
  <2>. QED
    BY <1>1, <2>1, AllSent
<1>4. States'
  BY <1>2, Radio DEF States
<1>5. Stages'
  BY <1>1, <1>2 DEF Stages
<1>. QED
  BY <1>1, <1>2, <1>3, <1>4, <1>5, QuietKeeps

LEMMA NothingToSendKeeps ==
  ASSUME IInv, Loop, NothingToSend \/ (Decide /\ fw.seen # {})
  PROVE  IInv'
<1>1. /\ fw.pc \in {"choose", "lbt"} /\ fw.todo = << >> /\ hist' = hist
      /\ fw' = [fw EXCEPT !.pc = "drain"] \/ fw' = [fw EXCEPT !.pc = "drain", !.rest = FALSE]
  BY DEF NothingToSend, Decide, At
<1>2. /\ DOMAIN fw' = FwFields /\ fw'.pc = "drain" /\ fw'.todo = fw.todo
      /\ fw'.state = fw.state /\ fw'.ready = fw.ready
  BY <1>1, Radio, Zenon DEF FwFields
<1>3. fw.state = "rx"
  BY <1>1 DEF IInv, States
<1>4. States'
  BY <1>2, <1>3, Radio DEF States
<1>5. Stages'
  BY <1>1, <1>2 DEF Stages
<1>. QED
  BY <1>1, <1>2, <1>3, <1>4, <1>5, Radio, QuietKeeps

LEMMA ListenFirstKeeps ==
  ASSUME IInv, Loop, ListenFirst
  PROVE  IInv'
<1>1. /\ fw.pc = "choose" /\ fw.todo = << >> /\ hist' = hist
      /\ fw' = [fw EXCEPT !.pc = "lbt", !.todo = GetIrqFlags]
  BY DEF ListenFirst, At
<1>2. /\ DOMAIN fw' = FwFields /\ fw'.pc = "lbt" /\ fw'.todo = GetIrqFlags
      /\ fw'.state = fw.state /\ fw'.ready = fw.ready
  BY <1>1, Radio, Zenon DEF FwFields
<1>3. fw.state = "rx"
  BY <1>1 DEF IInv, States
<1>4. States'
  BY <1>2, <1>3, Radio DEF States
<1>5. Stages'
  BY <1>2, Programs DEF Stages, Staged
<1>. QED
  BY <1>1, <1>2, <1>3, <1>4, <1>5, Radio, QuietKeeps

\* The decision to send; the chip still listens.
LEMMA DecideKeeps ==
  ASSUME IInv, Loop, Decide, fw.seen = {}
  PROVE  IInv'
<1>1. PICK f \in OutFrames :
        /\ fw' = [fw EXCEPT !.pc = "sent", !.todo = StartTransmit(f)]
        /\ hist' = [hist EXCEPT !.sent = Append(@, f)]
  BY DEF Decide
<1>2. fw.pc = "lbt" /\ fw.todo = << >>
  BY DEF Decide, At
<1>3. /\ DOMAIN fw' = FwFields /\ fw'.pc = "sent" /\ fw'.todo = StartTransmit(f)
      /\ fw'.state = fw.state /\ fw'.ready = fw.ready
  BY <1>1, Radio, Zenon DEF FwFields
<1>4. DOMAIN hist = HistFields /\ hist.sent \in Seq(OutFrames)
  BY DEF IInv, Shapes
<1>5. DOMAIN hist' = HistFields /\ hist'.sent = Append(hist.sent, f)
  BY <1>1, <1>4, Zenon DEF HistFields
<1>. DEFINE s == hist.sent
            u == Append(s, f)
            n == Len(s)
<1>6. /\ n \in Nat /\ u \in Seq(OutFrames) /\ Len(u) = n + 1 /\ Last(u) = f
      /\ u # << >> /\ SubSeq(u, 1, Len(u) - 1) = s
  <2>1. s \in Seq(OutFrames) /\ n \in Nat /\ u \in Seq(OutFrames) /\ Len(u) = n + 1
        /\ u[n + 1] = f /\ \A i \in 1..n : u[i] = s[i] /\ s[i] \in OutFrames
    BY <1>4
  <2>2. (n + 1) - 1 = n /\ n + 1 # 0
    BY <2>1
  <2>3. SubSeq(u, 1, n) = s
    BY <1>4
  <2>4. u # << >>
    BY <2>1, <2>2, EmptySeq
  <2>. QED
    BY <2>1, <2>2, <2>3, <2>4 DEF Last
<1>7. /\ fw.state = "rx" /\ chip.mode = "rx" /\ ~chip.hasPendingTx /\ aired' = aired
      /\ chip' = chip /\ bridge' = bridge /\ bridge.pc = "loop"
      /\ UNCHANGED <<eng, toNode, toEngine>>
  BY <1>2 DEF IInv, States, Listens, Airs, Loop, mainVars, engineVars
<1>8. States'
  BY <1>3, <1>7 DEF States
<1>9. Len(StartTransmit(f)) = 5 /\ StartTransmit(f) # << >>
      /\ SubSeq(StartTransmit(f), 1, 5) = StartTransmit(f)
  <2>. DEFINE p == StartTransmit(f)
              S == {p[1], p[2], p[3], p[4], p[5]}
  <2>1. p \in Seq(S) /\ Len(p) = 5
    BY DEF StartTransmit
  <2>. HIDE DEF p, S
  <2>. QED
    BY <2>1, WholeSeq, EmptySeq DEF p
<1>10. Stages'
  <2>1. Last(hist'.sent) = f /\ hist'.sent # << >>
    BY <1>5, <1>6
  <2>2. Sends(f, 1)'
    BY <1>3, <1>7, <1>9 DEF Sends, Staged
  <2>3. Sends(Last(hist.sent), 1)' /\ 1 \in 1..6
    BY <2>1, <2>2 DEF Sends, Staged
  <2>. QED
    BY <1>3, <2>1, <2>3 DEF Stages
<1>11. Listens'
  BY <1>3, <1>7 DEF Listens
<1>12. Airs'
  BY <1>7 DEF IInv, Airs, OnAir
<1>13. GoesOut'
  <2>1. FramesPerTick <= 1 => aired = hist.sent
    BY <1>2, <1>7 DEF IInv, GoesOut
  <2>. QED
    BY <1>3, <1>5, <1>6, <1>7, <2>1 DEF GoesOut
<1>. QED
  BY <1>3, <1>5, <1>6, <1>7, <1>8, <1>10, <1>11, <1>12, <1>13, Radio, DecisionKeeps

\* The chip has taken it.
LEMMA SentKeeps ==
  ASSUME IInv, Loop, Sent
  PROVE  IInv'
<1>1. /\ fw.pc = "sent" /\ fw.todo = << >> /\ hist' = hist
      /\ fw' = [fw EXCEPT !.pc = "drain", !.state = "tx", !.ready = FALSE]
  BY DEF Sent, At
<1>2. /\ DOMAIN fw' = FwFields /\ fw'.pc = "drain" /\ fw'.todo = fw.todo
      /\ fw'.state = "tx" /\ fw'.ready = FALSE
  BY <1>1, Radio, Zenon DEF FwFields
<1>3. /\ hist.sent # << >> /\ chip.mode = "tx" /\ chip.hasPendingTx
      /\ chip.irqMask = TxIrqFlags /\ "TxDone" \notin chip.irq
  <2>1. PICK k \in 1..6 : Sends(Last(hist.sent), k)
    BY <1>1 DEF IInv, Stages
  <2>2. k = 6
    BY <1>1, <2>1, AllSent DEF Sends
  <2>. QED
    BY <1>1, <2>1, <2>2 DEF IInv, Stages, Sends
<1>4. chip' = chip /\ bridge' = bridge /\ aired' = aired /\ UNCHANGED <<eng, toNode, toEngine>>
  BY DEF Loop, mainVars, engineVars
<1>5. States'
  BY <1>2 DEF States
<1>6. Stages'
  BY <1>1, <1>2 DEF Stages
<1>7. Listens'
  BY <1>2, <1>3, <1>4 DEF Listens
<1>8. Airs'
  BY <1>2, <1>3, <1>4, Radio DEF Airs
<1>9. GoesOut'
  BY <1>1, <1>3, <1>4 DEF IInv, GoesOut
<1>10. DOMAIN hist' = HistFields /\ hist'.sent \in Seq(OutFrames)
  BY <1>1 DEF IInv, Shapes
<1>. QED
  BY <1>2, <1>5, <1>6, <1>7, <1>8, <1>9, <1>10, DecisionKeeps

LEMMA LoopKeeps ==
  ASSUME IInv, Loop
  PROVE  IInv'
<1>. USE DEF Loop, Dispatcher
<1>1. CASE NotSending
  BY <1>1, NotSendingKeeps
<1>2. CASE SendOver
  BY <1>2, SendOverKeeps
<1>3. CASE StillSending
  BY <1>3, StillSendingKeeps
<1>4. CASE Collect \/ NothingToCollect
  BY <1>4, CollectKeeps
<1>5. CASE ReadPacket
  BY <1>5, ReadPacketKeeps
<1>6. CASE Listen
  BY <1>6, ListenKeeps
<1>7. CASE Started
  BY <1>7, StartedKeeps
<1>8. CASE NothingToSend
  BY <1>8, NothingToSendKeeps
<1>9. CASE ListenFirst
  BY <1>9, ListenFirstKeeps
<1>10. CASE Decide
  BY <1>10, NothingToSendKeeps, DecideKeeps
<1>11. CASE Sent
  BY <1>11, SentKeeps
<1>. QED
  BY <1>1, <1>2, <1>3, <1>4, <1>5, <1>6, <1>7, <1>8, <1>9, <1>10, <1>11

-----------------------------------------------------------------------------
\* A node that has just booted, and every step from there.

LEMMA BootedChip ==
  ASSUME NEW m
  PROVE  LET c == PowerOn(m)
         IN /\ ChipShape(c) /\ c.now = 0 /\ c.mode = "standby" /\ c.irq = {}
            /\ c.inbox = << >> /\ ~c.hasPendingTx
<1>1. << >> \in Payloads /\ << >> \in Seq(Seq(Bytes)) /\ 0 \in 0..MaxPayload /\ 0 \in Nat
  <2>1. 0 \in 0..MaxPayload
    BY BufLenAssumption DEF MaxPayload
  <2>2. << >> \in [1..0 -> Bytes]
    OBVIOUS
  <2>. QED
    BY <2>1, <2>2 DEF Payloads
<1>. DEFINE mem == [i \in Cells |-> 0]
<1>2. mem \in [Cells -> Bytes] /\ FALSE \in BOOLEAN
  BY BytesAssumption
<1>. HIDE DEF mem
<1>3. PowerOn(m) =
        [mode |-> "standby", irq |-> {}, irqMask |-> {},
         buffer |-> mem, rxLen |-> 0, txLen |-> 0,
         hasPendingTx |-> FALSE, pendingTx |-> << >>, inbox |-> << >>,
         modem |-> m, rxGain |-> "saving", fem |-> FALSE, femAtTx |-> "never",
         now |-> 0, channelBusy |-> FALSE, busySince |-> 0,
         preambleRaised |-> FALSE, headerRaised |-> FALSE,
         irqReads |-> 0, busyReads |-> 0, busyMs |-> 0,
         nextSpurious |-> 0, spuriousRaises |-> 0]
  BY DEF PowerOn, mem
<1>. QED
  BY ONLY <1>1, <1>2, <1>3 DEF ChipShape, Fields

LEMMA InitIInv == Init => IInv
<1>. SUFFICES ASSUME Init
              PROVE  IInv
  OBVIOUS
<1>1. /\ eng = [waiting |-> FALSE, acked |-> 0, waves |-> 0, given |-> 0,
                told |-> FALSE, busy |-> FALSE, fed |-> << >>]
      /\ toNode = << >> /\ toEngine = << >> /\ local = 0 /\ aired = << >>
      /\ bridge = [pc |-> "read", sim |-> 0, rtc |-> 0, at |-> 0, last |-> FALSE]
      /\ fw = [pc |-> "drain", todo |-> << >>, state |-> "idle", ready |-> FALSE,
               len |-> 0, seen |-> {}, rest |-> TRUE]
      /\ hist = [sent |-> << >>, heard |-> << >>, fresh |-> << >>, up |-> {}]
  BY DEF Init, EngineInit, MeshCoreInit
<1>2. /\ ChipShape(chip) /\ chip.now = 0 /\ chip.mode = "standby" /\ chip.irq = {}
      /\ chip.inbox = << >> /\ ~chip.hasPendingTx
  BY BootedChip, Zenon DEF Init
<1>3. /\ ~Holds(toNode, "Tick") /\ ~Holds(toNode, "Frame") /\ ~Holds(toNode, "TxDone")
      /\ ~Holds(toEngine, "Frame") /\ ~Holds(toEngine, "Ack")
      /\ Only(toNode, "Frame") /\ Only(toNode, "TxDone") /\ Only(toEngine, "Frame")
      /\ Len(toNode) = 0 /\ Len(toEngine) = 0
  BY <1>1 DEF Holds, Only
<1>4. Shapes
  BY <1>1, <1>2 DEF Shapes, EngineFields, FwFields, HistFields
<1>5. Turns
  BY <1>1, <1>2, <1>3, NodeAssumption DEF Turns, InStep
<1>6. States /\ Stages /\ Listens
  BY <1>1, <1>2 DEF States, Stages, Listens
<1>7. Airs
  BY <1>2 DEF Airs
<1>8. OneAtATime
  BY <1>1, <1>2, <1>3 DEF OneAtATime, OnAir
<1>9. Arrives
  BY <1>1, <1>2, <1>3 DEF Arrives
<1>10. GoesOut
  BY <1>1, <1>2 DEF GoesOut
<1>. QED
  BY <1>4, <1>5, <1>6, <1>7, <1>8, <1>9, <1>10 DEF IInv

LEMMA IInvStep ==
  ASSUME IInv, [Next]_vars
  PROVE  IInv' /\ local' >= local
<1>0. local \in Nat
  BY DEF IInv, Shapes
<1>1. CASE EngineTurn
  BY <1>0, <1>1, GiveFrameKeeps, TellTxDoneKeeps, TellChannelKeeps, TellOddKeeps,
     SendTickKeeps, HearNodeKeeps DEF EngineTurn, EngineStep, mainVars
<1>2. CASE ReadFrame \/ ReadTxDone \/ ReadChannel \/ ReadOriginate \/ ReadUnknown \/ ReadTick
  <2>1. IInv'
    BY <1>2, ReadFrameKeeps, ReadTxDoneKeeps, ReadChannelKeeps, ReadOriginateKeeps,
       ReadUnknownKeeps, ReadTickKeeps
  <2>2. local' = local
    BY <1>2 DEF ReadFrame, ReadTxDone, ReadChannel, ReadOriginate, ReadUnknown, ReadTick, Take
  <2>. QED
    BY <1>0, <2>1, <2>2
<1>3. CASE BeginMs
  BY <1>3, BeginMsKeeps
<1>4. CASE EndLoop
  BY <1>0, <1>4, EndLoopKeeps DEF EndLoop, EndLoopWith
<1>5. CASE Spi
  BY <1>5, SpiKeeps
<1>6. CASE Loop
  BY <1>0, <1>6, LoopKeeps DEF Loop, mainVars
<1>7. CASE UNCHANGED vars
  <2>. USE <1>7 DEF vars, mainVars, engineVars
  <2>1. Shapes' /\ Turns'
    BY DEF IInv, Shapes, Turns, InStep
  <2>2. Airs' /\ OneAtATime' /\ Arrives'
    BY DEF IInv, Airs, OneAtATime, Arrives, OnAir
  <2>. QED
    BY <1>0, <2>1, <2>2, EngineLeaves DEF IInv
<1>. QED
  BY <1>1, <1>2, <1>3, <1>4, <1>5, <1>6, <1>7 DEF Next, Node, Finished

LEMMA Invariance == Spec => []IInv
<1>1. IInv /\ [Next]_vars => IInv'
  BY IInvStep
<1>. QED
  BY InitIInv, <1>1, PTL DEF Spec

-----------------------------------------------------------------------------
\* What follows.

\* An acknowledgement never leaves the node before its three clocks are where it says.
THEOREM ClocksAgree == Spec => []AckIsCaughtUp
<1>1. IInv => AckIsCaughtUp
  BY DEF IInv, Turns, AckIsCaughtUp
<1>. QED
  BY Invariance, <1>1, PTL

\* SimHal's clock and the chip's never run backwards, whatever an SPI transaction takes.
THEOREM TimeGoesOn == Spec => ClocksForward
<1>1. IInv /\ IInv' /\ [Next]_vars => [local' >= local /\ chip'.now >= chip.now]_<<local, chip>>
  <2>. SUFFICES ASSUME IInv, IInv', [Next]_vars
                PROVE  local' >= local /\ chip'.now >= chip.now
    OBVIOUS
  <2>1. local' >= local
    BY IInvStep
  <2>2. chip.now = local /\ chip'.now = local'
    BY DEF IInv, Turns
  <2>. QED
    BY <2>1, <2>2
<1>. QED
  BY Invariance, <1>1, PTL DEF Spec, ClocksForward

\* loop() is never left with a finished transmission the driver still waits for.
THEOREM NothingMissed == Spec => DoneIsSeen
<1>1. IInv /\ [Next]_vars =>
        [bridge.pc = "loop" /\ bridge'.pc # "loop" => ~(Sending /\ "TxDone" \in chip.irq)]_vars
  <2>. SUFFICES ASSUME IInv, Next, bridge.pc = "loop", bridge'.pc # "loop"
                PROVE  ~(Sending /\ "TxDone" \in chip.irq)
    OBVIOUS
  <2>1. EndLoop
    BY DEF Next, EngineTurn, Node, Finished, vars, mainVars, ReadFrame, ReadTxDone, ReadChannel,
           ReadOriginate, ReadUnknown, ReadTick, Take, BeginMs, Spi, Loop
  <2>2. fw.pc = "drain"
    BY <2>1 DEF EndLoop, EndLoopWith
  <2>. QED
    BY <2>2 DEF IInv, Listens, Sending
<1>. QED
  BY Invariance, <1>1, PTL DEF Spec, DoneIsSeen

\* Between passes the driver is right about the chip, and a chip that transmits has a
\* frame or a waveform on its way.
THEOREM DriverIsRight == Spec => []DriverMatchesChip
<1>1. IInv => DriverMatchesChip
  <2>. SUFFICES ASSUME IInv, Between
                PROVE  /\ fw.state = "tx" => chip.mode = "tx" \/ "TxDone" \in chip.irq
                       /\ fw.state = "rx" => chip.mode = "rx"
                       /\ chip.mode = "tx" => OnAir
    BY DEF DriverMatchesChip, OnAir
  <2>1. fw.pc = "drain" /\ ~chip.hasPendingTx
    BY DEF IInv, States, Airs, Between
  <2>. QED
    BY <2>1 DEF IInv, Listens, Airs
<1>. QED
  BY Invariance, <1>1, PTL

\* If the engine delivers one frame before a tick at most, everything sent has gone out,
\* whole, once and in order, by the end of the pass that sent it.
THEOREM EverythingGoesOut ==
  ASSUME FramesPerTick <= 1
  PROVE  Spec => []SentGoesOut
<1>1. IInv => SentGoesOut
  <2>. SUFFICES ASSUME IInv, Between
                PROVE  hist.sent = aired
    BY DEF SentGoesOut
  <2>1. fw.pc = "drain" /\ ~chip.hasPendingTx
    BY DEF IInv, States, Airs, Between
  <2>. QED
    BY <2>1 DEF IInv, GoesOut
<1>. QED
  BY Invariance, <1>1, PTL

\* A firmware that waits for the end of its transmissions never has two on the air.
THEOREM OneWaveform ==
  ASSUME ~GivesUp
  PROVE  Spec => []NoTalkOver
<1>1. IInv => NoTalkOver
  BY DEF IInv, OneAtATime, NoTalkOver
<1>. QED
  BY Invariance, <1>1, PTL

-----------------------------------------------------------------------------
\* The frames in a socket.

\* What FramesIn() gathers.
Carries(s) == [i \in 1..Len(s) |-> FrameOf(s[i])]

LEMMA CarriesFrames ==
  ASSUME NEW s \in Seq(ToNode)
  PROVE  /\ Carries(s) \in Seq(Seq(Seq(Bytes))) /\ Len(Carries(s)) = Len(s)
         /\ \A i \in 1..Len(s) : Carries(s)[i] = FrameOf(s[i])
         /\ FramesIn(s) = Seqs!FlattenSeq(Carries(s))
         /\ FramesIn(s) \in Seq(Seq(Bytes))
<1>1. \A m \in ToNode : FrameOf(m) \in Seq(Seq(Bytes))
  <2>. SUFFICES ASSUME NEW m \in ToNode
                PROVE  FrameOf(m) \in Seq(Seq(Bytes))
    OBVIOUS
  <2>1. IsFrame(m) => m.frame \in Seq(Bytes)
    BY DEF ToNode, IsFrame
  <2>2. \A f \in Seq(Bytes) : << f >> \in Seq(Seq(Bytes))
    OBVIOUS
  <2>. QED
    BY <2>1, <2>2 DEF FrameOf
<1>2. /\ Carries(s) \in Seq(Seq(Seq(Bytes))) /\ Len(Carries(s)) = Len(s)
      /\ \A i \in 1..Len(s) : Carries(s)[i] = FrameOf(s[i])
  <2>1. \A i \in 1..Len(s) : s[i] \in ToNode
    OBVIOUS
  <2>. DEFINE B == Seq(Seq(Bytes))
              n == Len(s)
  <2>2. n \in Nat /\ \A i \in 1..n : FrameOf(s[i]) \in B
    BY <1>1, <2>1
  <2>. HIDE DEF B, n
  <2>3. /\ [i \in 1..n |-> FrameOf(s[i])] \in Seq(B)
        /\ Len([i \in 1..n |-> FrameOf(s[i])]) = n
    BY <2>2
  <2>. QED
    BY <2>3 DEF Carries, B, n
<1>3. FramesIn(s) = Seqs!FlattenSeq(Carries(s))
  BY DEF FramesIn, Gathered, Carries
<1>. QED
  BY <1>2, <1>3, FlatType

LEMMA FramesInNone == FramesIn(<< >>) = << >>
<1>1. << >> \in Seq(ToNode)
  OBVIOUS
<1>2. Carries(<< >>) = << >>
  BY DEF Carries
<1>. QED
  BY <1>1, <1>2, CarriesFrames, FlatEmpty

\* A message more; the first one taken.
LEMMA FramesInTold ==
  ASSUME NEW s \in Seq(ToNode), NEW m \in ToNode
  PROVE  FramesIn(Append(s, m)) = FramesIn(s) \o FrameOf(m)
<1>. DEFINE t == Append(s, m)
            B == Seq(Seq(Bytes))
<1>1. /\ t \in Seq(ToNode) /\ Len(t) = Len(s) + 1 /\ Len(s) \in Nat /\ t[Len(s) + 1] = m
      /\ \A i \in 1..Len(s) : t[i] = s[i]
  OBVIOUS
<1>. HIDE DEF t
<1>2. /\ Carries(s) \in Seq(B) /\ Len(Carries(s)) = Len(s)
      /\ \A i \in 1..Len(s) : Carries(s)[i] = FrameOf(s[i])
      /\ Carries(t) \in Seq(B) /\ Len(Carries(t)) = Len(s) + 1
      /\ \A i \in 1..(Len(s) + 1) : Carries(t)[i] = FrameOf(t[i])
  BY <1>1, CarriesFrames
<1>. HIDE DEF B
<1>3. FrameOf(m) \in B
  <2>1. Carries(t)[Len(s) + 1] \in B
    BY <1>1, <1>2
  <2>. QED
    BY <1>1, <1>2, <2>1
<1>4. Carries(t) = Append(Carries(s), FrameOf(m))
  <2>. DEFINE u == Append(Carries(s), FrameOf(m))
  <2>1. /\ u \in Seq(B) /\ Len(u) = Len(s) + 1 /\ u[Len(s) + 1] = FrameOf(m)
        /\ \A i \in 1..Len(s) : u[i] = Carries(s)[i]
    BY <1>2, <1>3
  <2>. HIDE DEF u
  <2>2. \A i \in 1..(Len(s) + 1) : u[i] = Carries(t)[i]
    BY <1>1, <1>2, <2>1
  <2>3. u = Carries(t)
    BY <1>2, <2>1, <2>2
  <2>. QED
    BY <2>3 DEF u
<1>5. Seqs!FlattenSeq(Append(Carries(s), FrameOf(m))) = Seqs!FlattenSeq(Carries(s)) \o FrameOf(m)
  BY <1>2, <1>3, FlatAppend DEF B
<1>6. FramesIn(s) = Seqs!FlattenSeq(Carries(s)) /\ FramesIn(t) = Seqs!FlattenSeq(Carries(t))
  BY <1>1, CarriesFrames
<1>. QED
  BY <1>4, <1>5, <1>6, Zenon DEF t

LEMMA FramesInTaken ==
  ASSUME NEW s \in Seq(ToNode), s # << >>
  PROVE  FramesIn(s) = FrameOf(Head(s)) \o FramesIn(Tail(s))
<1>. DEFINE h == Head(s)
            t == Tail(s)
            B == Seq(Seq(Bytes))
            n == Len(t)
<1>1. /\ h \in ToNode /\ h = s[1] /\ t \in Seq(ToNode) /\ n \in Nat /\ Len(s) = n + 1
      /\ \A i \in 1..n : t[i] = s[i + 1]
  OBVIOUS
<1>. HIDE DEF h, t, n
<1>2. /\ Carries(t) \in Seq(B) /\ Len(Carries(t)) = n
      /\ \A i \in 1..n : Carries(t)[i] = FrameOf(t[i])
      /\ Carries(s) \in Seq(B) /\ Len(Carries(s)) = n + 1
      /\ \A i \in 1..(n + 1) : Carries(s)[i] = FrameOf(s[i])
  BY <1>1, CarriesFrames DEF n
<1>. HIDE DEF B
<1>3. FrameOf(h) \in B
  <2>1. Carries(s)[1] \in B /\ Carries(s)[1] = FrameOf(s[1])
    BY <1>1, <1>2
  <2>. QED
    BY <1>1, <2>1
<1>4. Carries(s) = << FrameOf(h) >> \o Carries(t)
  <2>. DEFINE u == << FrameOf(h) >> \o Carries(t)
  <2>1. /\ u \in Seq(B) /\ Len(u) = n + 1 /\ u[1] = FrameOf(h)
        /\ \A i \in 1..n : u[i + 1] = Carries(t)[i]
    BY <1>1, <1>2, <1>3
  <2>. HIDE DEF u
  <2>2. ASSUME NEW i \in 1..(n + 1)
        PROVE  u[i] = Carries(s)[i]
    <3>1. CASE i = 1
      BY <1>1, <1>2, <2>1, <3>1
    <3>2. CASE i # 1
      <4>1. i - 1 \in 1..n /\ (i - 1) + 1 = i
        BY <1>1, <3>2
      <4>2. u[i] = FrameOf(t[i - 1]) /\ t[i - 1] = s[i]
        BY <1>1, <1>2, <2>1, <4>1
      <4>. QED
        BY <1>2, <4>2
    <3>. QED
      BY <3>1, <3>2
  <2>3. u = Carries(s)
    BY <1>2, <2>1, <2>2
  <2>. QED
    BY <2>3 DEF u
<1>5. << FrameOf(h) >> \in Seq(B) /\ << FrameOf(h) >> = Append(<< >>, FrameOf(h)) /\ << >> \in Seq(B)
  BY <1>3
<1>6. Seqs!FlattenSeq(<< FrameOf(h) >>) = FrameOf(h)
  <2>1. Seqs!FlattenSeq(<< FrameOf(h) >>) = Seqs!FlattenSeq(<< >>) \o FrameOf(h)
    BY <1>3, <1>5, FlatAppend, Zenon DEF B
  <2>2. << >> \o FrameOf(h) = FrameOf(h)
    BY <1>3 DEF B
  <2>. QED
    BY <2>1, <2>2, FlatEmpty
<1>7. Seqs!FlattenSeq(<< FrameOf(h) >> \o Carries(t)) = FrameOf(h) \o Seqs!FlattenSeq(Carries(t))
  BY <1>2, <1>5, <1>6, FlatJoin DEF B
<1>8. FramesIn(s) = Seqs!FlattenSeq(Carries(s)) /\ FramesIn(t) = Seqs!FlattenSeq(Carries(t))
  BY <1>1, CarriesFrames
<1>. QED
  BY <1>4, <1>7, <1>8, Zenon DEF h, t

-----------------------------------------------------------------------------
\* The way of a frame from the engine to the firmware.

\* The engine delivers one frame before a tick at most, and none that the chip's buffer
\* and length byte cannot hold.
OneFrame == FramesPerTick <= 1 /\ Frames \subseteq Payloads \ {<< >>}

LEMMA Fitted ==
  ASSUME OneFrame, NEW f \in Frames
  PROVE  /\ f \in Payloads /\ f \in Seq(Bytes) /\ Len(f) \in 1..MaxPayload
         /\ RxLength(f) = Len(f) /\ SubSeq(f, 1, RxLength(f)) = f
<1>1. f \in Payloads /\ f # << >> /\ f \in Seq(Bytes)
  BY NodeAssumption DEF OneFrame
<1>2. PICK n \in 0..MaxPayload : f \in [1..n -> Bytes]
  BY <1>1 DEF Payloads
<1>3. Len(f) = n
  BY <1>2, BufLenAssumption DEF MaxPayload
<1>4. n # 0
  BY <1>1, <1>3, EmptySeq
<1>5. RxLength(f) = Len(f)
  BY <1>2, <1>3, BufLenAssumption DEF RxLength, MaxPayload
<1>. QED
  BY <1>1, <1>2, <1>3, <1>4, <1>5, WholeSeq, BufLenAssumption DEF MaxPayload

\* What the receiver's registers say of the air, when no station but the engine's own is
\* ever reported.
Clean(c) == ~c.channelBusy /\ (c.irq \cap RxIrqFlags # {} => "RxDone" \in c.irq)

\* Time leaves what was received alone.
SameReceived(c, d) ==
  /\ d.rxLen = c.rxLen /\ d.channelBusy = c.channelBusy
  /\ "RxDone" \in d.irq <=> "RxDone" \in c.irq
  /\ Clean(c) => Clean(d)

LEMMA ElapseReceived ==
  ASSUME NEW c, ChipShape(c), NEW t \in Nat
  PROVE  SameReceived(c, Elapse(c, t))
<1>1. LET d == Elapse(c, t)
      IN d.rxLen = c.rxLen /\ d.channelBusy = c.channelBusy /\ d.irq = c.irq
  BY Zenon DEF Elapse, ChipShape, Fields
<1>. QED
  BY <1>1 DEF SameReceived, Clean

LEMMA SpuriousReceived ==
  ASSUME NEW c, ChipShape(c)
  PROVE  SameReceived(c, Spurious(c))
<1>1. LET d == Spurious(c)
      IN /\ d.rxLen = c.rxLen /\ d.channelBusy = c.channelBusy
         /\ d.irq = c.irq \/ d.irq = c.irq \cup {"Preamble"}
  BY Zenon DEF Spurious, ChipShape, Fields
<1>2. \A S : /\ "RxDone" \in S \cup {"Preamble"} <=> "RxDone" \in S
             /\ (S \cup {"Preamble"}) \cap RxIrqFlags = S \cap RxIrqFlags
  BY DEF RxIrqFlags
<1>. DEFINE d == Spurious(c)
<1>3. d.rxLen = c.rxLen /\ d.channelBusy = c.channelBusy
  BY <1>1
<1>4. /\ "RxDone" \in d.irq <=> "RxDone" \in c.irq
      /\ d.irq \cap RxIrqFlags = c.irq \cap RxIrqFlags
  BY <1>1, <1>2, Zenon
<1>. HIDE DEF d
<1>. QED
  BY <1>3, <1>4 DEF SameReceived, Clean, d

LEMMA DetectReceived ==
  ASSUME NEW c, ChipShape(c)
  PROVE  SameReceived(c, Detect(c))
<1>. DEFINE preamble == /\ c.channelBusy /\ ~c.preambleRaised
                        /\ c.now - c.busySince >= PreambleMs[c.modem]
            header == /\ c.channelBusy /\ ~c.headerRaised
                      /\ c.now - c.busySince >= HeaderMs[c.modem]
            flags == c.irq \cup (IF preamble THEN {"Preamble"} ELSE {})
                           \cup (IF header THEN {"Header", "SyncWord"} ELSE {})
            p == c.preambleRaised \/ preamble
            h == c.headerRaised \/ header
            d == Detect(c)
<1>1. d = [c EXCEPT !.irq = flags, !.preambleRaised = p, !.headerRaised = h]
  BY Zenon DEF Detect
<1>2. /\ "RxDone" \in flags <=> "RxDone" \in c.irq
      /\ ~c.channelBusy => flags = c.irq
  <2>1. ~c.channelBusy => ~preamble /\ ~header
    OBVIOUS
  <2>. HIDE DEF preamble, header
  <2>. QED
    BY <2>1
<1>. HIDE DEF flags, p, h, d
<1>3. d.rxLen = c.rxLen /\ d.channelBusy = c.channelBusy /\ d.irq = flags
  BY <1>1, Zenon DEF ChipShape, Fields
<1>. QED
  BY <1>2, <1>3 DEF SameReceived, Clean, d

\* A frame delivered stands whole in the buffer, and the register says so.
LEMMA DeliverReceived ==
  ASSUME OneFrame, NEW c, ChipShape(c), c.inbox # << >>, c.inbox \in Seq(Frames)
  PROVE  LET d == Deliver(c)
         IN /\ d.channelBusy = c.channelBusy /\ "RxDone" \in d.irq
            /\ d.rxLen \in 1..MaxPayload /\ Prefix(d.buffer, d.rxLen) = Head(c.inbox)
<1>. DEFINE f == Head(c.inbox)
            n == RxLength(f)
            mem == Store(c.buffer, 0, SubSeq(f, 1, n))
            rest == Tail(c.inbox)
            flags == c.irq \cup {"RxDone", "Preamble", "Header", "SyncWord"}
            d == Deliver(c)
<1>1. f \in Frames
  OBVIOUS
<1>. HIDE DEF f
<1>2. f \in Payloads /\ n = Len(f) /\ n \in 1..MaxPayload /\ SubSeq(f, 1, n) = f
  BY <1>1, Fitted
<1>3. Prefix(mem, n) = f
  BY <1>2, StagedPrefix
<1>4. "RxDone" \in flags
  OBVIOUS
<1>5. d = [c EXCEPT !.rxLen = n, !.buffer = mem, !.inbox = rest, !.irq = flags]
  BY Zenon DEF Deliver, f
<1>. HIDE DEF n, mem, flags, d
<1>6. /\ d.channelBusy = c.channelBusy /\ d.irq = flags
      /\ d.rxLen = n /\ d.buffer = mem
  BY <1>5, Zenon DEF ChipShape, Fields
<1>. QED
  BY <1>2, <1>3, <1>4, <1>6, Zenon DEF d, f

LEMMA TickReceived ==
  ASSUME OneFrame, NEW c, ChipShape(c), NEW t \in Nat, c.inbox \in Seq(Frames)
  PROVE  LET d == Tick(c, t)
         IN /\ Clean(c) => Clean(d)
            /\ d.channelBusy = c.channelBusy
            /\ c.mode # "rx" \/ c.inbox = << >> =>
                 d.rxLen = c.rxLen /\ ("RxDone" \in d.irq <=> "RxDone" \in c.irq)
            /\ c.mode = "rx" /\ c.inbox # << >> =>
                 /\ "RxDone" \in d.irq /\ d.rxLen \in 1..MaxPayload
                 /\ Prefix(d.buffer, d.rxLen) = Head(c.inbox)
<1>. DEFINE b == Elapse(c, t)
            e == Spurious(b)
            g == Deliver(e)
            d == Tick(c, t)
<1>1. ChipShape(b) /\ Alike(c, b) /\ b.inbox = c.inbox /\ SameReceived(c, b)
  BY ElapseEffect, ElapseReceived, Zenon
<1>. HIDE DEF b
<1>2. ChipShape(e) /\ Alike(b, e) /\ e.inbox = b.inbox /\ SameReceived(b, e)
  BY <1>1, SpuriousEffect, SpuriousReceived, Zenon
<1>. HIDE DEF e
<1>3. ChipShape(g) /\ (e.inbox = << >> => g = e)
  BY <1>2, DeliverEffect, Zenon
<1>4. e.inbox # << >> =>
        /\ g.channelBusy = e.channelBusy /\ "RxDone" \in g.irq
        /\ g.rxLen \in 1..MaxPayload /\ Prefix(g.buffer, g.rxLen) = Head(e.inbox)
  BY <1>1, <1>2, DeliverReceived, Zenon
<1>. HIDE DEF g
<1>5. /\ Detect(g).buffer = g.buffer /\ SameReceived(g, Detect(g))
  BY <1>3, DetectEffect, DetectReceived, Zenon
<1>6. d = IF e.mode = "rx" THEN Detect(g) ELSE e
  BY Zenon DEF Tick, g, e, b
<1>7. e.mode = c.mode /\ e.inbox = c.inbox /\ SameReceived(c, e)
  BY <1>1, <1>2, Zenon DEF Alike, SameReceived
<1>. HIDE DEF d
<1>8. CASE c.mode # "rx"
  BY <1>6, <1>7, <1>8 DEF SameReceived, d
<1>9. CASE c.mode = "rx" /\ c.inbox = << >>
  BY <1>3, <1>5, <1>6, <1>7, <1>9 DEF SameReceived, d
<1>10. CASE c.mode = "rx" /\ c.inbox # << >>
  <2>1. d = Detect(g) /\ Clean(c) => Clean(g)
    BY <1>4, <1>6, <1>7, <1>10 DEF SameReceived, Clean
  <2>2. d = Detect(g)
    BY <1>6, <1>7, <1>10
  <2>. QED
    BY <1>4, <1>5, <1>7, <1>10, <2>1, <2>2 DEF SameReceived, d
<1>. QED
  BY <1>8, <1>9, <1>10, Zenon

\* The commands of the driver, and what is cleared, leave what was received alone.
LEMMA CommandReceived ==
  ASSUME NEW c, ChipShape(c), NEW cmd,
         \/ cmd.op \in {"GetRxBufferStatus", "GetIrqStatus", "ReadBuffer", "SetStandby",
                        "SetRx", "SetTx", "SetPacketParams", "SetDioIrqParams", "WriteBuffer"}
         \/ cmd.op = "ClearIrqStatus" /\ cmd.arg = Flags
  PROVE  LET d == RunCommand(c, cmd)
         IN /\ d.rxLen = c.rxLen /\ d.channelBusy = c.channelBusy
            /\ cmd.op # "SetDioIrqParams" => d.irqMask = c.irqMask
            /\ cmd.op # "ClearIrqStatus" => d.irq = c.irq
            /\ cmd.op = "ClearIrqStatus" => "RxDone" \notin d.irq
            /\ Clean(c) => Clean(d)
<1>. DEFINE d == RunCommand(c, cmd)
            Untouched == /\ d.rxLen = c.rxLen /\ d.channelBusy = c.channelBusy
                         /\ cmd.op # "SetDioIrqParams" => d.irqMask = c.irqMask
<1>1. CASE cmd.op = "ClearIrqStatus" /\ cmd.arg = Flags
  <2>. DEFINE i == c.irq \ Flags
              p == c.preambleRaised /\ "Preamble" \notin Flags
              h == c.headerRaised /\ "Header" \notin Flags
  <2>1. RunCommand(c, cmd) = [c EXCEPT !.irq = i, !.preambleRaised = p, !.headerRaised = h]
    BY <1>1, Zenon DEF RunCommand, ClearIrqStatus
  <2>2. "RxDone" \notin i /\ i \cap RxIrqFlags = {}
    BY DEF Flags, LowByte, HighByte, RxIrqFlags
  <2>. HIDE DEF i, p, h
  <2>3. Untouched /\ d.irq = i
    BY <2>1, Zenon DEF ChipShape, Fields
  <2>. QED
    BY <1>1, <2>2, <2>3 DEF Clean
<1>2. CASE cmd.op = "GetIrqStatus"
  <2>1. RunCommand(c, cmd) = GetIrqStatus(c)
    BY <1>2 DEF RunCommand
  <2>2. Untouched /\ d.irq = c.irq
    BY <1>2, <2>1, Zenon DEF GetIrqStatus, ChipShape, Fields
  <2>. QED
    BY <1>2, <2>2 DEF Clean
<1>3. CASE cmd.op \in {"GetRxBufferStatus", "ReadBuffer"}
  <2>1. RunCommand(c, cmd) = c
    BY <1>3 DEF RunCommand
  <2>. QED
    BY <1>3, <2>1
<1>4. CASE cmd.op \in {"SetStandby", "SetRx"}
  <2>1. RunCommand(c, cmd) = [c EXCEPT !.mode = IF cmd.op = "SetRx" THEN "rx" ELSE "standby"]
    BY <1>4, Zenon DEF RunCommand, SetStandby, SetRx
  <2>2. Untouched /\ d.irq = c.irq
    BY <2>1, Zenon DEF ChipShape, Fields
  <2>. QED
    BY <1>4, <2>2 DEF Clean
<1>5. CASE cmd.op = "SetTx"
  <2>. DEFINE frame == Prefix(c.buffer, c.txLen)
              fem == IF c.fem THEN "in" ELSE "out"
  <2>1. RunCommand(c, cmd) =
          [c EXCEPT !.mode = "tx", !.femAtTx = fem, !.pendingTx = frame, !.hasPendingTx = TRUE]
    BY <1>5, Zenon DEF RunCommand, SetTx
  <2>. HIDE DEF frame, fem
  <2>2. Untouched /\ d.irq = c.irq
    BY <2>1, Zenon DEF ChipShape, Fields
  <2>. QED
    BY <1>5, <2>2 DEF Clean
<1>6. CASE cmd.op = "SetPacketParams"
  <2>1. RunCommand(c, cmd) = [c EXCEPT !.txLen = cmd.arg]
    BY <1>6, Zenon DEF RunCommand, SetPacketParams
  <2>2. Untouched /\ d.irq = c.irq
    BY <2>1, Zenon DEF ChipShape, Fields
  <2>. QED
    BY <1>6, <2>2 DEF Clean
<1>7. CASE cmd.op = "SetDioIrqParams"
  <2>1. RunCommand(c, cmd) = [c EXCEPT !.irqMask = cmd.arg[1]]
    BY <1>7, Zenon DEF RunCommand, SetDioIrqParams
  <2>2. Untouched /\ d.irq = c.irq
    BY <1>7, <2>1, Zenon DEF ChipShape, Fields
  <2>. QED
    BY <1>7, <2>2 DEF Clean
<1>8. CASE cmd.op = "WriteBuffer"
  <2>. DEFINE mem == Store(c.buffer, cmd.arg[1], cmd.arg[2])
  <2>1. RunCommand(c, cmd) = [c EXCEPT !.buffer = mem]
    BY <1>8, Zenon DEF RunCommand, WriteBuffer
  <2>. HIDE DEF mem
  <2>2. Untouched /\ d.irq = c.irq
    BY <2>1, Zenon DEF ChipShape, Fields
  <2>. QED
    BY <1>8, <2>2 DEF Clean
<1>. QED
  BY <1>1, <1>2, <1>3, <1>4, <1>5, <1>6, <1>7, <1>8

\* Which command is next is known from what is still to be sent.
LEMMA StagedOnce ==
  ASSUME NEW S, NEW s \in Seq(S), NEW j \in 1..(Len(s) + 1), NEW k \in 1..(Len(s) + 1),
         SubSeq(s, j, Len(s)) = SubSeq(s, k, Len(s))
  PROVE  j = k
<1>. DEFINE n == Len(s)
<1>1. n \in Nat
  OBVIOUS
<1>2. ASSUME NEW i \in 1..(n + 1)
      PROVE  Len(SubSeq(s, i, n)) = n - i + 1
  <2>. DEFINE t == SubSeq(s, i, n)
  <2>1. t \in Seq(S) /\ Len(t) = n - i + 1
    BY <1>1, SubSeqProperties
  <2>. QED
    BY <2>1
<1>3. n - j + 1 = n - k + 1
  BY <1>2
<1>. HIDE DEF n
<1>. QED
  BY <1>1, <1>3 DEF n

-----------------------------------------------------------------------------
\* Where a frame is, from the engine's hand to the firmware's.

\* A frame stands in the chip until the driver has read it.
Unread == "RxDone" \in chip.irq /\ ~(fw.pc = "listen" /\ Staged(ReadData, 4))
Standing == IF Unread THEN << Prefix(chip.buffer, chip.rxLen) >> ELSE << >>

Conserved == eng.fed = ((hist.fresh \o Standing) \o chip.inbox) \o FramesIn(toNode)

\* What is on its way: frames that fit, ticks still to come.
Fitting ==
  {m \in ToNode : /\ m.kind = "Frame" => m.frame \in Frames
                  /\ m.kind = "Tick" => m.at > bridge.sim
                  /\ m.kind = "ChannelBusy" => ReportsBusy}

Fits ==
  /\ eng.fed \in Seq(Frames) /\ chip.inbox \in Seq(Frames) /\ toNode \in Seq(Fitting)
  /\ hist.fresh \in Seq(Seq(Bytes))

\* A frame waits in the inbox of a chip that does not listen, and never behind another;
\* the extra pass of a tick does not find it there.
Waits ==
  /\ bridge.pc # "loop" /\ fw.state = "idle" =>
       fw.rest /\ chip.mode = "standby" /\ chip.irqMask = {}
  /\ chip.inbox # << >> =>
       /\ "RxDone" \notin chip.irq
       /\ bridge.pc = "step" => bridge.at > bridge.sim
       /\ bridge.pc = "loop" => ~bridge.last /\ (fw.state # "tx" => fw.rest)

\* A chip that listens raises the pin for what it receives.
Masked ==
  /\ chip.mode = "rx" /\ fw.pc # "sent" => chip.irqMask = RxIrqFlags
  /\ fw.pc = "started" =>
       \A k \in 3..6 : Staged(StartReceive, k) => chip.irqMask = RxIrqFlags

\* What stands in the chip is read before anything is sent or cleared.
Stands ==
  "RxDone" \in chip.irq =>
    /\ chip.rxLen \in 1..MaxPayload /\ chip.irqMask = RxIrqFlags /\ InStep
    /\ bridge.pc = "step" => fw.state = "rx"
    /\ bridge.pc = "loop" =>
         \/ fw.pc = "top" /\ fw.state = "rx" /\ fw.ready
         \/ fw.pc = "recv" /\ fw.ready /\ fw.todo = << >>
         \/ fw.pc = "len" /\ (fw.todo = << >> => fw.len = chip.rxLen)
         \/ fw.pc = "listen" /\ fw.todo # << >> /\ fw.len = chip.rxLen
         \/ fw.pc = "started" /\ fw.todo = << >> /\ fw.rest /\ ~bridge.last
         \/ fw.pc = "choose" /\ fw.rest /\ ~bridge.last
         \/ fw.pc = "drain" /\ fw.state = "rx" /\ ~bridge.last

\* Where the engine never reports another station, the pin is raised for nothing but a
\* frame, and nothing is read twice.
Hears ==
  ~ReportsBusy =>
    /\ Clean(chip)
    /\ fw.pc \in {"drain", "choose", "lbt"} => ~fw.ready
    /\ \/ fw.pc \in {"top", "recv"} /\ fw.ready /\ fw.state # "tx"
       \/ fw.pc = "len"
       \/ fw.pc = "listen" /\ fw.todo # << >>
       => "RxDone" \in chip.irq
    /\ hist.heard = hist.fresh

Received == Conserved /\ Fits /\ Waits /\ Masked /\ Stands /\ Hears

-----------------------------------------------------------------------------
\* What the arguments below need to know of the pieces.
LEMMA Typed ==
  ASSUME OneFrame, IInv, Received
  PROVE  /\ eng.fed \in Seq(Seq(Bytes)) /\ hist.fresh \in Seq(Seq(Bytes))
         /\ Standing \in Seq(Seq(Bytes)) /\ chip.inbox \in Seq(Seq(Bytes))
         /\ toNode \in Seq(ToNode) /\ FramesIn(toNode) \in Seq(Seq(Bytes))
         /\ (hist.fresh \o Standing) \o chip.inbox \in Seq(Seq(Bytes))
         /\ hist.fresh \o Standing \in Seq(Seq(Bytes))
<1>1. eng.fed \in Seq(Seq(Bytes))
  <2>1. eng.fed \in Seq(Frames) /\ Frames \subseteq Seq(Bytes)
    BY NodeAssumption DEF Received, Fits
  <2>. QED
    BY <2>1
<1>2. hist.fresh \in Seq(Seq(Bytes)) /\ chip.inbox \in Seq(Seq(Bytes)) /\ toNode \in Seq(ToNode)
  BY DEF Received, Fits, IInv, Shapes, ChipShape
<1>3. Standing \in Seq(Seq(Bytes))
  <2>1. CASE ~Unread
    BY <2>1 DEF Standing
  <2>2. CASE Unread
    <3>. DEFINE p == Prefix(chip.buffer, chip.rxLen)
    <3>1. chip.rxLen \in 0..MaxPayload /\ chip.buffer \in [Cells -> Bytes]
      BY <2>2 DEF Received, Stands, Unread, IInv, Shapes, ChipShape
    <3>2. p \in Payloads
      BY <3>1, PrefixShape, Zenon
    <3>. HIDE DEF p
    <3>3. p \in Seq(Bytes)
      <4>1. PICK n \in 0..MaxPayload : p \in [1..n -> Bytes]
        BY <3>2 DEF Payloads
      <4>2. n \in Nat
        BY <4>1, BufLenAssumption DEF MaxPayload
      <4>. QED
        BY <4>1, <4>2
    <3>4. Standing = << p >>
      BY <2>2 DEF Standing, p
    <3>. QED
      BY <3>3, <3>4
  <2>. QED
    BY <2>1, <2>2
<1>4. FramesIn(toNode) \in Seq(Seq(Bytes))
  BY <1>2, CarriesFrames
<1>. QED
  BY <1>1, <1>2, <1>3, <1>4

\* A message more in the socket.
LEMMA Tells ==
  ASSUME OneFrame, IInv, Received, UNCHANGED <<chip, mainVars, fw, hist>>,
         NEW m \in Fitting, Tell(m), eng'.fed = eng.fed \o FrameOf(m),
         eng'.fed \in Seq(Frames)
  PROVE  Received'
<1>. USE DEF mainVars
<1>. DEFINE F == Seq(Bytes)
            front == (hist.fresh \o Standing) \o chip.inbox
<1>1. m \in ToNode /\ toNode \in Seq(ToNode) /\ toNode' = Append(toNode, m)
  BY DEF Fitting, IInv, Shapes, Tell
<1>2. toNode' \in Seq(Fitting)'
  <2>1. toNode \in Seq(Fitting)
    BY DEF Received, Fits
  <2>2. Fitting' = Fitting
    BY DEF Fitting
  <2>. HIDE DEF Fitting
  <2>. QED
    BY <1>1, <2>1, <2>2
<1>3. Conserved'
  <2>1. FramesIn(toNode') = FramesIn(toNode) \o FrameOf(m)
    BY <1>1, FramesInTold
  <2>2. Standing' = Standing
    BY DEF Standing, Unread, Staged
  <2>3. front \in Seq(F) /\ FramesIn(toNode) \in Seq(F)
    BY Typed
  <2>4. FrameOf(m) \in Seq(F)
    <3>1. IsFrame(m) => m.frame \in F
      BY <1>1 DEF ToNode, IsFrame
    <3>. HIDE DEF F
    <3>. QED
      BY <3>1 DEF FrameOf
  <2>. HIDE DEF F
  <2>5. (front \o FramesIn(toNode)) \o FrameOf(m) = front \o (FramesIn(toNode) \o FrameOf(m))
    <3>. DEFINE x == front
                y == FramesIn(toNode)
                z == FrameOf(m)
    <3>1. x \in Seq(F) /\ y \in Seq(F) /\ z \in Seq(F)
      BY <2>3, <2>4
    <3>. HIDE DEF x, y, z
    <3>2. (x \o y) \o z = x \o (y \o z)
      BY ONLY <3>1, SMTT(60)
    <3>. QED
      BY <3>2 DEF x, y, z
  <2>6. eng.fed = front \o FramesIn(toNode)
    BY DEF Received, Conserved
  <2>7. eng'.fed = front \o FramesIn(toNode')
    BY <2>1, <2>5, <2>6, Zenon
  <2>. QED
    BY <2>2, <2>7 DEF Conserved
<1>4. Fits'
  BY <1>2 DEF Received, Fits
<1>5. Waits'
  BY DEF Received, Waits
<1>6. Masked'
  BY DEF Received, Masked, Staged
<1>7. Stands' /\ Hears'
  BY DEF Received, Stands, Hears, Clean, InStep
<1>. QED
  BY <1>3, <1>4, <1>5, <1>6, <1>7 DEF Received

LEMMA EngineReceives ==
  ASSUME OneFrame, IInv, Received, EngineTurn
  PROVE  Received'
<1>. USE DEF mainVars
<1>1. UNCHANGED <<chip, mainVars, fw, hist>> /\ EngineStep
  BY DEF EngineTurn
<1>2. eng.fed \in Seq(Frames) /\ DOMAIN eng = EngineFields
  BY DEF Received, Fits, IInv, Shapes
<1>3. CASE GiveFrame
  <2>1. PICK f \in Frames :
          /\ Tell([kind |-> "Frame", frame |-> f])
          /\ eng' = [eng EXCEPT !.given = @ + 1, !.fed = Append(@, f)]
    BY <1>3 DEF GiveFrame
  <2>. DEFINE m == [kind |-> "Frame", frame |-> f]
  <2>2. m \in ToNode /\ m.kind = "Frame" /\ m.frame = f
    BY NodeAssumption DEF ToNode
  <2>3. m \in Fitting /\ FrameOf(m) = << f >>
    BY <2>2 DEF Fitting, FrameOf, IsFrame
  <2>4. eng'.fed = Append(eng.fed, f)
    BY <1>2, <2>1, Zenon DEF EngineFields
  <2>5. eng'.fed = eng.fed \o << f >> /\ eng'.fed \in Seq(Frames)
    BY <1>2, <2>4
  <2>. HIDE DEF m
  <2>. QED
    BY <1>1, <2>1, <2>3, <2>5, Tells DEF m
<1>4. CASE TellTxDone \/ TellChannel \/ TellOdd \/ SendTick
  <2>1. PICK m \in ToNode : /\ Tell(m) /\ m \in Fitting /\ m.kind # "Frame"
                            /\ eng'.fed = eng.fed
    <3>1. CASE TellTxDone
      <4>. DEFINE m == [kind |-> "TxDone"]
      <4>1. Tell(m) /\ eng' = [eng EXCEPT !.waves = @ - 1]
        BY <3>1 DEF TellTxDone
      <4>2. m \in ToNode /\ m.kind = "TxDone"
        BY DEF ToNode
      <4>. HIDE DEF m
      <4>3. m \in Fitting
        BY <4>2 DEF Fitting
      <4>4. eng'.fed = eng.fed
        BY <1>2, <4>1, Zenon DEF EngineFields
      <4>. QED
        BY <4>1, <4>2, <4>3, <4>4
    <3>2. CASE TellChannel
      <4>. DEFINE m == [kind |-> "ChannelBusy", busy |-> ~eng.busy]
      <4>1. Tell(m) /\ eng' = [eng EXCEPT !.busy = ~@, !.told = TRUE] /\ ReportsBusy
        BY <3>2 DEF TellChannel
      <4>2. m \in ToNode /\ m.kind = "ChannelBusy"
        BY DEF ToNode
      <4>. HIDE DEF m
      <4>3. m \in Fitting
        BY <4>1, <4>2 DEF Fitting
      <4>4. eng'.fed = eng.fed
        BY <1>2, <4>1, Zenon DEF EngineFields
      <4>. QED
        BY <4>1, <4>2, <4>3, <4>4
    <3>3. CASE TellOdd
      <4>1. PICK k \in OddKinds : Tell([kind |-> k])
        BY <3>3 DEF TellOdd
      <4>. DEFINE m == [kind |-> k]
      <4>2. Tell(m) /\ eng' = [eng EXCEPT !.told = TRUE]
        BY <3>3, <4>1 DEF TellOdd
      <4>3. m \in ToNode /\ m.kind \in {"Originate", "Unknown"}
        BY EngineAssumption DEF ToNode
      <4>. HIDE DEF m
      <4>4. m \in Fitting
        BY <4>3 DEF Fitting
      <4>5. eng'.fed = eng.fed
        BY <1>2, <4>2, Zenon DEF EngineFields
      <4>. QED
        BY <4>2, <4>3, <4>4, <4>5
    <3>4. CASE SendTick
      <4>1. PICK k \in EngineLumps : Tell([kind |-> "Tick", at |-> eng.acked + k])
        BY <3>4 DEF SendTick
      <4>. DEFINE m == [kind |-> "Tick", at |-> eng.acked + k]
      <4>2. ~eng.waiting /\ eng' = [eng EXCEPT !.waiting = TRUE, !.given = 0, !.told = FALSE]
        BY <3>4 DEF SendTick
      <4>3. eng.acked \in Nat /\ eng.acked = bridge.sim
        BY <4>2 DEF IInv, Shapes, Turns
      <4>4. eng.acked + k \in Nat /\ eng.acked + k > bridge.sim
        BY <4>3, EngineAssumption
      <4>5. m \in ToNode /\ m.kind = "Tick" /\ m.at > bridge.sim
        BY <4>4 DEF ToNode
      <4>6. Tell(m)
        BY <4>1
      <4>. HIDE DEF m
      <4>7. m \in Fitting
        BY <4>5 DEF Fitting
      <4>8. eng'.fed = eng.fed
        BY <1>2, <4>2, Zenon DEF EngineFields
      <4>. QED
        BY <4>5, <4>6, <4>7, <4>8
    <3>. QED
      BY <1>4, <3>1, <3>2, <3>3, <3>4, Zenon
  <2>2. FrameOf(m) = << >>
    BY <2>1 DEF FrameOf, IsFrame
  <2>3. eng'.fed = eng.fed \o << >>
    BY <1>2, <2>1
  <2>. QED
    BY <1>1, <1>2, <2>1, <2>2, <2>3, Tells
<1>5. CASE HearNode
  <2>1. toNode' = toNode /\ eng'.fed = eng.fed
    <3>. DEFINE m == Head(toEngine)
    <3>1. toNode' = toNode /\ \/ eng' = [eng EXCEPT !.waves = @ + 1]
                              \/ eng' = [eng EXCEPT !.waiting = FALSE, !.acked = m.at]
                              \/ eng' = eng
      <4>1. toEngine \in Seq(ToEngine) /\ toEngine # << >> /\ toNode' = toNode
        BY <1>5 DEF IInv, Shapes, HearNode
      <4>2. m \in ToEngine
        BY <4>1
      <4>3. m.kind \in {"Frame", "Stats", "Ack"}
        BY <4>2 DEF ToEngine
      <4>. QED
        BY <1>5, <4>1, <4>3 DEF HearNode
    <3>. HIDE DEF m
    <3>. QED
      BY <1>2, <3>1, Zenon DEF EngineFields
  <2>. USE <1>1, <2>1
  <2>2. Conserved'
    BY DEF Received, Conserved, Standing, Unread, Staged
  <2>3. Fits'
    <3>1. Fitting' = Fitting
      BY DEF Fitting
    <3>. QED
      BY <3>1 DEF Received, Fits
  <2>4. Waits'
    BY DEF Received, Waits
  <2>5. Masked'
    BY DEF Received, Masked, Staged
  <2>6. Stands' /\ Hears'
    BY DEF Received, Stands, Hears, Clean, InStep
  <2>. QED
    BY <2>2, <2>3, <2>4, <2>5, <2>6 DEF Received
<1>. QED
  BY <1>1, <1>3, <1>4, <1>5 DEF EngineStep

\* A message taken from the socket.  Nothing stands in the chip between two ticks.
LEMMA Takes ==
  ASSUME OneFrame, IInv, Received, NEW kind, Take(kind)
  PROVE  /\ ~InStep /\ "RxDone" \notin chip.irq /\ Standing = << >>
         /\ Head(toNode) \in Fitting /\ Tail(toNode) \in Seq(Fitting)
         /\ eng.fed = (hist.fresh \o chip.inbox) \o (FrameOf(Head(toNode)) \o FramesIn(Tail(toNode)))
<1>1. bridge.pc = "read" /\ toNode # << >> /\ toNode \in Seq(ToNode)
  BY TakeFacts
<1>2. ~InStep /\ "RxDone" \notin chip.irq
  BY <1>1 DEF Received, Stands, InStep
<1>3. Standing = << >>
  BY <1>2 DEF Standing, Unread
<1>4. Head(toNode) \in Fitting /\ Tail(toNode) \in Seq(Fitting)
  <2>1. toNode \in Seq(Fitting)
    BY DEF Received, Fits
  <2>. HIDE DEF Fitting
  <2>. QED
    BY <1>1, <2>1
<1>5. FramesIn(toNode) = FrameOf(Head(toNode)) \o FramesIn(Tail(toNode))
  BY <1>1, FramesInTaken
<1>6. hist.fresh \o << >> = hist.fresh
  BY Typed
<1>. QED
  BY <1>2, <1>3, <1>4, <1>5, <1>6, Zenon DEF Received, Conserved

\* What is left to show of a message read.
LEMMA ReadReceives ==
  ASSUME OneFrame, IInv, Received, NEW kind, Take(kind),
         "RxDone" \notin chip'.irq, chip'.inbox \in Seq(Frames),
         eng.fed = (hist.fresh \o chip'.inbox) \o FramesIn(Tail(toNode)),
         fw.state = "idle" => chip'.mode = "standby" /\ chip'.irqMask = {},
         chip'.mode = "rx" => chip'.irqMask = RxIrqFlags,
         ~ReportsBusy => Clean(chip'),
         bridge'.sim = bridge.sim, bridge'.pc # "loop",
         chip'.inbox # << >> /\ bridge'.pc = "step" => bridge'.at > bridge.sim
  PROVE  Received'
<1>1. /\ UNCHANGED <<eng, fw, hist>> /\ toNode' = Tail(toNode) /\ fw.pc = "drain"
      /\ bridge.pc = "read"
  BY TakeFacts
<1>2. Standing' = << >>
  BY DEF Standing, Unread
<1>3. Conserved'
  <2>1. hist.fresh \o << >> = hist.fresh
    BY Typed
  <2>. QED
    BY <1>1, <1>2, <2>1, Zenon DEF Conserved
<1>4. Fits'
  <2>1. Fitting' = Fitting
    BY DEF Fitting
  <2>2. Tail(toNode) \in Seq(Fitting)
    BY Takes
  <2>. QED
    BY <1>1, <2>1, <2>2 DEF Received, Fits
<1>5. Waits'
  <2>1. fw.state = "idle" => fw.rest
    BY <1>1 DEF Received, Waits
  <2>. QED
    BY <1>1, <2>1 DEF Waits
<1>6. Masked'
  BY <1>1 DEF Masked
<1>7. Stands'
  BY DEF Stands
<1>8. Hears'
  BY <1>1 DEF Received, Hears
<1>. QED
  BY <1>3, <1>4, <1>5, <1>6, <1>7, <1>8 DEF Received

\* What does not depend on the message.
LEMMA ReadSettled ==
  ASSUME OneFrame, IInv, Received, NEW kind, Take(kind)
  PROVE  /\ DOMAIN chip = Fields /\ "RxDone" \notin chip.irq /\ chip.inbox \in Seq(Frames)
         /\ fw.state = "idle" => chip.mode = "standby" /\ chip.irqMask = {}
         /\ chip.mode = "rx" => chip.irqMask = RxIrqFlags
         /\ ~ReportsBusy => Clean(chip)
<1>1. fw.pc = "drain" /\ bridge.pc = "read"
  BY TakeFacts
<1>. QED
  BY <1>1, Takes DEF Received, Fits, Waits, Masked, Hears, IInv, Shapes, ChipShape

LEMMA ReadFrameReceives ==
  ASSUME OneFrame, IInv, Received, ReadFrame
  PROVE  Received'
<1>. DEFINE f == Head(toNode).frame
<1>1. Take("Frame") /\ chip' = QueueFrame(chip, f) /\ bridge' = bridge
  BY DEF ReadFrame
<1>2. Holds(toNode, "Frame") /\ Head(toNode).kind = "Frame" /\ bridge.pc = "read"
  BY <1>1, TakeFacts
<1>3. chip.inbox = << >>
  BY <1>2 DEF OneFrame, IInv, Arrives
<1>4. /\ f \in Frames /\ FrameOf(Head(toNode)) = << f >>
      /\ eng.fed = (hist.fresh \o chip.inbox) \o (FrameOf(Head(toNode)) \o FramesIn(Tail(toNode)))
  BY <1>1, <1>2, Takes DEF Fitting, FrameOf, IsFrame
<1>5. chip' = [chip EXCEPT !.inbox = << f >>]
  <2>1. Append(chip.inbox, f) = << f >>
    BY <1>3
  <2>. QED
    BY <1>1, <2>1, Zenon DEF QueueFrame
<1>6. hist.fresh \o << >> = hist.fresh /\ << f >> \in Seq(Frames)
  BY <1>4, Typed
<1>7. FramesIn(Tail(toNode)) \in Seq(Seq(Bytes)) /\ << f >> \in Seq(Seq(Bytes))
  <2>1. Tail(toNode) \in Seq(ToNode)
    BY <1>1, TakeFacts
  <2>2. f \in Seq(Bytes)
    BY <1>4, Fitted
  <2>3. FramesIn(Tail(toNode)) \in Seq(Seq(Bytes))
    BY <2>1, CarriesFrames
  <2>. DEFINE F == Seq(Bytes)
  <2>. HIDE DEF f, F
  <2>4. f \in F
    BY <2>2 DEF F
  <2>5. << f >> \in Seq(F)
    BY <2>4
  <2>. QED
    BY <2>3, <2>5 DEF F
<1>. HIDE DEF f
<1>8. /\ chip'.inbox = << f >> /\ chip'.irq = chip.irq /\ chip'.mode = chip.mode
      /\ chip'.irqMask = chip.irqMask /\ chip'.channelBusy = chip.channelBusy
  BY <1>1, <1>5, ReadSettled, Zenon DEF Fields
<1>9. eng.fed = (hist.fresh \o chip'.inbox) \o FramesIn(Tail(toNode))
  <2>. DEFINE F == Seq(Bytes)
              x == hist.fresh
              y == << f >>
              z == FramesIn(Tail(toNode))
  <2>1. x \in Seq(F) /\ y \in Seq(F) /\ z \in Seq(F)
    BY <1>7, Typed
  <2>2. eng.fed = x \o (y \o z) /\ chip'.inbox = y
    BY <1>3, <1>4, <1>6, <1>8, Zenon
  <2>. HIDE DEF F, x, y, z
  <2>3. (x \o y) \o z = x \o (y \o z)
    BY ONLY <2>1, SMTT(60)
  <2>. QED
    BY <2>2, <2>3, Zenon DEF x, z
<1>10. Clean(chip) => Clean(chip')
  BY <1>8 DEF Clean
<1>11. bridge'.sim = bridge.sim /\ bridge'.pc = "read"
  BY <1>1, <1>2
<1>12. "RxDone" \notin chip'.irq /\ chip'.inbox \in Seq(Frames)
  BY <1>1, <1>6, <1>8, Takes
<1>. QED
  BY <1>1, <1>8, <1>9, <1>10, <1>11, <1>12, ReadSettled, ReadReceives

\* Any other message.
LEMMA ReadRest ==
  ASSUME OneFrame, IInv, Received, NEW kind, Take(kind), kind # "Frame",
         chip'.inbox = chip.inbox, "RxDone" \notin chip'.irq,
         fw.state = "idle" => chip'.mode = "standby" /\ chip'.irqMask = {},
         chip'.mode = "rx" => chip'.irqMask = RxIrqFlags,
         ~ReportsBusy => Clean(chip'),
         bridge'.sim = bridge.sim, bridge'.pc # "loop",
         bridge'.pc = "step" => bridge'.at > bridge.sim
  PROVE  Received'
<1>1. eng.fed = (hist.fresh \o chip.inbox) \o FramesIn(Tail(toNode))
  <2>1. FrameOf(Head(toNode)) = << >>
    BY TakeFacts DEF FrameOf, IsFrame
  <2>2. Tail(toNode) \in Seq(ToNode)
    BY TakeFacts
  <2>3. << >> \o FramesIn(Tail(toNode)) = FramesIn(Tail(toNode))
    BY <2>2, CarriesFrames
  <2>. QED
    BY <2>1, <2>3, Takes, Zenon
<1>2. chip.inbox \in Seq(Frames)
  BY ReadSettled
<1>. QED
  BY <1>1, <1>2, ReadReceives

LEMMA ReadMessageReceives ==
  ASSUME OneFrame, IInv, Received,
         ReadTxDone \/ ReadChannel \/ ReadOriginate \/ ReadUnknown \/ ReadTick
  PROVE  Received'
<1>0. /\ DOMAIN bridge = {"pc", "sim", "rtc", "at", "last"}
      /\ bridge \in [pc : {"read", "step", "loop", "closed"}, sim : Nat, rtc : Nat,
                      at : Nat, last : BOOLEAN]
  BY DEF IInv, Shapes
<1>1. CASE ReadTxDone
  <2>1. Take("TxDone") /\ chip' = TransmitFinished(chip) /\ bridge' = bridge /\ bridge.pc = "read"
    BY <1>1, TakeFacts DEF ReadTxDone
  <2>2. DOMAIN chip = Fields
    BY <2>1, ReadSettled
  <2>3. /\ chip'.inbox = chip.inbox /\ chip'.irqMask = chip.irqMask
        /\ chip'.channelBusy = chip.channelBusy
        /\ chip'.mode = IF chip.mode = "tx" THEN "standby" ELSE chip.mode
        /\ chip'.irq = IF chip.mode = "tx" THEN chip.irq \cup {"TxDone"} ELSE chip.irq
    BY <2>1, <2>2, Zenon DEF TransmitFinished, Fields
  <2>4. /\ "RxDone" \in chip'.irq <=> "RxDone" \in chip.irq
        /\ Clean(chip) => Clean(chip')
    BY <2>3 DEF Clean, RxIrqFlags
  <2>5. fw.state = "idle" => chip'.mode = "standby" /\ chip'.irqMask = {}
    BY <2>1, <2>3, ReadSettled
  <2>6. chip'.mode = "rx" => chip'.irqMask = RxIrqFlags
    BY <2>1, <2>3, ReadSettled
  <2>7. "RxDone" \notin chip'.irq /\ (~ReportsBusy => Clean(chip'))
    BY <2>1, <2>4, ReadSettled
  <2>. QED
    BY <2>1, <2>3, <2>5, <2>6, <2>7, ReadRest
<1>2. CASE ReadChannel
  <2>1. /\ Take("ChannelBusy") /\ chip' = SetChannelBusy(chip, Head(toNode).busy)
        /\ bridge' = bridge /\ bridge.pc = "read" /\ Head(toNode).kind = "ChannelBusy"
    BY <1>2, TakeFacts DEF ReadChannel
  <2>2. DOMAIN chip = Fields
    BY <2>1, ReadSettled
  <2>3. /\ chip'.inbox = chip.inbox /\ chip'.irqMask = chip.irqMask
        /\ chip'.mode = chip.mode /\ chip'.irq = chip.irq
    BY <2>1, <2>2, Zenon DEF SetChannelBusy, Fields
  <2>4. ReportsBusy
    BY <2>1, Takes DEF Fitting
  <2>. QED
    BY <2>1, <2>3, <2>4, ReadSettled, ReadRest
<1>3. CASE ReadOriginate
  <2>1. Take("Originate") /\ chip' = chip /\ bridge' = bridge /\ bridge.pc = "read"
    BY <1>3, TakeFacts DEF ReadOriginate
  <2>. QED
    BY <2>1, ReadSettled, ReadRest
<1>4. CASE ReadUnknown
  <2>1. Take("Unknown") /\ chip' = chip /\ bridge' = [bridge EXCEPT !.pc = "closed"]
    BY <1>4 DEF ReadUnknown
  <2>2. bridge'.pc = "closed" /\ bridge'.sim = bridge.sim
    BY <1>0, <2>1
  <2>. QED
    BY <2>1, <2>2, ReadSettled, ReadRest
<1>5. CASE ReadTick
  <2>1. /\ Take("Tick") /\ chip' = chip
        /\ bridge' = [bridge EXCEPT !.pc = "step", !.at = Head(toNode).at]
    BY <1>5 DEF ReadTick
  <2>2. bridge'.pc = "step" /\ bridge'.sim = bridge.sim /\ bridge'.at = Head(toNode).at
    BY <1>0, <2>1
  <2>3. Head(toNode).at > bridge.sim
    BY <2>1, Takes, TakeFacts DEF Fitting
  <2>. QED
    BY <2>1, <2>2, <2>3, ReadSettled, ReadRest
<1>. QED
  BY <1>1, <1>2, <1>3, <1>4, <1>5

-----------------------------------------------------------------------------
\* A millisecond begun: a frame that waits is delivered if the chip listens.
LEMMA Delivered ==
  ASSUME OneFrame, IInv, Received, chip.inbox # << >>
  PROVE  /\ Len(chip.inbox) = 1 /\ Tail(chip.inbox) = << >> /\ chip.inbox = << Head(chip.inbox) >>
         /\ "RxDone" \notin chip.irq /\ Standing = << >>
         /\ ((hist.fresh \o << Head(chip.inbox) >>) \o << >>) \o FramesIn(toNode) = eng.fed
<1>1. chip.inbox \in Seq(Frames) /\ Len(chip.inbox) <= 1
  BY DEF OneFrame, Received, Fits, IInv, Arrives
<1>. DEFINE q == chip.inbox
<1>2. q \in Seq(Frames) /\ Len(q) <= 1 /\ q # << >> /\ q = chip.inbox
  BY <1>1
<1>. HIDE DEF q
<1>3. Len(q) = 1
  <2>. DEFINE n == Len(q)
  <2>1. n \in Nat /\ n # 0 /\ n <= 1
    BY <1>2, EmptySeq
  <2>. HIDE DEF n
  <2>2. n = 1
    BY <2>1
  <2>. QED
    BY <2>2 DEF n
<1>4. Tail(q) = << >> /\ q = << Head(q) >>
  <2>1. Tail(q) = << >>
    BY <1>2, LastTaken
  <2>2. Head(q) = q[1] /\ q[1] \in Frames
    BY <1>2, <1>3
  <2>. DEFINE f == q[1]
  <2>3. f \in Frames /\ q[1] = f
    BY <2>2
  <2>. HIDE DEF f
  <2>4. q = << f >>
    BY <1>2, <1>3, <2>3
  <2>. QED
    BY <2>1, <2>2, <2>3, <2>4
<1>5. "RxDone" \notin chip.irq
  BY DEF Received, Waits
<1>6. Standing = << >>
  BY <1>5 DEF Standing, Unread
<1>7. hist.fresh \o << >> = hist.fresh /\ (hist.fresh \o q) \o << >> = hist.fresh \o q
  <2>1. hist.fresh \in Seq(Seq(Bytes)) /\ q \in Seq(Seq(Bytes))
    BY Typed DEF q
  <2>. QED
    BY <2>1
<1>8. eng.fed = (hist.fresh \o q) \o FramesIn(toNode)
  BY <1>2, <1>6, <1>7, Zenon DEF Received, Conserved
<1>9. ((hist.fresh \o << Head(q) >>) \o << >>) \o FramesIn(toNode) = eng.fed
  BY <1>4, <1>7, <1>8, Zenon
<1>. QED
  BY <1>2, <1>3, <1>4, <1>5, <1>6, <1>9, Zenon

LEMMA BeginMsReceives ==
  ASSUME OneFrame, IInv, Received, BeginMs
  PROVE  Received'
<1>. DEFINE more == bridge.sim < bridge.at
            s == IF more THEN bridge.sim + 1 ELSE bridge.sim
            second == more /\ s % RtcPeriod = 0
            r == IF second THEN bridge.rtc + 1 ELSE bridge.rtc
            t == BeginTick(s)
            c == Tick(chip, t)
<1>1. /\ bridge.pc = "step"
      /\ bridge' = [bridge EXCEPT !.pc = "loop", !.sim = s, !.last = ~more, !.rtc = r]
      /\ chip' = c
      /\ fw' = [fw EXCEPT !.pc = "top", !.ready = ServiceIrq(c)]
      /\ UNCHANGED <<eng, toNode, toEngine, hist, aired>>
  BY DEF BeginMs, engineVars
<1>2. /\ bridge.sim \in Nat /\ local \in Nat /\ ChipShape(chip) /\ toNode = << >>
      /\ DOMAIN fw = FwFields /\ DOMAIN bridge = {"pc", "sim", "rtc", "at", "last"}
      /\ fw.pc = "drain" /\ fw.todo = << >> /\ ~eng.waiting = FALSE
      /\ fw.state \in {"idle", "rx", "tx"} /\ chip.inbox \in Seq(Frames)
  BY <1>1 DEF IInv, Shapes, Turns, InStep, States, Stages, Received, Fits
<1>3. t \in Nat
  BY <1>2 DEF BeginTick
<1>. HIDE DEF t
<1>4. /\ ChipShape(c) /\ Alike(chip, c)
      /\ chip.mode # "rx" \/ chip.inbox = << >> => c.inbox = chip.inbox /\ c.buffer = chip.buffer
      /\ chip.mode = "rx" /\ chip.inbox # << >> => c.inbox = Tail(chip.inbox)
  BY <1>2, <1>3, TickEffect, Zenon
<1>5. /\ Clean(chip) => Clean(c)
      /\ chip.mode # "rx" \/ chip.inbox = << >> =>
           c.rxLen = chip.rxLen /\ ("RxDone" \in c.irq <=> "RxDone" \in chip.irq)
      /\ chip.mode = "rx" /\ chip.inbox # << >> =>
           /\ "RxDone" \in c.irq /\ c.rxLen \in 1..MaxPayload
           /\ Prefix(c.buffer, c.rxLen) = Head(chip.inbox)
  BY <1>2, <1>3, TickReceived, Zenon
<1>. HIDE DEF c
<1>6. bridge'.pc = "loop" /\ bridge'.last = ~more
  <2>. HIDE DEF s, r, more
  <2>. QED
    BY <1>1, <1>2, Zenon
<1>7. /\ fw'.pc = "top" /\ fw'.ready = ServiceIrq(c) /\ fw'.state = fw.state
      /\ fw'.todo = fw.todo /\ fw'.rest = fw.rest /\ fw'.len = fw.len
  BY <1>1, <1>2, Zenon DEF FwFields
<1>8. /\ fw'.ready <=> fw.ready \/ c.irq \cap c.irqMask # {}
      /\ c.irqMask = chip.irqMask /\ c.mode = chip.mode
  BY <1>4, <1>7 DEF ServiceIrq, IrqAsserted, Alike
<1>9. /\ fw.state = "rx" => chip.mode = "rx" /\ c.irqMask = RxIrqFlags
      /\ fw.state = "idle" => fw.rest /\ chip.mode = "standby" /\ c.irqMask = {}
      /\ chip.mode = "rx" => fw.state = "rx"
  BY <1>1, <1>2, <1>8 DEF Received, Waits, Masked, IInv, Listens
<1>10. Conserved' /\ ("RxDone" \in c.irq => /\ c.rxLen \in 1..MaxPayload
                                           /\ c.mode = "rx" /\ c.inbox = << >>)
  <2>1. CASE chip.mode = "rx" /\ chip.inbox # << >>
    <3>1. /\ Tail(chip.inbox) = << >> /\ Standing = << >>
          /\ ((hist.fresh \o << Head(chip.inbox) >>) \o << >>) \o FramesIn(toNode) = eng.fed
      BY <1>2, <2>1, Delivered
    <3>2. Standing' = << Head(chip.inbox) >>
      BY <1>1, <1>5, <1>7, <2>1 DEF Standing, Unread
    <3>. QED
      BY <1>1, <1>4, <1>5, <1>8, <2>1, <3>1, <3>2 DEF Conserved
  <2>2. CASE ~(chip.mode = "rx" /\ chip.inbox # << >>)
    <3>1. /\ c.inbox = chip.inbox /\ c.buffer = chip.buffer /\ c.rxLen = chip.rxLen
          /\ "RxDone" \in c.irq <=> "RxDone" \in chip.irq
      BY <1>4, <1>5, <2>2
    <3>2. Standing' = Standing
      BY <1>1, <1>2, <1>7, <3>1 DEF Standing, Unread
    <3>3. "RxDone" \in chip.irq => /\ chip.rxLen \in 1..MaxPayload
                                   /\ fw.state = "rx" /\ chip.inbox = << >>
      BY <1>1 DEF Received, Stands, Waits
    <3>. QED
      BY <1>1, <1>8, <1>9, <3>1, <3>2, <3>3 DEF Received, Conserved
  <2>. QED
    BY <2>1, <2>2
<1>11. Fits'
  <2>1. c.inbox \in Seq(Frames)
    <3>1. c.inbox = chip.inbox \/ (chip.inbox # << >> /\ c.inbox = Tail(chip.inbox))
      BY <1>4
    <3>2. chip.inbox # << >> => Tail(chip.inbox) \in Seq(Frames)
      BY <1>2
    <3>. QED
      BY <1>2, <3>1, <3>2
  <2>2. << >> \in Seq(Fitting')
    OBVIOUS
  <2>. QED
    BY <1>1, <1>2, <2>1, <2>2 DEF Received, Fits
<1>12. Waits'
  <2>1. c.inbox # << >> => /\ chip.inbox # << >> /\ chip.mode # "rx" /\ "RxDone" \notin c.irq
    <3>1. chip.inbox # << >> => Tail(chip.inbox) = << >>
      BY Delivered
    <3>2. c.inbox # << >> => chip.inbox # << >> /\ chip.mode # "rx"
      BY <1>4, <3>1, Zenon
    <3>. QED
      BY <1>10, <3>2
  <2>2. chip.inbox # << >> => more
    BY <1>1 DEF Received, Waits
  <2>3. chip.mode # "rx" /\ fw.state # "tx" => fw.rest
    BY <1>2, <1>9
  <2>. QED
    BY <1>1, <1>6, <1>7, <2>1, <2>2, <2>3 DEF Waits
<1>13. Masked'
  BY <1>1, <1>7, <1>8, <1>9 DEF Masked
<1>14. Stands'
  <2>. SUFFICES ASSUME "RxDone" \in c.irq
                PROVE  Stands'
    BY <1>1 DEF Stands
  <2>1. fw.state = "rx" /\ c.irqMask = RxIrqFlags /\ c.rxLen \in 1..MaxPayload
    BY <1>8, <1>9, <1>10
  <2>2. fw'.ready
    BY <1>8, <2>1 DEF RxIrqFlags
  <2>. QED
    BY <1>1, <1>6, <1>7, <2>1, <2>2 DEF Stands, InStep
<1>15. Hears'
  <2>. SUFFICES ASSUME ~ReportsBusy
                PROVE  Hears'
    BY DEF Hears
  <2>1. Clean(c) /\ ~fw.ready /\ hist.heard = hist.fresh
    BY <1>2, <1>5 DEF Received, Hears
  <2>2. fw'.ready /\ fw.state # "tx" => "RxDone" \in c.irq
    <3>. SUFFICES ASSUME fw'.ready, fw.state # "tx"
                  PROVE  "RxDone" \in c.irq
      OBVIOUS
    <3>1. c.irq \cap c.irqMask # {}
      BY <1>8, <2>1
    <3>2. c.irqMask = RxIrqFlags
      BY <1>2, <1>9, <3>1
    <3>. QED
      BY <2>1, <3>1, <3>2 DEF Clean
  <2>. QED
    BY <1>1, <1>7, <2>1, <2>2 DEF Hears
<1>. QED
  BY <1>10, <1>11, <1>12, <1>13, <1>14, <1>15 DEF Received

\* The end of loop(): whatever waited has been delivered by now.
LEMMA EndLoopReceives ==
  ASSUME OneFrame, IInv, Received, EndLoop
  PROVE  Received'
<1>1. /\ bridge.pc = "loop" /\ fw.pc = "drain" /\ fw.todo = << >>
      /\ bridge' = [bridge EXCEPT !.pc = IF bridge.last THEN "read" ELSE "step"]
      /\ chip' = IF chip.hasPendingTx THEN TakeTx(chip) ELSE chip
      /\ UNCHANGED <<local, eng, toNode, fw, hist>>
  BY DEF EndLoop, EndLoopWith
<1>2. /\ DOMAIN chip = Fields /\ DOMAIN bridge = {"pc", "sim", "rtc", "at", "last"}
      /\ fw.state \in {"rx", "tx"}
  BY <1>1 DEF IInv, Shapes, ChipShape, States
<1>3. /\ chip'.irq = chip.irq /\ chip'.irqMask = chip.irqMask /\ chip'.mode = chip.mode
      /\ chip'.inbox = chip.inbox /\ chip'.buffer = chip.buffer /\ chip'.rxLen = chip.rxLen
      /\ chip'.channelBusy = chip.channelBusy
  BY <1>1, <1>2, Zenon DEF TakeTx, Fields
<1>4. /\ bridge'.pc = IF bridge.last THEN "read" ELSE "step"
      /\ bridge'.sim = bridge.sim
  BY <1>1, <1>2, Zenon
<1>5. chip.inbox = << >>
  <2>1. chip.mode \in {"rx", "tx"}
    BY <1>1, <1>2 DEF IInv, Listens
  <2>. QED
    BY <1>1, <2>1 DEF OneFrame, IInv, Arrives
<1>6. Conserved'
  BY <1>1, <1>3 DEF Received, Conserved, Standing, Unread, Staged
<1>7. Fits'
  <2>1. Fitting' = Fitting
    BY <1>4 DEF Fitting
  <2>. QED
    BY <1>1, <1>3, <2>1 DEF Received, Fits
<1>8. Waits'
  BY <1>1, <1>2, <1>3, <1>5 DEF Waits
<1>9. Masked'
  BY <1>1, <1>3 DEF Received, Masked
<1>10. Stands'
  BY <1>1, <1>3, <1>4 DEF Received, Stands, InStep
<1>11. Hears'
  BY <1>1, <1>3 DEF Received, Hears, Clean
<1>. QED
  BY <1>6, <1>7, <1>8, <1>9, <1>10, <1>11 DEF Received

-----------------------------------------------------------------------------
\* The firmware decides.

Becomes(pc, todo, state, ready, rest) ==
  /\ fw'.pc = pc /\ fw'.todo = todo /\ fw'.state = state /\ fw'.ready = ready
  /\ fw'.rest = rest /\ fw'.len = fw.len

Decided ==
  \/ fw.pc = "top" /\ fw.state # "tx" /\ Becomes("recv", << >>, fw.state, fw.ready, fw.rest)
  \/ fw.pc = "top" /\ fw.state = "tx" /\ Becomes("recv", FinishTransmit, "idle", FALSE, TRUE)
  \/ fw.pc = "top" /\ fw.state = "tx" /\ ~fw.ready
       /\ Becomes("drain", << >>, fw.state, fw.ready, fw.rest)
  \/ fw.pc = "recv" /\ fw.ready /\ Becomes("len", GetPacketLength, fw.state, fw.ready, fw.rest)
  \/ fw.pc = "recv" /\ ~fw.ready /\ Becomes("listen", << >>, fw.state, fw.ready, fw.rest)
  \/ fw.pc = "len" /\ fw.len > 0 /\ Becomes("listen", ReadData, "idle", FALSE, fw.rest)
  \/ fw.pc = "len" /\ ~(fw.len > 0) /\ Becomes("listen", << >>, "idle", FALSE, fw.rest)
  \/ fw.pc = "listen" /\ ~fw.ready /\ fw.state = "rx"
       /\ Becomes("choose", << >>, fw.state, fw.ready, fw.rest)
  \/ fw.pc = "listen" /\ Becomes("started", StartReceive, fw.state, fw.ready, fw.rest)
  \/ fw.pc = "started" /\ Becomes("choose", << >>, "rx", FALSE, fw.rest)
  \/ fw.pc = "choose" /\ Becomes("drain", << >>, fw.state, fw.ready, FALSE)
  \/ fw.pc = "choose" /\ ~fw.rest /\ Becomes("lbt", GetIrqFlags, fw.state, fw.ready, fw.rest)
  \/ fw.pc = "lbt" /\ Becomes("drain", << >>, fw.state, fw.ready, fw.rest)
  \/ fw.pc = "lbt" /\ \E f \in OutFrames :
       Becomes("sent", StartTransmit(f), fw.state, fw.ready, fw.rest)
  \/ fw.pc = "sent" /\ Becomes("drain", << >>, "tx", FALSE, fw.rest)

LEMMA Decisions ==
  ASSUME IInv, Loop
  PROVE  /\ Decided /\ fw.todo = << >> /\ bridge.pc = "loop"
         /\ UNCHANGED <<chip, local, bridge, aired, eng, toNode, toEngine>>
         /\ hist'.fresh = hist.fresh /\ hist'.heard = hist.heard
<1>. USE DEF At, Becomes
<1>1. UNCHANGED <<chip, local, bridge, aired, eng, toNode, toEngine>> /\ bridge.pc = "loop"
  BY DEF Loop, mainVars, engineVars
<1>2. DOMAIN fw = FwFields /\ DOMAIN hist = HistFields
  BY DEF IInv, Shapes
<1>3. CASE NotSending
  <2>1. /\ fw.pc = "top" /\ fw.todo = << >> /\ fw.state # "tx" /\ hist' = hist
        /\ fw' = [fw EXCEPT !.pc = "recv"]
    BY <1>3 DEF NotSending
  <2>2. Becomes("recv", << >>, fw.state, fw.ready, fw.rest)
    BY <1>2, <2>1, Zenon DEF FwFields
  <2>. QED
    BY <1>1, <2>1, <2>2 DEF Decided
<1>4. CASE SendOver
  <2>1. /\ fw.pc = "top" /\ fw.todo = << >> /\ fw.state = "tx" /\ hist' = hist
        /\ fw' = [fw EXCEPT !.pc = "recv", !.todo = FinishTransmit,
                            !.state = "idle", !.ready = FALSE, !.rest = TRUE]
    BY <1>4 DEF SendOver
  <2>2. Becomes("recv", FinishTransmit, "idle", FALSE, TRUE)
    BY <1>2, <2>1, Zenon DEF FwFields
  <2>. QED
    BY <1>1, <2>1, <2>2 DEF Decided
<1>5. CASE StillSending
  <2>1. /\ fw.pc = "top" /\ fw.todo = << >> /\ fw.state = "tx" /\ ~fw.ready /\ hist' = hist
        /\ fw' = [fw EXCEPT !.pc = "drain"]
    BY <1>5 DEF StillSending
  <2>2. Becomes("drain", << >>, fw.state, fw.ready, fw.rest)
    BY <1>2, <2>1, Zenon DEF FwFields
  <2>. QED
    BY <1>1, <2>1, <2>2 DEF Decided
<1>6. CASE Collect
  <2>1. /\ fw.pc = "recv" /\ fw.todo = << >> /\ fw.ready /\ hist' = hist
        /\ fw' = [fw EXCEPT !.pc = "len", !.todo = GetPacketLength]
    BY <1>6 DEF Collect
  <2>2. Becomes("len", GetPacketLength, fw.state, fw.ready, fw.rest)
    BY <1>2, <2>1, Zenon DEF FwFields
  <2>. QED
    BY <1>1, <2>1, <2>2 DEF Decided
<1>7. CASE NothingToCollect
  <2>1. /\ fw.pc = "recv" /\ fw.todo = << >> /\ ~fw.ready /\ hist' = hist
        /\ fw' = [fw EXCEPT !.pc = "listen"]
    BY <1>7 DEF NothingToCollect
  <2>2. Becomes("listen", << >>, fw.state, fw.ready, fw.rest)
    BY <1>2, <2>1, Zenon DEF FwFields
  <2>. QED
    BY <1>1, <2>1, <2>2 DEF Decided
<1>8. CASE ReadPacket
  <2>. DEFINE todo == IF fw.len > 0 THEN ReadData ELSE << >>
  <2>1. /\ fw.pc = "len" /\ fw.todo = << >> /\ hist' = hist
        /\ fw' = [fw EXCEPT !.pc = "listen", !.state = "idle", !.ready = FALSE, !.todo = todo]
    BY <1>8 DEF ReadPacket
  <2>. HIDE DEF todo
  <2>2. Becomes("listen", todo, "idle", FALSE, fw.rest)
    BY <1>2, <2>1, Zenon DEF FwFields
  <2>. QED
    BY <1>1, <2>1, <2>2 DEF Decided, todo
<1>9. CASE Listen
  <2>1. fw.pc = "listen" /\ fw.todo = << >> /\ hist' = hist
    BY <1>9 DEF Listen
  <2>2. CASE fw.state = "rx" /\ ~fw.ready
    <3>1. fw' = [fw EXCEPT !.pc = "choose"]
      BY <1>9, <2>2 DEF Listen
    <3>2. Becomes("choose", << >>, fw.state, fw.ready, fw.rest)
      BY <1>2, <2>1, <3>1, Zenon DEF FwFields
    <3>. QED
      BY <1>1, <2>1, <2>2, <3>2 DEF Decided
  <2>3. CASE ~(fw.state = "rx" /\ ~fw.ready)
    <3>1. fw' = [fw EXCEPT !.pc = "started", !.todo = StartReceive]
      BY <1>9, <2>3 DEF Listen
    <3>2. Becomes("started", StartReceive, fw.state, fw.ready, fw.rest)
      BY <1>2, <2>1, <3>1, Zenon DEF FwFields
    <3>. QED
      BY <1>1, <2>1, <3>2 DEF Decided
  <2>. QED
    BY <2>2, <2>3
<1>10. CASE Started
  <2>1. /\ fw.pc = "started" /\ fw.todo = << >> /\ hist' = hist
        /\ fw' = [fw EXCEPT !.pc = "choose", !.state = "rx", !.ready = FALSE]
    BY <1>10 DEF Started
  <2>2. Becomes("choose", << >>, "rx", FALSE, fw.rest)
    BY <1>2, <2>1, Zenon DEF FwFields
  <2>. QED
    BY <1>1, <2>1, <2>2 DEF Decided
<1>11. CASE NothingToSend
  <2>1. /\ fw.pc = "choose" /\ fw.todo = << >> /\ hist' = hist
        /\ fw' = [fw EXCEPT !.pc = "drain", !.rest = FALSE]
    BY <1>11 DEF NothingToSend
  <2>2. Becomes("drain", << >>, fw.state, fw.ready, FALSE)
    BY <1>2, <2>1, Zenon DEF FwFields
  <2>. QED
    BY <1>1, <2>1, <2>2 DEF Decided
<1>12. CASE ListenFirst
  <2>1. /\ fw.pc = "choose" /\ fw.todo = << >> /\ ~fw.rest /\ hist' = hist
        /\ fw' = [fw EXCEPT !.pc = "lbt", !.todo = GetIrqFlags]
    BY <1>12 DEF ListenFirst
  <2>2. Becomes("lbt", GetIrqFlags, fw.state, fw.ready, fw.rest)
    BY <1>2, <2>1, Zenon DEF FwFields
  <2>. QED
    BY <1>1, <2>1, <2>2 DEF Decided
<1>13. CASE Decide
  <2>1. fw.pc = "lbt" /\ fw.todo = << >>
    BY <1>13 DEF Decide
  <2>2. CASE fw.seen # {}
    <3>1. fw' = [fw EXCEPT !.pc = "drain"] /\ hist' = hist
      BY <1>13, <2>2 DEF Decide
    <3>2. Becomes("drain", << >>, fw.state, fw.ready, fw.rest)
      BY <1>2, <2>1, <3>1, Zenon DEF FwFields
    <3>. QED
      BY <1>1, <2>1, <3>1, <3>2 DEF Decided
  <2>3. CASE fw.seen = {}
    <3>1. PICK f \in OutFrames :
            /\ fw' = [fw EXCEPT !.pc = "sent", !.todo = StartTransmit(f)]
            /\ hist' = [hist EXCEPT !.sent = Append(@, f)]
      BY <1>13, <2>3 DEF Decide
    <3>2. Becomes("sent", StartTransmit(f), fw.state, fw.ready, fw.rest)
      BY <1>2, <2>1, <3>1, Zenon DEF FwFields
    <3>3. hist'.fresh = hist.fresh /\ hist'.heard = hist.heard
      BY <1>2, <3>1, Zenon DEF HistFields
    <3>4. \E g \in OutFrames : Becomes("sent", StartTransmit(g), fw.state, fw.ready, fw.rest)
      BY <3>2
    <3>. HIDE DEF Becomes
    <3>. QED
      BY <1>1, <2>1, <3>3, <3>4 DEF Decided
  <2>. QED
    BY <2>2, <2>3
<1>14. CASE Sent
  <2>1. /\ fw.pc = "sent" /\ fw.todo = << >> /\ hist' = hist
        /\ fw' = [fw EXCEPT !.pc = "drain", !.state = "tx", !.ready = FALSE]
    BY <1>14 DEF Sent
  <2>2. Becomes("drain", << >>, "tx", FALSE, fw.rest)
    BY <1>2, <2>1, Zenon DEF FwFields
  <2>. QED
    BY <1>1, <2>1, <2>2 DEF Decided
<1>. QED
  BY <1>3, <1>4, <1>5, <1>6, <1>7, <1>8, <1>9, <1>10, <1>11, <1>12, <1>13, <1>14
     DEF Loop, Dispatcher

\* Every program but the one that is over has something to send, and starts at its start.
LEMMA Beginnings ==
  /\ GetPacketLength # << >> /\ ReadData # << >>
  /\ ReadData # SubSeq(ReadData, 4, Len(ReadData))
  /\ << >> # SubSeq(ReadData, 4, Len(ReadData))
  /\ \A k \in 3..6 : StartReceive # SubSeq(StartReceive, k, Len(StartReceive))
<1>1. GetPacketLength # << >> /\ ReadData # << >>
  BY DEF GetPacketLength, ReadData
<1>2. ReadData # SubSeq(ReadData, 4, Len(ReadData)) /\ << >> # SubSeq(ReadData, 4, Len(ReadData))
  <2>. DEFINE s == ReadData
              S == {s[1], s[2], s[3], s[4]}
  <2>1. s \in Seq(S) /\ Len(s) = 4
    BY DEF ReadData
  <2>. HIDE DEF s, S
  <2>2. SubSeq(s, 1, Len(s)) = s /\ SubSeq(s, 5, Len(s)) = << >>
    BY <2>1, WholeSeq
  <2>3. ASSUME NEW j \in {1, 5}, SubSeq(s, j, Len(s)) = SubSeq(s, 4, Len(s))
        PROVE  FALSE
    <3>1. j \in 1..(Len(s) + 1) /\ 4 \in 1..(Len(s) + 1) /\ j # 4
      BY <2>1
    <3>. QED
      BY <2>1, <2>3, <3>1, StagedOnce
  <2>4. SubSeq(s, 1, Len(s)) # SubSeq(s, 4, Len(s)) /\ SubSeq(s, 5, Len(s)) # SubSeq(s, 4, Len(s))
    BY <2>3
  <2>. QED
    BY <2>2, <2>4 DEF s
<1>3. ASSUME NEW k \in 3..6
      PROVE  StartReceive # SubSeq(StartReceive, k, Len(StartReceive))
  <2>. DEFINE s == StartReceive
              S == {s[1], s[2], s[3], s[4], s[5]}
  <2>1. s \in Seq(S) /\ Len(s) = 5
    BY DEF StartReceive
  <2>. HIDE DEF s, S
  <2>2. SubSeq(s, 1, Len(s)) = s
    BY <2>1, WholeSeq
  <2>3. 1 \in 1..(Len(s) + 1) /\ k \in 1..(Len(s) + 1)
    BY <2>1
  <2>4. SubSeq(s, 1, Len(s)) # SubSeq(s, k, Len(s))
    BY <2>1, <2>3, StagedOnce
  <2>. QED
    BY <2>2, <2>4 DEF s
<1>. QED
  BY <1>1, <1>2, <1>3

LEMMA LoopReceives ==
  ASSUME OneFrame, IInv, Received, Loop
  PROVE  Received'
<1>1. /\ Decided /\ fw.todo = << >> /\ bridge.pc = "loop"
      /\ UNCHANGED <<chip, local, bridge, aired, eng, toNode, toEngine>>
      /\ hist'.fresh = hist.fresh /\ hist'.heard = hist.heard
  BY Decisions
<1>2. /\ fw.pc \in {"recv", "len", "listen"} => fw.state # "tx"
      /\ fw.pc = "started" => fw.state = "idle"
      /\ fw.pc \in {"choose", "lbt", "sent"} => fw.state = "rx"
      /\ fw.pc = "started" => chip.mode = "rx"
      /\ fw.state = "rx" /\ fw.pc # "sent" => chip.mode = "rx"
      /\ chip.mode = "rx" => chip.inbox = << >>
  <2>1. fw.pc = "started" => chip.mode = "rx"
    <3>. DEFINE s == StartReceive
                S == {s[1], s[2], s[3], s[4], s[5]}
    <3>. SUFFICES ASSUME fw.pc = "started"
                  PROVE  chip.mode = "rx"
      OBVIOUS
    <3>1. s \in Seq(S) /\ Len(s) = 5
      BY DEF StartReceive
    <3>2. PICK k \in 1..6 : Staged(s, k) /\ (k > 5 => chip.mode = "rx")
      BY DEF IInv, Stages
    <3>. HIDE DEF s, S
    <3>3. k = Len(s) + 1
      BY <1>1, <3>1, <3>2, NextCommand DEF Staged
    <3>. QED
      BY <3>1, <3>2, <3>3
  <2>. QED
    BY <1>1, <2>1 DEF OneFrame, IInv, States, Listens, Arrives
<1>3. fw.pc = "sent" => chip.mode # "rx"
  <2>. SUFFICES ASSUME fw.pc = "sent"
                PROVE  chip.mode = "tx"
    OBVIOUS
  <2>. DEFINE f == Last(hist.sent)
              s == StartTransmit(f)
              S == {s[1], s[2], s[3], s[4], s[5]}
  <2>1. PICK k \in 1..6 : Sends(f, k)
    BY DEF IInv, Stages
  <2>2. s \in Seq(S) /\ Len(s) = 5
    BY DEF StartTransmit
  <2>3. fw.todo = SubSeq(s, k, Len(s))
    BY <2>1 DEF Sends, Staged
  <2>. HIDE DEF s, S, f
  <2>4. k = Len(s) + 1
    BY <1>1, <2>2, <2>3, NextCommand
  <2>. QED
    BY <2>1, <2>2, <2>4 DEF Sends
<1>. USE DEF Becomes
<1>4. "RxDone" \in chip.irq =>
        /\ ~(fw.pc = "listen" /\ Staged(ReadData, 4))
        /\ ~(fw'.pc = "listen" /\ Staged(ReadData, 4)')
  <2>1. "RxDone" \in chip.irq => fw.pc # "listen"
    BY <1>1 DEF Received, Stands
  <2>2. ~(fw'.pc = "listen" /\ Staged(ReadData, 4)')
    BY <1>1, Beginnings DEF Decided, Staged
  <2>. QED
    BY <2>1, <2>2
<1>5. Conserved'
  <2>1. Standing' = Standing
    BY <1>1, <1>4 DEF Standing, Unread
  <2>. QED
    BY <1>1, <2>1 DEF Received, Conserved
<1>6. Fits'
  <2>1. Fitting' = Fitting
    BY <1>1 DEF Fitting
  <2>. QED
    BY <1>1, <2>1 DEF Received, Fits
<1>7. Waits'
  BY <1>1, <1>2 DEF Decided, Received, Waits
<1>8. Masked'
  <2>1. chip.mode = "rx" /\ fw'.pc # "sent" => chip.irqMask = RxIrqFlags
    BY <1>1, <1>3 DEF Received, Masked
  <2>2. fw'.pc = "started" => \A k \in 3..6 : ~Staged(StartReceive, k)'
    BY <1>1, Beginnings DEF Decided, Staged
  <2>. QED
    BY <1>1, <2>1, <2>2 DEF Masked
<1>9. Stands'
  <2>. SUFFICES ASSUME "RxDone" \in chip.irq
                PROVE  Stands'
    BY <1>1 DEF Stands
  <2>1. chip.rxLen \in 1..MaxPayload /\ chip.irqMask = RxIrqFlags
    BY DEF Received, Stands
  <2>2. chip.rxLen > 0
    BY <2>1
  <2>3. /\ fw.pc = "listen" => fw.todo # << >>
        /\ fw.pc = "len" => fw.len = chip.rxLen
        /\ fw.pc \in {"started", "choose"} => fw.rest /\ ~bridge.last
        /\ fw.pc \in {"top", "recv"} => fw.ready
        /\ fw.pc = "top" => fw.state = "rx"
        /\ fw.pc \notin {"lbt", "sent"}
    BY <1>1 DEF Received, Stands
  <2>. QED
    BY <1>1, <1>2, <2>1, <2>2, <2>3, Beginnings DEF Decided, Stands, InStep
<1>10. Hears'
  <2>. SUFFICES ASSUME ~ReportsBusy
                PROVE  Hears'
    BY DEF Hears
  <2>1. /\ Clean(chip) /\ hist.heard = hist.fresh
        /\ fw.pc \in {"drain", "choose", "lbt"} => ~fw.ready
        /\ fw.pc \in {"top", "recv"} /\ fw.ready /\ fw.state # "tx" => "RxDone" \in chip.irq
        /\ fw.pc = "len" => "RxDone" \in chip.irq
    BY DEF Received, Hears
  <2>2. fw'.pc \in {"drain", "choose", "lbt"} => ~fw'.ready
    BY <1>1, <2>1 DEF Decided
  <2>3. /\ fw'.pc \in {"top", "recv"} /\ fw'.ready /\ fw'.state # "tx" => "RxDone" \in chip.irq
        /\ fw'.pc = "len" => "RxDone" \in chip.irq
        /\ fw'.pc = "listen" /\ fw'.todo # << >> => "RxDone" \in chip.irq
    BY <1>1, <1>2, <2>1 DEF Decided
  <2>. QED
    BY <1>1, <2>1, <2>2, <2>3 DEF Hears
<1>. QED
  BY <1>5, <1>6, <1>7, <1>8, <1>9, <1>10 DEF Received

-----------------------------------------------------------------------------
\* A transaction with the chip.

Command == Head(fw.todo)

\* What is read there.
LEMMA SpiReads ==
  ASSUME IInv, Spi
  PROVE  /\ fw'.rest = fw.rest
         /\ fw'.len = IF Command.op = "GetRxBufferStatus"
                      THEN IF fw.pc = "len" \/ Before.rxLen < fw.len
                           THEN Before.rxLen ELSE fw.len
                      ELSE fw.len
         /\ hist'.heard = IF Command.op = "ReadBuffer"
                          THEN Append(hist.heard, Prefix(Before.buffer, fw.len)) ELSE hist.heard
         /\ hist'.fresh = IF Command.op = "ReadBuffer" /\ "RxDone" \in Before.irq
                          THEN Append(hist.fresh, Prefix(Before.buffer, fw.len)) ELSE hist.fresh
<1>. DEFINE cmd == Head(fw.todo)
            b(d) == Tick(chip, local + d)
            count(d) == IF fw.pc = "len" \/ b(d).rxLen < fw.len THEN b(d).rxLen ELSE fw.len
            len(d) == IF cmd.op = "GetRxBufferStatus" THEN count(d) ELSE fw.len
            seen(d) == IF cmd.op = "GetIrqStatus"
                       THEN IrqReply(b(d), GetterLength(cmd.op)) \cap BusyFlags ELSE fw.seen
            frame(d) == Prefix(b(d).buffer, fw.len)
            heard(d) == IF cmd.op = "ReadBuffer" THEN Append(hist.heard, frame(d))
                        ELSE hist.heard
            fresh(d) == IF cmd.op = "ReadBuffer" /\ "RxDone" \in b(d).irq
                        THEN Append(hist.fresh, frame(d)) ELSE hist.fresh
            up(d) == IF cmd.op = "GetIrqStatus" THEN b(d).irq \cap BusyFlags ELSE hist.up
<1>1. PICK d \in 0..SpiMs :
        /\ local' = local + d
        /\ fw' = [fw EXCEPT !.todo = Tail(@), !.len = len(d), !.seen = seen(d)]
        /\ hist' = [hist EXCEPT !.heard = heard(d), !.fresh = fresh(d), !.up = up(d)]
  BY Zenon DEF Spi
<1>2. DOMAIN fw = FwFields /\ DOMAIN hist = HistFields
  BY DEF IInv, Shapes
<1>3. b(d) = Before
  BY <1>1 DEF Before
<1>. HIDE DEF len, seen, heard, fresh, up
<1>4. fw'.rest = fw.rest /\ fw'.len = len(d)
  BY <1>1, <1>2, Zenon DEF FwFields
<1>5. hist'.heard = heard(d) /\ hist'.fresh = fresh(d)
  BY <1>1, <1>2, Zenon DEF HistFields
<1>6. /\ len(d) = IF Command.op = "GetRxBufferStatus"
                  THEN IF fw.pc = "len" \/ Before.rxLen < fw.len THEN Before.rxLen ELSE fw.len
                  ELSE fw.len
      /\ heard(d) = IF Command.op = "ReadBuffer"
                    THEN Append(hist.heard, Prefix(Before.buffer, fw.len)) ELSE hist.heard
      /\ fresh(d) = IF Command.op = "ReadBuffer" /\ "RxDone" \in Before.irq
                    THEN Append(hist.fresh, Prefix(Before.buffer, fw.len)) ELSE hist.fresh
  <2>. USE DEF len, heard, fresh, Command
  <2>. HIDE DEF b
  <2>. QED
    BY <1>3, Zenon
<1>. QED
  BY <1>4, <1>5, <1>6, Zenon

\* The command, by the program it is from.
Position(s, k) ==
  /\ Staged(s, k) /\ k \in 1..Len(s) /\ Command = s[k]
  /\ fw'.todo = SubSeq(s, k + 1, Len(s))
  /\ fw'.todo = << >> <=> k = Len(s)

LEMMA Positioned ==
  ASSUME NEW S, NEW s \in Seq(S), NEW k \in 1..(Len(s) + 1), Staged(s, k),
         fw.todo # << >>, fw'.todo = Tail(fw.todo)
  PROVE  Position(s, k)
<1>1. /\ k \in 1..Len(s) /\ k + 1 \in 1..(Len(s) + 1)
      /\ Head(fw.todo) = s[k] /\ fw'.todo = SubSeq(s, k + 1, Len(s))
  BY NextCommand DEF Staged
<1>2. fw'.todo = << >> <=> k = Len(s)
  <2>. DEFINE j == k + 1
              u == fw'.todo
  <2>1. s \in Seq(S) /\ j \in 1..(Len(s) + 1) /\ u = SubSeq(s, j, Len(s))
    BY <1>1
  <2>2. j = Len(s) + 1 <=> k = Len(s)
    <3>1. Len(s) \in Nat /\ k \in Nat
      BY <1>1
    <3>. QED
      BY <3>1
  <2>. HIDE DEF j, u
  <2>3. u = << >> => j = Len(s) + 1
    BY ONLY <2>1, NextCommand
  <2>4. j = Len(s) + 1 => u = << >>
    BY ONLY <2>1, NextCommand
  <2>. QED
    BY <2>2, <2>3, <2>4 DEF u
<1>. QED
  BY <1>1, <1>2 DEF Position, Command

Transmission == StartTransmit(Last(hist.sent))

LEMMA Commands ==
  ASSUME IInv, Spi
  PROVE  /\ fw.pc \in {"recv", "len", "lbt", "listen", "started", "sent"}
         /\ fw.pc = "recv" => Command = Cmd("ClearIrqStatus", Flags)
                                 \/ Command = Cmd("SetStandby", 0)
         /\ fw.pc = "len" => Command = Cmd("GetRxBufferStatus", 0) /\ fw'.todo = << >>
         /\ fw.pc = "lbt" => Command = Cmd("GetIrqStatus", 0)
         /\ fw.pc = "listen" => \E k \in 1..4 : Position(ReadData, k)
         /\ fw.pc = "started" => \E k \in 1..5 : Position(StartReceive, k)
         /\ fw.pc = "sent" => \E k \in 1..5 : Position(Transmission, k)
         /\ Len(ReadData) = 4 /\ Len(StartReceive) = 5 /\ Len(Transmission) = 5
<1>1. /\ fw.todo # << >> /\ fw'.todo = Tail(fw.todo)
      /\ fw.pc \in {"recv", "len", "lbt", "listen", "started", "sent"}
  BY SpiFacts DEF SpiLeaves
<1>2. fw.pc = "recv" => \/ Command = Cmd("ClearIrqStatus", Flags)
                        \/ Command = Cmd("SetStandby", 0)
  <2>. SUFFICES ASSUME fw.pc = "recv"
                PROVE  Command = Cmd("ClearIrqStatus", Flags) \/ Command = Cmd("SetStandby", 0)
    OBVIOUS
  <2>. DEFINE s == FinishTransmit
              S == {s[1], s[2]}
  <2>1. /\ s \in Seq(S) /\ Len(s) = 2
        /\ s[1] = Cmd("ClearIrqStatus", Flags) /\ s[2] = Cmd("SetStandby", 0)
    BY DEF FinishTransmit
  <2>2. PICK k \in 1..3 : Staged(s, k)
    BY DEF IInv, Stages
  <2>. HIDE DEF s, S
  <2>3. Position(s, k)
    <3>1. k \in 1..(Len(s) + 1)
      BY <2>1
    <3>. QED
      BY <1>1, <2>1, <2>2, <3>1, Positioned
  <2>4. k \in 1..2 /\ Command = s[k]
    BY <2>1, <2>3 DEF Position
  <2>. QED
    BY <2>1, <2>4
<1>3. fw.pc = "len" => Command = Cmd("GetRxBufferStatus", 0) /\ fw'.todo = << >>
  <2>. SUFFICES ASSUME fw.pc = "len"
                PROVE  Command = Cmd("GetRxBufferStatus", 0) /\ fw'.todo = << >>
    OBVIOUS
  <2>. DEFINE s == GetPacketLength
              S == {s[1]}
  <2>1. s \in Seq(S) /\ Len(s) = 1 /\ s[1] = Cmd("GetRxBufferStatus", 0)
    BY DEF GetPacketLength
  <2>2. PICK k \in 1..2 : Staged(s, k)
    BY DEF IInv, Stages
  <2>. HIDE DEF s, S
  <2>3. Position(s, k)
    <3>1. k \in 1..(Len(s) + 1)
      BY <2>1
    <3>. QED
      BY <1>1, <2>1, <2>2, <3>1, Positioned
  <2>. QED
    BY <2>1, <2>3 DEF Position
<1>4. fw.pc = "lbt" => Command = Cmd("GetIrqStatus", 0)
  <2>. SUFFICES ASSUME fw.pc = "lbt"
                PROVE  Command = Cmd("GetIrqStatus", 0)
    OBVIOUS
  <2>. DEFINE s == GetIrqFlags
              S == {s[1]}
  <2>1. s \in Seq(S) /\ Len(s) = 1 /\ s[1] = Cmd("GetIrqStatus", 0)
    BY DEF GetIrqFlags
  <2>2. PICK k \in 1..2 : Staged(s, k)
    BY DEF IInv, Stages
  <2>. HIDE DEF s, S
  <2>3. Position(s, k)
    <3>1. k \in 1..(Len(s) + 1)
      BY <2>1
    <3>. QED
      BY <1>1, <2>1, <2>2, <3>1, Positioned
  <2>. QED
    BY <2>1, <2>3 DEF Position
<1>5. Len(ReadData) = 4 /\ (fw.pc = "listen" => \E k \in 1..4 : Position(ReadData, k))
  <2>. DEFINE s == ReadData
              S == {s[1], s[2], s[3], s[4]}
  <2>1. s \in Seq(S) /\ Len(s) = 4
    BY DEF ReadData
  <2>2. fw.pc = "listen" => \E k \in 1..5 : Staged(s, k)
    BY DEF IInv, Stages
  <2>. HIDE DEF s, S
  <2>3. ASSUME NEW k \in 1..5, Staged(s, k)
        PROVE  k \in 1..4 /\ Position(s, k)
    <3>1. Position(s, k)
      <4>1. k \in 1..(Len(s) + 1)
        BY <2>1
      <4>. QED
        BY <1>1, <2>1, <2>3, <4>1, Positioned
    <3>. QED
      BY <2>1, <3>1 DEF Position
  <2>. QED
    BY <2>1, <2>2, <2>3 DEF s
<1>6. Len(StartReceive) = 5 /\ (fw.pc = "started" => \E k \in 1..5 : Position(StartReceive, k))
  <2>. DEFINE s == StartReceive
              S == {s[1], s[2], s[3], s[4], s[5]}
  <2>1. s \in Seq(S) /\ Len(s) = 5
    BY DEF StartReceive
  <2>2. fw.pc = "started" => \E k \in 1..6 : Staged(s, k)
    BY DEF IInv, Stages
  <2>. HIDE DEF s, S
  <2>3. ASSUME NEW k \in 1..6, Staged(s, k)
        PROVE  k \in 1..5 /\ Position(s, k)
    <3>1. Position(s, k)
      <4>1. k \in 1..(Len(s) + 1)
        BY <2>1
      <4>. QED
        BY <1>1, <2>1, <2>3, <4>1, Positioned
    <3>. QED
      BY <2>1, <3>1 DEF Position
  <2>. QED
    BY <2>1, <2>2, <2>3 DEF s
<1>7. Len(Transmission) = 5 /\ (fw.pc = "sent" => \E k \in 1..5 : Position(Transmission, k))
  <2>. DEFINE s == Transmission
              S == {s[1], s[2], s[3], s[4], s[5]}
  <2>1. s \in Seq(S) /\ Len(s) = 5
    BY DEF Transmission, StartTransmit
  <2>2. fw.pc = "sent" => \E k \in 1..6 : Staged(s, k)
    BY DEF IInv, Stages, Sends, Transmission
  <2>. HIDE DEF s, S
  <2>3. ASSUME NEW k \in 1..6, Staged(s, k)
        PROVE  k \in 1..5 /\ Position(s, k)
    <3>1. Position(s, k)
      <4>1. k \in 1..(Len(s) + 1)
        BY <2>1
      <4>. QED
        BY <1>1, <2>1, <2>3, <4>1, Positioned
    <3>. QED
      BY <2>1, <3>1 DEF Position
  <2>. QED
    BY <2>1, <2>2, <2>3 DEF s
<1>. QED
  BY <1>1, <1>2, <1>3, <1>4, <1>5, <1>6, <1>7

\* All a command may be, and what it does to the mode.
LEMMA CommandKinds ==
  ASSUME IInv, Spi
  PROVE  /\ \/ Command.op \in {"GetRxBufferStatus", "GetIrqStatus", "ReadBuffer", "SetStandby",
                               "SetRx", "SetTx", "SetPacketParams", "SetDioIrqParams"}
            \/ Command.op = "WriteBuffer" /\ Command.arg[1] = 0 /\ Command.arg[2] \in Payloads
            \/ Command.op = "ClearIrqStatus" /\ Command.arg = Flags
         /\ Command.op = "SetPacketParams" => Command.arg \in 0..MaxPayload
         /\ Command.op = "SetRx" => fw.pc = "started"
         /\ Command.op = "WriteBuffer" => fw.pc = "sent"
         /\ Command.op = "ReadBuffer" => fw.pc = "listen"
<1>1. fw.pc \in {"recv", "len", "lbt"} =>
        \/ Command.op \in {"GetRxBufferStatus", "GetIrqStatus", "SetStandby"}
        \/ Command.op = "ClearIrqStatus" /\ Command.arg = Flags
  BY Commands DEF Cmd
<1>2. fw.pc = "listen" =>
        \/ Command.op \in {"GetRxBufferStatus", "GetIrqStatus", "ReadBuffer"}
        \/ Command.op = "ClearIrqStatus" /\ Command.arg = Flags
  BY Commands DEF Position, ReadData, Cmd
<1>3. fw.pc = "started" =>
        \/ Command.op \in {"SetStandby", "SetDioIrqParams", "SetRx"}
        \/ Command.op = "ClearIrqStatus" /\ Command.arg = Flags
        \/ Command.op = "SetPacketParams" /\ Command.arg = MaxPayload
  BY Commands DEF Position, StartReceive, Cmd
<1>4. fw.pc = "sent" =>
        \/ Command.op \in {"SetDioIrqParams", "SetTx"}
        \/ Command.op = "ClearIrqStatus" /\ Command.arg = Flags
        \/ Command.op = "SetPacketParams" /\ Command.arg = Len(Last(hist.sent))
        \/ /\ Command.op = "WriteBuffer" /\ Command.arg[1] = 0
           /\ Command.arg[2] = Last(hist.sent)
  <2>. SUFFICES ASSUME fw.pc = "sent"
                PROVE  \/ Command.op \in {"SetDioIrqParams", "SetTx"}
                       \/ Command.op = "ClearIrqStatus" /\ Command.arg = Flags
                       \/ Command.op = "SetPacketParams" /\ Command.arg = Len(Last(hist.sent))
                       \/ /\ Command.op = "WriteBuffer" /\ Command.arg[1] = 0
                          /\ Command.arg[2] = Last(hist.sent)
    OBVIOUS
  <2>1. PICK k \in 1..5 : Command = Transmission[k]
    BY Commands DEF Position
  <2>. QED
    BY <2>1 DEF Transmission, StartTransmit, Cmd
<1>5. fw.pc = "sent" => Last(hist.sent) \in Payloads /\ Len(Last(hist.sent)) \in 0..MaxPayload
  <2>. SUFFICES ASSUME fw.pc = "sent"
                PROVE  Last(hist.sent) \in Payloads /\ Len(Last(hist.sent)) \in 0..MaxPayload
    OBVIOUS
  <2>. DEFINE f == Last(hist.sent)
  <2>1. hist.sent \in Seq(OutFrames) /\ hist.sent # << >>
    BY DEF IInv, Shapes, Stages
  <2>2. f \in Payloads
    BY <2>1, MeshCoreAssumption DEF Last
  <2>. HIDE DEF f
  <2>3. PICK n \in 0..MaxPayload : f \in [1..n -> Bytes]
    BY <2>2 DEF Payloads
  <2>4. Len(f) = n
    BY <2>3, BufLenAssumption DEF MaxPayload
  <2>. QED
    BY <2>2, <2>3, <2>4 DEF f
<1>6. MaxPayload \in 0..MaxPayload
  BY BufLenAssumption DEF MaxPayload
<1>7. fw.pc \in {"recv", "len", "lbt", "listen", "started", "sent"}
  BY Commands
<1>. QED
  BY <1>1, <1>2, <1>3, <1>4, <1>5, <1>6, <1>7

\* What a transaction does to what was received.
LEMMA SpiChip ==
  ASSUME OneFrame, IInv, Received, Spi
  PROVE  /\ Before.buffer = chip.buffer /\ Before.rxLen = chip.rxLen
         /\ "RxDone" \in Before.irq <=> "RxDone" \in chip.irq
         /\ Clean(chip) => Clean(chip')
         /\ chip'.irqMask = IF Command.op = "SetDioIrqParams" THEN Command.arg[1] ELSE chip.irqMask
         /\ chip'.mode = CASE Command.op = "SetRx" -> "rx" [] Command.op = "SetTx" -> "tx"
                           [] Command.op = "SetStandby" -> "standby" [] OTHER -> chip.mode
         /\ Command.op # "SetRx" \/ chip.inbox = << >> =>
              /\ chip'.inbox = chip.inbox /\ chip'.rxLen = chip.rxLen
              /\ Command.op # "WriteBuffer" => chip'.buffer = chip.buffer
              /\ "RxDone" \in chip'.irq <=> "RxDone" \in chip.irq /\ Command.op # "ClearIrqStatus"
         /\ Command.op = "SetRx" /\ chip.inbox # << >> =>
              /\ chip'.inbox = Tail(chip.inbox) /\ "RxDone" \in chip'.irq
              /\ chip'.rxLen \in 1..MaxPayload
              /\ Prefix(chip'.buffer, chip'.rxLen) = Head(chip.inbox)
<1>. DEFINE b == Before
            a == After
            op == Command.op
            Moves(m) == m = CASE op = "SetRx" -> "rx" [] op = "SetTx" -> "tx"
                              [] op = "SetStandby" -> "standby" [] OTHER -> chip.mode
<1>1. /\ local' \in Nat /\ chip' = Tick(a, local') /\ ChipShape(b) /\ Alike(chip, b)
      /\ chip.mode # "rx" \/ chip.inbox = << >> => b.inbox = chip.inbox /\ b.buffer = chip.buffer
      /\ bridge.pc = "loop"
  BY SpiFacts DEF SpiLeaves
<1>2. chip.mode = "rx" => chip.inbox = << >>
  BY <1>1 DEF OneFrame, IInv, Arrives
<1>3. ChipShape(chip) /\ chip.inbox \in Seq(Frames)
  BY DEF IInv, Shapes, Received, Fits
<1>4. /\ Clean(chip) => Clean(b)
      /\ b.rxLen = chip.rxLen /\ ("RxDone" \in b.irq <=> "RxDone" \in chip.irq)
      /\ b.inbox = chip.inbox /\ b.buffer = chip.buffer /\ b.mode = chip.mode
      /\ b.irqMask = chip.irqMask
  BY <1>1, <1>2, <1>3, TickReceived, Zenon DEF Before, Alike
<1>5. a = RunCommand(b, Command)
  BY DEF After, Command
<1>. HIDE DEF a, b
<1>6. /\ a.rxLen = b.rxLen
      /\ op # "SetDioIrqParams" => a.irqMask = b.irqMask
      /\ "RxDone" \in a.irq <=> "RxDone" \in b.irq /\ op # "ClearIrqStatus"
      /\ Clean(b) => Clean(a)
  <2>. DEFINE cmd == Command
  <2>1. \/ cmd.op \in {"GetRxBufferStatus", "GetIrqStatus", "ReadBuffer", "SetStandby",
                        "SetRx", "SetTx", "SetPacketParams", "SetDioIrqParams", "WriteBuffer"}
        \/ cmd.op = "ClearIrqStatus" /\ cmd.arg = Flags
    BY CommandKinds
  <2>2. a = RunCommand(b, cmd) /\ ChipShape(b) /\ op = cmd.op
    BY <1>1, <1>5
  <2>. HIDE DEF cmd, op
  <2>. QED
    BY <2>1, <2>2, CommandReceived
<1>7. /\ ChipShape(a) /\ a.inbox = b.inbox
      /\ op # "WriteBuffer" => a.buffer = b.buffer
      /\ op = "SetDioIrqParams" => a.irqMask = Command.arg[1]
      /\ a.mode = IF op = "SetRx" THEN "rx" ELSE IF op = "SetTx" THEN "tx"
                  ELSE IF op = "SetStandby" THEN "standby" ELSE b.mode
  <2>. DEFINE cmd == Command
  <2>0. a = RunCommand(b, cmd) /\ ChipShape(b) /\ op = cmd.op
    BY <1>1, <1>5
  <2>1. /\ \/ cmd.op \in Harmless \/ cmd.op \in {"SetStandby", "SetRx"} \/ cmd.op = "SetTx"
           \/ \/ cmd.op = "SetPacketParams" /\ cmd.arg \in 0..MaxPayload
              \/ cmd.op = "SetDioIrqParams"
              \/ cmd.op = "WriteBuffer" /\ cmd.arg[1] = 0 /\ cmd.arg[2] \in Payloads
    BY CommandKinds DEF Harmless
  <2>. HIDE DEF cmd, op
  <2>2. CASE cmd.op \in Harmless
    <3>1. ChipShape(a) /\ a.inbox = b.inbox /\ a.buffer = b.buffer /\ a.mode = b.mode
      BY <2>0, <2>2, HarmlessEffect, Zenon
    <3>. QED
      BY <2>0, <2>2, <3>1 DEF Harmless
  <2>3. CASE cmd.op \in {"SetStandby", "SetRx"}
    <3>1. /\ ChipShape(a) /\ a.inbox = b.inbox /\ a.buffer = b.buffer
          /\ a.mode = IF cmd.op = "SetRx" THEN "rx" ELSE "standby"
      BY <2>0, <2>3, StandbyEffect
    <3>. QED
      BY <2>0, <2>3, <3>1
  <2>4. CASE cmd.op = "SetTx"
    <3>1. ChipShape(a) /\ a.inbox = b.inbox /\ a.buffer = b.buffer /\ a.mode = "tx"
      BY <2>0, <2>4, SetTxEffect, Zenon
    <3>. QED
      BY <2>0, <2>4, <3>1
  <2>5. CASE \/ cmd.op = "SetPacketParams" /\ cmd.arg \in 0..MaxPayload
             \/ cmd.op = "SetDioIrqParams"
             \/ cmd.op = "WriteBuffer" /\ cmd.arg[1] = 0 /\ cmd.arg[2] \in Payloads
    <3>1. /\ ChipShape(a) /\ a.inbox = b.inbox /\ a.mode = b.mode
          /\ a.irqMask = IF cmd.op = "SetDioIrqParams" THEN cmd.arg[1] ELSE b.irqMask
          /\ a.buffer = IF cmd.op = "WriteBuffer" THEN Store(b.buffer, 0, cmd.arg[2])
                        ELSE b.buffer
      BY <2>0, <2>5, StageEffect
    <3>. QED
      BY <2>0, <2>5, <3>1 DEF cmd
  <2>. QED
    BY <2>1, <2>2, <2>3, <2>4, <2>5
<1>. HIDE DEF op
<1>8. a.inbox = chip.inbox
  BY <1>4, <1>7
<1>9. /\ ChipShape(chip') /\ Alike(a, chip')
      /\ a.mode # "rx" \/ a.inbox = << >> => chip'.inbox = a.inbox /\ chip'.buffer = a.buffer
      /\ a.mode = "rx" /\ a.inbox # << >> => chip'.inbox = Tail(a.inbox)
  BY <1>1, <1>7, TickEffect, Zenon
<1>10. /\ Clean(a) => Clean(chip')
       /\ a.mode # "rx" \/ a.inbox = << >> =>
            chip'.rxLen = a.rxLen /\ ("RxDone" \in chip'.irq <=> "RxDone" \in a.irq)
       /\ a.mode = "rx" /\ a.inbox # << >> =>
            /\ "RxDone" \in chip'.irq /\ chip'.rxLen \in 1..MaxPayload
            /\ Prefix(chip'.buffer, chip'.rxLen) = Head(a.inbox)
  BY <1>1, <1>3, <1>7, <1>8, TickReceived, Zenon
<1>11. a.mode = "rx" /\ chip.inbox # << >> <=> op = "SetRx" /\ chip.inbox # << >>
  BY <1>2, <1>4, <1>7
<1>12. chip'.mode = a.mode /\ chip'.irqMask = a.irqMask
  BY <1>9 DEF Alike
<1>13. Moves(chip'.mode)
  BY <1>4, <1>7, <1>12
<1>14. chip'.irqMask = IF op = "SetDioIrqParams" THEN Command.arg[1] ELSE chip.irqMask
  BY <1>4, <1>6, <1>7, <1>12
<1>15. op # "SetRx" \/ chip.inbox = << >> =>
         /\ chip'.inbox = chip.inbox /\ chip'.rxLen = chip.rxLen
         /\ op # "WriteBuffer" => chip'.buffer = chip.buffer
         /\ "RxDone" \in chip'.irq <=> "RxDone" \in chip.irq /\ op # "ClearIrqStatus"
  BY <1>4, <1>6, <1>7, <1>8, <1>9, <1>10, <1>11
<1>16. op = "SetRx" /\ chip.inbox # << >> =>
         /\ chip'.inbox = Tail(chip.inbox) /\ "RxDone" \in chip'.irq
         /\ chip'.rxLen \in 1..MaxPayload
         /\ Prefix(chip'.buffer, chip'.rxLen) = Head(chip.inbox)
  BY <1>8, <1>9, <1>10, <1>11
<1>17. Clean(chip) => Clean(chip')
  BY <1>4, <1>6, <1>10
<1>. QED
  BY <1>4, <1>13, <1>14, <1>15, <1>16, <1>17 DEF op, b

\* Where the firmware is when it has a command to send: a frame stands in the chip only
\* while it is being read.
LEMMA SpiStands ==
  ASSUME OneFrame, IInv, Received, Spi, "RxDone" \in chip.irq
  PROVE  /\ chip.rxLen \in 1..MaxPayload /\ chip.irqMask = RxIrqFlags /\ InStep
         /\ chip.inbox = << >>
         /\ fw.pc = "len" \/ (fw.pc = "listen" /\ fw.len = chip.rxLen)
<1>1. fw.todo # << >> /\ bridge.pc = "loop" /\ fw.pc \notin {"top", "choose", "drain"}
  BY SpiFacts DEF SpiLeaves
<1>. QED
  BY <1>1 DEF Received, Stands, Waits

LEMMA SpiReceives ==
  ASSUME OneFrame, IInv, Received, Spi
  PROVE  Received'
<1>. DEFINE op == Command.op
            rx == "RxDone" \in chip.irq
            delivers == op = "SetRx" /\ chip.inbox # << >>
            c == chip'
            p == Prefix(chip.buffer, fw.len)
<1>1. /\ fw.todo # << >> /\ fw'.pc = fw.pc /\ fw'.state = fw.state /\ fw'.ready = fw.ready
      /\ UNCHANGED <<eng, toNode, toEngine, bridge, aired>>
      /\ bridge.pc = "loop" /\ toNode = << >> /\ fw.state # "tx"
      /\ fw.state = "rx" => chip.mode = "rx"
      /\ fw.pc \in {"recv", "len", "lbt", "listen", "started", "sent"}
  BY SpiFacts DEF SpiLeaves
<1>2. /\ Clean(chip) => Clean(c)
      /\ c.irqMask = IF op = "SetDioIrqParams" THEN Command.arg[1] ELSE chip.irqMask
      /\ c.mode = CASE op = "SetRx" -> "rx" [] op = "SetTx" -> "tx"
                    [] op = "SetStandby" -> "standby" [] OTHER -> chip.mode
      /\ ~delivers =>
           /\ c.inbox = chip.inbox /\ c.rxLen = chip.rxLen
           /\ op # "WriteBuffer" => c.buffer = chip.buffer
           /\ "RxDone" \in c.irq <=> rx /\ op # "ClearIrqStatus"
      /\ delivers =>
           /\ c.inbox = Tail(chip.inbox) /\ "RxDone" \in c.irq
           /\ c.rxLen \in 1..MaxPayload /\ Prefix(c.buffer, c.rxLen) = Head(chip.inbox)
  BY SpiChip
<1>3. /\ fw'.rest = fw.rest
      /\ op = "GetRxBufferStatus" =>
           fw'.len = IF fw.pc = "len" \/ chip.rxLen < fw.len THEN chip.rxLen ELSE fw.len
      /\ op # "GetRxBufferStatus" => fw'.len = fw.len
      /\ op = "ReadBuffer" => hist'.heard = Append(hist.heard, p)
      /\ op # "ReadBuffer" => hist'.heard = hist.heard
      /\ op = "ReadBuffer" /\ rx => hist'.fresh = Append(hist.fresh, p)
      /\ ~(op = "ReadBuffer" /\ rx) => hist'.fresh = hist.fresh
  BY SpiReads, SpiChip
<1>4. rx => /\ chip.rxLen \in 1..MaxPayload /\ chip.irqMask = RxIrqFlags /\ InStep
            /\ chip.inbox = << >>
            /\ fw.pc = "len" \/ (fw.pc = "listen" /\ fw.len = chip.rxLen)
  BY SpiStands
<1>5. delivers => /\ ~rx /\ fw.pc = "started" /\ Tail(chip.inbox) = << >>
                  /\ fw.rest /\ ~bridge.last
  <2>. SUFFICES ASSUME delivers
                PROVE  /\ ~rx /\ fw.pc = "started" /\ Tail(chip.inbox) = << >>
                       /\ fw.rest /\ ~bridge.last
    OBVIOUS
  <2>1. ~rx /\ fw.rest /\ ~bridge.last
    BY <1>1 DEF Received, Waits
  <2>2. fw.pc = "started" /\ Tail(chip.inbox) = << >>
    BY CommandKinds, Delivered
  <2>. QED
    BY <2>1, <2>2
<1>6. fw.pc = "listen" => \E k \in 1..4 :
        /\ Position(ReadData, k)
        /\ op = << "GetIrqStatus", "GetRxBufferStatus", "ReadBuffer", "ClearIrqStatus" >>[k]
        /\ Staged(ReadData, 4) <=> k = 4
        /\ (fw'.todo = SubSeq(ReadData, 4, Len(ReadData))) <=> k = 3
  <2>. SUFFICES ASSUME fw.pc = "listen"
                PROVE  \E k \in 1..4 :
                  /\ Position(ReadData, k)
                  /\ op = << "GetIrqStatus", "GetRxBufferStatus", "ReadBuffer", "ClearIrqStatus" >>[k]
                  /\ Staged(ReadData, 4) <=> k = 4
                  /\ (fw'.todo = SubSeq(ReadData, 4, Len(ReadData))) <=> k = 3
    OBVIOUS
  <2>1. PICK k \in 1..4 : Position(ReadData, k)
    BY Commands
  <2>2. op = << "GetIrqStatus", "GetRxBufferStatus", "ReadBuffer", "ClearIrqStatus" >>[k]
    <3>1. Command = ReadData[k]
      BY <2>1 DEF Position
    <3>. QED
      BY <3>1 DEF ReadData, Cmd
  <2>. DEFINE s == ReadData
              S == {s[1], s[2], s[3], s[4]}
  <2>3. s \in Seq(S) /\ Len(s) = 4
    BY DEF ReadData
  <2>4. fw.todo = SubSeq(s, k, Len(s)) /\ fw'.todo = SubSeq(s, k + 1, Len(s))
    BY <2>1 DEF Position, Staged
  <2>. HIDE DEF s, S
  <2>5. k \in 1..(Len(s) + 1) /\ k + 1 \in 1..(Len(s) + 1) /\ 4 \in 1..(Len(s) + 1)
    BY <2>3
  <2>6. SubSeq(s, k, Len(s)) = SubSeq(s, 4, Len(s)) <=> k = 4
    BY <2>3, <2>5, StagedOnce
  <2>7. SubSeq(s, k + 1, Len(s)) = SubSeq(s, 4, Len(s)) <=> k = 3
    <3>. DEFINE j == k + 1
    <3>1. j \in 1..(Len(s) + 1) /\ (j = 4 <=> k = 3)
      BY <2>5
    <3>. HIDE DEF j
    <3>2. SubSeq(s, j, Len(s)) = SubSeq(s, 4, Len(s)) <=> j = 4
      BY <2>3, <2>5, <3>1, StagedOnce
    <3>. QED
      BY <3>1, <3>2 DEF j
  <2>. QED
    BY <2>1, <2>2, <2>4, <2>6, <2>7 DEF s, Staged
<1>7. Unread <=> rx /\ ~(fw.pc = "listen" /\ Staged(ReadData, 4))
  BY DEF Unread
<1>8. Unread' <=> "RxDone" \in c.irq
                    /\ ~(fw.pc = "listen" /\ fw'.todo = SubSeq(ReadData, 4, Len(ReadData)))
  BY <1>1 DEF Unread, Staged
<1>9. fw.pc = "len" => op = "GetRxBufferStatus" /\ fw'.todo = << >>
  BY Commands DEF Cmd
<1>10. fw.pc = "started" => \E k \in 1..5 :
         /\ Position(StartReceive, k)
         /\ op = << "SetStandby", "SetDioIrqParams", "ClearIrqStatus", "SetPacketParams",
                    "SetRx" >>[k]
         /\ k = 2 => Command.arg[1] = RxIrqFlags
         /\ k >= 3 => chip.irqMask = RxIrqFlags
         /\ \A j \in 3..6 : fw'.todo = SubSeq(StartReceive, j, Len(StartReceive)) => j = k + 1
  <2>. SUFFICES ASSUME fw.pc = "started"
                PROVE  \E k \in 1..5 :
                  /\ Position(StartReceive, k)
                  /\ op = << "SetStandby", "SetDioIrqParams", "ClearIrqStatus",
                             "SetPacketParams", "SetRx" >>[k]
                  /\ k = 2 => Command.arg[1] = RxIrqFlags
                  /\ k >= 3 => chip.irqMask = RxIrqFlags
                  /\ \A j \in 3..6 :
                       fw'.todo = SubSeq(StartReceive, j, Len(StartReceive)) => j = k + 1
    OBVIOUS
  <2>1. PICK k \in 1..5 : Position(StartReceive, k)
    BY Commands
  <2>2. /\ op = << "SetStandby", "SetDioIrqParams", "ClearIrqStatus", "SetPacketParams",
                   "SetRx" >>[k]
        /\ k = 2 => Command.arg[1] = RxIrqFlags
    <3>1. Command = StartReceive[k]
      BY <2>1 DEF Position
    <3>. QED
      BY <3>1 DEF StartReceive, Cmd
  <2>3. k >= 3 => chip.irqMask = RxIrqFlags
    BY <2>1 DEF Received, Masked, Position
  <2>. DEFINE s == StartReceive
              S == {s[1], s[2], s[3], s[4], s[5]}
  <2>4. s \in Seq(S) /\ Len(s) = 5
    BY DEF StartReceive
  <2>5. fw'.todo = SubSeq(s, k + 1, Len(s))
    BY <2>1 DEF Position
  <2>. HIDE DEF s, S
  <2>6. ASSUME NEW j \in 3..6, fw'.todo = SubSeq(s, j, Len(s))
        PROVE  j = k + 1
    <3>1. k + 1 \in 1..(Len(s) + 1) /\ j \in 1..(Len(s) + 1)
      BY <2>4
    <3>. QED
      BY <2>4, <2>5, <2>6, <3>1, StagedOnce
  <2>. QED
    BY <2>1, <2>2, <2>3, <2>6 DEF s
<1>11. /\ op = "ReadBuffer" => fw.pc = "listen"
       /\ op = "SetRx" => fw.pc = "started"
       /\ op = "WriteBuffer" => fw.pc = "sent"
       /\ op = "SetDioIrqParams" => fw.pc \in {"started", "sent"}
  <2>1. op = "SetDioIrqParams" => fw.pc \notin {"recv", "len", "lbt"}
    BY Commands DEF Cmd
  <2>2. op = "SetDioIrqParams" => fw.pc # "listen"
    BY <1>6
  <2>. QED
    BY <1>1, <2>1, <2>2, CommandKinds
<1>. HIDE DEF op, rx, p, c
<1>12. ~delivers /\ op = "ReadBuffer" /\ rx => Unread /\ ~Unread' /\ p = Prefix(chip.buffer, chip.rxLen)
  BY <1>4, <1>6, <1>7, <1>8, <1>11 DEF p
<1>13. ~delivers /\ ~(op = "ReadBuffer" /\ rx) => (Unread <=> Unread')
  <2>. SUFFICES ASSUME ~delivers, ~(op = "ReadBuffer" /\ rx)
                PROVE  Unread <=> Unread'
    OBVIOUS
  <2>1. CASE ~rx
    BY <1>2, <1>7, <1>8, <2>1
  <2>2. CASE rx /\ fw.pc = "len"
    BY <1>2, <1>7, <1>8, <1>9, <2>2
  <2>3. CASE rx /\ fw.pc = "listen"
    BY <1>2, <1>6, <1>7, <1>8, <2>3
  <2>. QED
    BY <1>4, <2>1, <2>2, <2>3
<1>14. p \in Seq(Bytes) \/ ~rx \/ op # "ReadBuffer"
  <2>. SUFFICES ASSUME rx, op = "ReadBuffer"
                PROVE  p \in Seq(Bytes)
    OBVIOUS
  <2>1. fw.len \in 0..MaxPayload /\ chip.buffer \in [Cells -> Bytes]
    BY <1>4, <1>11 DEF IInv, Shapes, ChipShape
  <2>2. p \in Payloads
    BY <2>1, PrefixShape, Zenon DEF p
  <2>3. PICK n \in 0..MaxPayload : p \in [1..n -> Bytes]
    BY <2>2 DEF Payloads
  <2>4. n \in Nat
    BY <2>3, BufLenAssumption DEF MaxPayload
  <2>. QED
    BY <2>3, <2>4
<1>15. Conserved'
  <2>1. eng.fed = ((hist.fresh \o Standing) \o chip.inbox) \o FramesIn(toNode)
    BY DEF Received, Conserved
  <2>2. CASE delivers
    <3>1. ((hist.fresh \o << Head(chip.inbox) >>) \o << >>) \o FramesIn(toNode) = eng.fed
      BY <2>2, Delivered
    <3>2. Standing' = << Head(chip.inbox) >>
      BY <1>2, <1>5, <1>8, <2>2 DEF Standing, c
    <3>3. hist'.fresh = hist.fresh /\ chip'.inbox = << >>
      BY <1>2, <1>3, <1>5, <2>2 DEF c
    <3>. QED
      BY <1>1, <3>1, <3>2, <3>3, Zenon DEF Conserved
  <2>3. CASE ~delivers /\ op = "ReadBuffer" /\ rx
    <3>1. Standing = << p >> /\ Standing' = << >>
      BY <1>12, <2>3 DEF Standing
    <3>2. hist'.fresh = Append(hist.fresh, p) /\ chip'.inbox = chip.inbox
      BY <1>2, <1>3, <2>3 DEF c
    <3>3. Append(hist.fresh, p) \o << >> = hist.fresh \o << p >>
      <4>. DEFINE F == Seq(Bytes)
                  s == hist.fresh
      <4>1. s \in Seq(F) /\ p \in F
        BY <1>14, <2>3, Typed
      <4>. HIDE DEF F, s
      <4>2. Append(s, p) \o << >> = s \o << p >>
        BY <4>1
      <4>. QED
        BY <4>2 DEF s
    <3>. QED
      BY <1>1, <2>1, <3>1, <3>2, <3>3, Zenon DEF Conserved
  <2>4. CASE ~delivers /\ ~(op = "ReadBuffer" /\ rx)
    <3>1. hist'.fresh = hist.fresh /\ chip'.inbox = chip.inbox /\ chip'.rxLen = chip.rxLen
      BY <1>2, <1>3, <2>4 DEF c
    <3>2. Unread => chip'.buffer = chip.buffer
      BY <1>2, <1>4, <1>7, <1>11, <2>4 DEF c
    <3>3. Standing' = Standing
      BY <1>13, <2>4, <3>1, <3>2 DEF Standing
    <3>. QED
      BY <1>1, <2>1, <3>1, <3>3, Zenon DEF Conserved
  <2>. QED
    BY <2>2, <2>3, <2>4
<1>16. Fits'
  <2>1. chip'.inbox \in Seq(Frames)
    <3>1. chip.inbox \in Seq(Frames) /\ << >> \in Seq(Frames)
      BY DEF Received, Fits
    <3>. QED
      BY <1>2, <1>5, <3>1 DEF c
  <2>2. << >> \in Seq(Fitting')
    OBVIOUS
  <2>3. hist'.fresh \in Seq(Seq(Bytes))
    <3>. DEFINE F == Seq(Bytes)
                s == hist.fresh
    <3>1. s \in Seq(F) /\ (hist'.fresh = s \/ (p \in F /\ hist'.fresh = Append(s, p)))
      BY <1>3, <1>14, Typed
    <3>. HIDE DEF F, s
    <3>2. hist'.fresh \in Seq(F)
      BY <3>1
    <3>. QED
      BY <3>2 DEF F
  <2>. QED
    BY <1>1, <2>1, <2>2, <2>3 DEF Received, Fits
<1>17. Waits'
  <2>1. c.inbox # << >> => ~delivers /\ chip.inbox # << >> /\ c.inbox = chip.inbox
    BY <1>2, <1>5
  <2>2. chip.inbox # << >> => ~rx /\ ~bridge.last /\ (fw.state # "tx" => fw.rest)
    BY <1>1 DEF Received, Waits, rx
  <2>3. c.inbox # << >> => "RxDone" \notin c.irq
    BY <1>2, <2>1, <2>2
  <2>. QED
    BY <1>1, <1>3, <2>1, <2>2, <2>3 DEF Waits, c
<1>18. c.mode = "rx" /\ fw.pc # "sent" => c.irqMask = RxIrqFlags
  <2>. SUFFICES ASSUME c.mode = "rx", fw.pc # "sent"
                PROVE  c.irqMask = RxIrqFlags
    OBVIOUS
  <2>1. CASE op = "SetRx"
    BY <1>2, <1>10, <1>11, <2>1
  <2>2. CASE op = "SetDioIrqParams"
    BY <1>2, <1>10, <1>11, <2>2
  <2>3. CASE op \notin {"SetRx", "SetDioIrqParams"}
    <3>1. chip.mode = "rx" /\ c.irqMask = chip.irqMask
      BY <1>2, <2>3
    <3>. QED
      BY <3>1 DEF Received, Masked
  <2>. QED
    BY <2>1, <2>2, <2>3
<1>19. fw.pc = "started" => \A k \in 3..6 : Staged(StartReceive, k)' => c.irqMask = RxIrqFlags
  <2>. SUFFICES ASSUME fw.pc = "started", NEW j \in 3..6,
                       fw'.todo = SubSeq(StartReceive, j, Len(StartReceive))
                PROVE  c.irqMask = RxIrqFlags
    BY DEF Staged
  <2>1. PICK k \in 1..5 :
          /\ op = << "SetStandby", "SetDioIrqParams", "ClearIrqStatus", "SetPacketParams",
                     "SetRx" >>[k]
          /\ k = 2 => Command.arg[1] = RxIrqFlags
          /\ k >= 3 => chip.irqMask = RxIrqFlags
          /\ j = k + 1
    BY <1>10
  <2>. QED
    BY <1>2, <2>1
<1>20. Masked'
  BY <1>1, <1>18, <1>19 DEF Masked, c
<1>21. Stands'
  <2>. SUFFICES ASSUME "RxDone" \in c.irq
                PROVE  Stands'
    BY DEF Stands, c
  <2>1. CASE delivers
    <3>1. fw'.todo = << >> /\ c.irqMask = RxIrqFlags
      BY <1>2, <1>5, <1>10, <2>1, Commands DEF Position
    <3>. QED
      BY <1>1, <1>2, <1>3, <1>5, <2>1, <3>1 DEF Stands, InStep, c
  <2>2. CASE ~delivers
    <3>1. rx /\ op # "ClearIrqStatus" /\ c.rxLen = chip.rxLen
      BY <1>2, <2>2
    <3>2. c.rxLen \in 1..MaxPayload /\ c.irqMask = RxIrqFlags /\ fw.pc \in {"len", "listen"}
      BY <1>2, <1>4, <1>11, <3>1
    <3>3. CASE fw.pc = "len"
      <4>1. fw'.len = chip.rxLen
        BY <1>3, <1>9, <3>3
      <4>. QED
        BY <1>1, <3>1, <3>2, <3>3, <4>1 DEF Stands, InStep, c
    <3>4. CASE fw.pc = "listen"
      <4>1. fw'.len = chip.rxLen
        BY <1>3, <1>4, <3>1, <3>4
      <4>2. fw'.todo # << >>
        BY <1>6, <3>1, <3>4, Commands DEF Position
      <4>. QED
        BY <1>1, <3>1, <3>2, <3>4, <4>1, <4>2 DEF Stands, InStep, c
    <3>. QED
      BY <3>2, <3>3, <3>4
  <2>. QED
    BY <2>1, <2>2
<1>22. Hears'
  <2>. SUFFICES ASSUME ~ReportsBusy
                PROVE  Hears'
    BY DEF Hears
  <2>1. /\ Clean(chip) /\ hist.heard = hist.fresh
        /\ fw.pc = "lbt" => ~fw.ready
        /\ fw.pc = "recv" /\ fw.ready => rx
        /\ fw.pc \in {"len", "listen"} => rx
    BY <1>1 DEF Received, Hears, rx
  <2>2. ~(fw.pc = "recv" /\ fw.ready)
    BY <1>4, <2>1
  <2>3. fw.pc = "len" => "RxDone" \in c.irq
    BY <1>2, <1>5, <1>9, <2>1
  <2>4. fw.pc = "listen" /\ fw'.todo # << >> => "RxDone" \in c.irq
    BY <1>2, <1>5, <1>6, <2>1, Commands DEF Position
  <2>5. hist'.heard = hist'.fresh
    BY <1>3, <1>11, <2>1
  <2>. QED
    BY <1>1, <1>2, <2>1, <2>2, <2>3, <2>4, <2>5 DEF Hears, c
<1>. QED
  BY <1>15, <1>16, <1>17, <1>20, <1>21, <1>22 DEF Received

LEMMA InitReceives == Init => Received
<1>. SUFFICES ASSUME Init
              PROVE  Received
  OBVIOUS
<1>1. /\ eng.fed = << >> /\ toNode = << >> /\ fw.pc = "drain" /\ fw.state = "idle" /\ fw.rest
      /\ ~fw.ready /\ hist.fresh = << >> /\ hist.heard = << >> /\ bridge.pc = "read"
  BY DEF Init, EngineInit, MeshCoreInit
<1>2. chip.mode = "standby" /\ chip.irq = {} /\ chip.inbox = << >>
  BY BootedChip, Zenon DEF Init
<1>3. chip.irqMask = {} /\ chip.channelBusy = FALSE
  BY DEF Init, PowerOn
<1>4. Conserved
  BY <1>1, <1>2, FramesInNone DEF Conserved, Standing, Unread
<1>5. Fits
  <2>1. << >> \in Seq(Frames) /\ << >> \in Seq(Fitting) /\ << >> \in Seq(Seq(Bytes))
    OBVIOUS
  <2>. QED
    BY <1>1, <1>2, <2>1 DEF Fits
<1>6. Waits /\ Masked
  BY <1>1, <1>2, <1>3 DEF Waits, Masked
<1>7. Stands
  BY <1>2 DEF Stands
<1>8. Hears
  BY <1>1, <1>2, <1>3 DEF Hears, Clean
<1>. QED
  BY <1>4, <1>5, <1>6, <1>7, <1>8 DEF Received

LEMMA ReceivedStep ==
  ASSUME OneFrame, IInv, Received, [Next]_vars
  PROVE  Received'
<1>1. CASE UNCHANGED vars
  <2>. USE <1>1 DEF vars, mainVars, engineVars
  <2>1. Unread' = Unread /\ Standing' = Standing /\ Fitting' = Fitting
    BY DEF Unread, Standing, Staged, Fitting
  <2>2. Conserved' /\ Fits' /\ Waits'
    BY <2>1, Zenon DEF Received, Conserved, Fits, Waits
  <2>3. Masked' /\ Stands' /\ Hears'
    BY DEF Received, Masked, Staged, Stands, InStep, Hears, Clean
  <2>. QED
    BY <2>2, <2>3 DEF Received
<1>. QED
  BY <1>1, EngineReceives, ReadFrameReceives, ReadMessageReceives, BeginMsReceives,
     EndLoopReceives, SpiReceives, LoopReceives DEF Next, Node, Finished

LEMMA Reception ==
  ASSUME OneFrame
  PROVE  Spec => []Received
<1>1. IInv /\ Received /\ [Next]_vars => Received'
  BY ReceivedStep
<1>. QED
  BY Invariance, InitReceives, <1>1, PTL DEF Spec

\* If the engine delivers one frame before a tick at most, and frames the chip's length
\* byte can tell, none is lost, torn or reordered on its way to the firmware.
THEOREM NothingLost ==
  ASSUME OneFrame
  PROVE  Spec => []FramesConserved
<1>1. IInv /\ Received => FramesConserved
  <2>. SUFFICES ASSUME IInv, Received, Between
                PROVE  eng.fed = hist.fresh
                         \o (IF "RxDone" \in chip.irq
                             THEN << Prefix(chip.buffer, chip.rxLen) >> ELSE << >>)
                         \o chip.inbox \o FramesIn(toNode)
    BY DEF FramesConserved
  <2>1. fw.pc = "drain"
    BY DEF IInv, States, Between
  <2>2. Standing = IF "RxDone" \in chip.irq
                   THEN << Prefix(chip.buffer, chip.rxLen) >> ELSE << >>
    BY <2>1 DEF Standing, Unread
  <2>. QED
    BY <2>2, Zenon DEF Received, Conserved
<1>. QED
  BY Invariance, Reception, <1>1, PTL

-----------------------------------------------------------------------------
\* The node is a radio service.

\* What the service sees of a step: the frames sent and gone out, whether one is being
\* sent, the frames delivered and those heard.
Seen(sent, out, sending, fed, heard) ==
  /\ hist'.sent = sent /\ aired' = out /\ Sending' = sending
  /\ eng'.fed = fed /\ hist'.heard = heard

Stutters == Seen(hist.sent, aired, Sending, eng.fed, hist.heard)

\* The steps of the service, as the node takes them.
Serves ==
  \/ Stutters
  \/ ~Sending /\ \E f \in OutFrames :
       Seen(Append(hist.sent, f), aired, TRUE, eng.fed, hist.heard)
  \/ /\ Len(aired) < Len(hist.sent)
     /\ Seen(hist.sent, Append(aired, hist.sent[Len(aired) + 1]), Sending, eng.fed, hist.heard)
  \/ /\ Sending /\ aired = hist.sent
     /\ Seen(hist.sent, aired, FALSE, eng.fed, hist.heard)
  \/ \E f \in Frames : Seen(hist.sent, aired, Sending, Append(eng.fed, f), hist.heard)
  \/ /\ Len(hist.heard) < Len(eng.fed)
     /\ Seen(hist.sent, aired, Sending, eng.fed,
             Append(hist.heard, eng.fed[Len(hist.heard) + 1]))

LEMMA ServiceSteps ==
  ASSUME Serves
  PROVE  [Service!Next]_(Service!vars)
<1>1. CASE Stutters
  BY <1>1 DEF Stutters, Seen, Service!vars
<1>2. CASE ~Sending /\ \E f \in OutFrames :
             Seen(Append(hist.sent, f), aired, TRUE, eng.fed, hist.heard)
  <2>1. Service!Send
    BY <1>2 DEF Seen, Service!Send
  <2>. QED
    BY <2>1 DEF Service!Next
<1>3. CASE /\ Len(aired) < Len(hist.sent)
           /\ Seen(hist.sent, Append(aired, hist.sent[Len(aired) + 1]), Sending, eng.fed,
                   hist.heard)
  <2>1. Service!Air
    BY <1>3 DEF Seen, Service!Air
  <2>. QED
    BY <2>1 DEF Service!Next
<1>4. CASE /\ Sending /\ aired = hist.sent
           /\ Seen(hist.sent, aired, FALSE, eng.fed, hist.heard)
  <2>1. Service!EndSend
    BY <1>4 DEF Seen, Service!EndSend
  <2>. QED
    BY <2>1 DEF Service!Next
<1>5. CASE \E f \in Frames : Seen(hist.sent, aired, Sending, Append(eng.fed, f), hist.heard)
  <2>1. Service!Feed
    BY <1>5 DEF Seen, Service!Feed
  <2>. QED
    BY <2>1 DEF Service!Next
<1>6. CASE /\ Len(hist.heard) < Len(eng.fed)
           /\ Seen(hist.sent, aired, Sending, eng.fed,
                   Append(hist.heard, eng.fed[Len(hist.heard) + 1]))
  <2>1. Service!Hear
    BY <1>6 DEF Seen, Service!Hear
  <2>. QED
    BY <2>1 DEF Service!Next
<1>. QED
  BY <1>1, <1>2, <1>3, <1>4, <1>5, <1>6 DEF Serves

LEMMA EngineServes ==
  ASSUME IInv, EngineTurn
  PROVE  Serves
<1>1. UNCHANGED <<fw, hist, aired>> /\ EngineStep
  BY DEF EngineTurn, mainVars
<1>2. DOMAIN eng = EngineFields
  BY DEF IInv, Shapes
<1>3. CASE GiveFrame
  <2>1. PICK f \in Frames : eng' = [eng EXCEPT !.given = @ + 1, !.fed = Append(@, f)]
    BY <1>3 DEF GiveFrame
  <2>2. eng'.fed = Append(eng.fed, f)
    BY <1>2, <2>1, Zenon DEF EngineFields
  <2>. QED
    BY <1>1, <2>2 DEF Serves, Seen, Sending
<1>4. CASE TellTxDone \/ TellChannel \/ TellOdd \/ SendTick
  <2>1. eng'.fed = eng.fed
    BY <1>2, <1>4, Zenon DEF TellTxDone, TellChannel, TellOdd, SendTick, EngineFields
  <2>. QED
    BY <1>1, <2>1 DEF Serves, Stutters, Seen, Sending
<1>5. CASE HearNode
  <2>. DEFINE m == Head(toEngine)
  <2>1. \/ eng' = [eng EXCEPT !.waves = @ + 1]
        \/ eng' = [eng EXCEPT !.waiting = FALSE, !.acked = m.at]
        \/ eng' = eng
    BY <1>5, Zenon DEF HearNode
  <2>2. eng'.fed = eng.fed
    BY <1>2, <2>1, Zenon DEF EngineFields
  <2>. QED
    BY <1>1, <2>2 DEF Serves, Stutters, Seen, Sending
<1>. QED
  BY <1>1, <1>3, <1>4, <1>5 DEF EngineStep

\* What the loop of the bridge does but for reading, a chip drained goes out.
LEMMA BridgeServes ==
  ASSUME OneFrame, IInv,
         \/ ReadFrame \/ ReadTxDone \/ ReadChannel \/ ReadOriginate \/ ReadUnknown \/ ReadTick
         \/ BeginMs \/ EndLoop
  PROVE  Serves
<1>1. CASE ReadFrame \/ ReadTxDone \/ ReadChannel \/ ReadOriginate \/ ReadUnknown \/ ReadTick
  <2>1. UNCHANGED <<eng, fw, hist, aired>>
    BY <1>1 DEF ReadFrame, ReadTxDone, ReadChannel, ReadOriginate, ReadUnknown, ReadTick, Take
  <2>. QED
    BY <2>1 DEF Serves, Stutters, Seen, Sending
<1>2. CASE BeginMs
  <2>1. /\ UNCHANGED <<eng, hist, aired>> /\ bridge.pc = "step"
        /\ \E r : fw' = [fw EXCEPT !.pc = "top", !.ready = r]
    BY <1>2 DEF BeginMs, engineVars
  <2>2. DOMAIN fw = FwFields /\ fw.pc = "drain"
    BY <2>1 DEF IInv, Shapes, States
  <2>3. fw'.pc = "top" /\ fw'.state = fw.state
    BY <2>1, <2>2, Zenon DEF FwFields
  <2>. QED
    BY <2>1, <2>2, <2>3 DEF Serves, Stutters, Seen, Sending
<1>3. CASE EndLoop
  <2>1. UNCHANGED <<eng, fw, hist>>
    BY <1>3 DEF EndLoop, EndLoopWith
  <2>2. CASE ~chip.hasPendingTx
    <3>1. aired' = aired
      BY <1>3, <2>2 DEF EndLoop, EndLoopWith
    <3>. QED
      BY <2>1, <3>1 DEF Serves, Stutters, Seen, Sending
  <2>3. CASE chip.hasPendingTx
    <3>. DEFINE s == hist.sent
                n == Len(s)
    <3>1. aired' = Append(aired, chip.pendingTx)
      BY <1>3, <2>3 DEF EndLoop, EndLoopWith
    <3>2. s # << >> /\ aired = SubSeq(s, 1, n - 1) /\ chip.pendingTx = s[n]
      BY <2>3 DEF IInv, GoesOut, OneFrame, Last
    <3>3. n \in Nat /\ n # 0
      BY <3>2, EmptySeq DEF IInv, Shapes
    <3>4. Len(aired) = n - 1
      BY <3>2, <3>3 DEF IInv, Shapes
    <3>5. Len(aired) < n /\ Len(aired) + 1 = n
      BY <3>3, <3>4
    <3>. HIDE DEF n
    <3>6. aired' = Append(aired, s[Len(aired) + 1])
      BY <3>1, <3>2, <3>5
    <3>. QED
      BY <2>1, <3>5, <3>6 DEF Serves, Seen, Sending, n
  <2>. QED
    BY <2>2, <2>3
<1>. QED
  BY <1>1, <1>2, <1>3

\* What the firmware reads of the chip's buffer is the next frame it was delivered: what
\* it will have read is the beginning of what was delivered.
LEMMA SpiServes ==
  ASSUME OneFrame, ~ReportsBusy, IInv, Received, Spi, Received'
  PROVE  Serves
<1>1. /\ fw'.pc = fw.pc /\ fw'.state = fw.state /\ hist'.sent = hist.sent
      /\ UNCHANGED <<eng, toNode, aired>> /\ toNode = << >>
  BY SpiFacts DEF SpiLeaves
<1>2. CASE hist'.heard = hist.heard
  BY <1>1, <1>2 DEF Serves, Stutters, Seen, Sending
<1>3. CASE hist'.heard # hist.heard
  <2>. DEFINE a == hist.heard
              b == hist'.heard
              q == Prefix(Before.buffer, fw.len)
              p == Prefix(chip'.buffer, chip'.rxLen)
              F == Seq(Bytes) \cup {p}
              s == Standing'
              c == chip'.inbox
              fed == eng.fed
  <2>1. b = Append(a, q)
    BY <1>3, SpiReads
  <2>2. a = hist.fresh /\ b = hist'.fresh
    BY DEF Received, Hears
  <2>3. a \in Seq(Seq(Bytes)) /\ b \in Seq(Seq(Bytes)) /\ c \in Seq(Frames)
    BY <2>2 DEF Received, Fits
  <2>4. b \in Seq(F) /\ c \in Seq(F)
    <3>1. Seq(Bytes) \subseteq F /\ Frames \subseteq F
      BY NodeAssumption
    <3>. HIDE DEF F, b, c
    <3>. QED
      BY <2>3, <3>1
  <2>5. s \in Seq(F)
    <3>1. p \in F
      OBVIOUS
    <3>2. s = << p >> \/ s = << >>
      BY DEF Standing
    <3>3. ASSUME NEW G, NEW x \in G
          PROVE  << x >> \in Seq(G) /\ << >> \in Seq(G)
      OBVIOUS
    <3>4. << p >> \in Seq(F) /\ << >> \in Seq(F)
      BY <3>1, <3>3
    <3>. HIDE DEF F, p, s
    <3>. QED
      BY <3>2, <3>4
  <2>6. fed = ((b \o s) \o c) \o << >>
    BY <1>1, <2>2, FramesInNone, Zenon DEF Received, Conserved
  <2>7. Len(a) \in Nat /\ Len(b) = Len(a) + 1 /\ b[Len(a) + 1] = q
    <3>. HIDE DEF a, b, q
    <3>1. \A i \in 1..(Len(a) + 1) : Append(a, q)[i] = IF i = Len(a) + 1 THEN q ELSE a[i]
      BY <2>3
    <3>. QED
      BY <2>1, <2>3, <3>1
  <2>. HIDE DEF a, b, q, p, s, c, F
  <2>8. Len(b) <= Len(fed) /\ fed[Len(b)] = b[Len(b)]
    <3>. DEFINE bs == b \o s
                bsc == bs \o c
                n == Len(b)
    <3>1. /\ bs \in Seq(F) /\ Len(bs) = n + Len(s) /\ \A i \in 1..n : bs[i] = b[i]
          /\ n \in Nat /\ Len(s) \in Nat /\ Len(c) \in Nat /\ n \in 1..n
      BY <2>4, <2>5, <2>7
    <3>. HIDE DEF bs
    <3>2. bsc \in Seq(F) /\ Len(bsc) = Len(bs) + Len(c) /\ \A i \in 1..Len(bs) : bsc[i] = bs[i]
      <4>1. ASSUME NEW G, NEW u \in Seq(G), NEW v \in Seq(G)
            PROVE  /\ u \o v \in Seq(G) /\ Len(u \o v) = Len(u) + Len(v)
                   /\ \A i \in 1..Len(u) : (u \o v)[i] = u[i]
        OBVIOUS
      <4>. QED
        BY ONLY <2>4, <3>1, <4>1, Zenon DEF bsc
    <3>. HIDE DEF bsc
    <3>3. fed = bsc
      BY <2>6, <3>2 DEF bs, bsc
    <3>. HIDE DEF n
    <3>4. n <= Len(bs) /\ n \in 1..Len(bs) /\ Len(bs) <= Len(bsc)
      BY <3>1, <3>2
    <3>5. bsc[n] = b[n]
      BY <3>1, <3>2, <3>4
    <3>6. n <= Len(bsc)
      BY <3>1, <3>2, <3>4
    <3>. QED
      BY <3>3, <3>5, <3>6 DEF n
  <2>9. Len(a) < Len(fed) /\ q = fed[Len(a) + 1]
    <3>1. Len(fed) \in Nat
      <4>1. fed \in Seq(Frames)
        BY DEF Received, Fits
      <4>. HIDE DEF fed
      <4>. QED
        BY <4>1
    <3>. HIDE DEF fed
    <3>. QED
      BY <2>7, <2>8, <3>1
  <2>10. Len(a) < Len(fed) /\ b = Append(a, fed[Len(a) + 1])
    BY <2>1, <2>9
  <2>. QED
    BY <1>1, <2>10 DEF Serves, Seen, Sending, a, b
<1>. QED
  BY <1>2, <1>3

LEMMA LoopServes ==
  ASSUME OneFrame, IInv, Loop
  PROVE  Serves
<1>1. /\ Decided /\ hist'.heard = hist.heard /\ bridge.pc = "loop"
      /\ UNCHANGED <<aired, eng>>
  BY Decisions
<1>2. /\ fw.pc \in {"recv", "len", "listen"} => fw.state # "tx"
      /\ fw.pc = "started" => fw.state = "idle"
      /\ fw.pc \in {"choose", "lbt", "sent"} => fw.state = "rx"
      /\ DOMAIN fw = FwFields /\ DOMAIN hist = HistFields
  BY DEF IInv, States, Shapes
<1>3. fw.pc = "top" => aired = hist.sent
  BY DEF IInv, Airs, GoesOut, OneFrame
<1>4. CASE Decide
  <2>1. fw.pc = "lbt" /\ ~Sending
    BY <1>2, <1>4 DEF Decide, At, Sending
  <2>2. CASE hist' = hist /\ fw' = [fw EXCEPT !.pc = "drain"]
    <3>1. fw'.pc = "drain" /\ fw'.state = fw.state
      BY <1>2, <2>2, Zenon DEF FwFields
    <3>. QED
      BY <1>1, <2>1, <2>2, <3>1 DEF Serves, Stutters, Seen, Sending
  <2>3. ASSUME NEW f \in OutFrames, hist' = [hist EXCEPT !.sent = Append(@, f)],
               fw' = [fw EXCEPT !.pc = "sent", !.todo = StartTransmit(f)]
        PROVE  Serves
    <3>1. hist'.sent = Append(hist.sent, f)
      BY <1>2, <2>3, Zenon DEF HistFields
    <3>2. fw'.pc = "sent"
      BY <1>2, <2>3, Zenon DEF FwFields
    <3>3. Sending' = TRUE
      BY <3>2 DEF Sending
    <3>. QED
      BY <1>1, <2>1, <3>1, <3>3 DEF Serves, Seen
  <2>. QED
    BY <1>4, <2>2, <2>3 DEF Decide
<1>5. CASE ~Decide
  <2>1. hist' = hist /\ fw.pc # "lbt"
    BY <1>5 DEF Loop, Dispatcher, NotSending, SendOver, StillSending, Collect,
                NothingToCollect, ReadPacket, Listen, Started, NothingToSend, ListenFirst,
                Sent, At
  <2>2. \/ Sending' = Sending
        \/ fw.pc = "top" /\ Sending /\ Sending' = FALSE
    BY <1>1, <1>2, <2>1 DEF Decided, Becomes, Sending
  <2>. QED
    BY <1>1, <1>3, <2>1, <2>2 DEF Serves, Stutters, Seen
<1>. QED
  BY <1>4, <1>5

LEMMA NodeServes ==
  ASSUME OneFrame, ~ReportsBusy, IInv, Received, Received', [Next]_vars
  PROVE  [Service!Next]_(Service!vars)
<1>1. CASE UNCHANGED vars
  BY <1>1 DEF vars, mainVars, engineVars, Sending, Service!vars
<1>2. CASE Next /\ ~UNCHANGED vars
  <2>1. Serves
    BY <1>2, EngineServes, BridgeServes, SpiServes, LoopServes DEF Next, Node, Finished
  <2>. QED
    BY <2>1, ServiceSteps
<1>. QED
  BY <1>1, <1>2

\* Where no other station keeps the channel busy and the engine delivers one frame before
\* a tick, a native node is the radio service its firmware counts on: what is accepted for
\* sending goes on the air once, whole and in order, and what the air delivers is heard so.
THEOREM IsRadioService ==
  ASSUME OneFrame, ~ReportsBusy
  PROVE  Spec => KeepsService
<1>1. Init => Service!Init
  <2>. SUFFICES ASSUME Init
                PROVE  Service!Init
    OBVIOUS
  <2>1. /\ hist.sent = << >> /\ hist.heard = << >> /\ eng.fed = << >> /\ aired = << >>
        /\ fw.state = "idle" /\ fw.pc = "drain"
    BY DEF Init, MeshCoreInit, EngineInit
  <2>. QED
    BY <2>1 DEF Service!Init, Sending
<1>2. IInv /\ Received /\ Received' /\ [Next]_vars => [Service!Next]_(Service!vars)
  BY NodeServes
<1>. QED
  BY Invariance, Reception, <1>1, <1>2, PTL DEF Spec, KeepsService, Service!Spec
=============================================================================
