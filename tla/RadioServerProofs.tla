---------------------------- MODULE RadioServerProofs ----------------------------
(***************************************************************************)
(* What holds of an emulated node and its engine for every buffer size,    *)
(* modem table, set of frames, tick length and bound, whatever is served   *)
(* between two bytes of a command: the driver and the chip it believes in, *)
(* what listen-before-talk reads, and the way of a frame to the engine.    *)
(***************************************************************************)
EXTENDS RadioServer, SequenceLemmas, TLAPS

\* The fields of a chip, of the engine, of the firmware, of the history and of the
\* emulator; those the arguments below look into have a type as well.
Fields ==
  {"mode", "irq", "irqMask", "buffer", "rxLen", "txLen", "hasPendingTx", "pendingTx",
   "inbox", "modem", "rxGain", "fem", "femAtTx", "now", "channelBusy", "busySince",
   "preambleRaised", "headerRaised", "irqReads", "busyReads", "busyMs",
   "nextSpurious", "spuriousRaises"}

ChipShape(c) ==
  /\ DOMAIN c = Fields
  /\ c.txLen \in 0..MaxPayload /\ c.hasPendingTx \in BOOLEAN
  /\ c.buffer \in [Cells -> Bytes] /\ c.pendingTx \in Payloads
  /\ c.inbox \in Seq(Seq(Bytes))

EngineFields == {"waiting", "acked", "waves", "given", "told", "busy", "fed"}
FwFields == {"pc", "todo", "state", "ready", "len", "seen", "rest"}
HistFields == {"sent", "heard", "fresh", "up"}

ToNode ==
  [kind : {"Frame"}, frame : Seq(Bytes)] \cup [kind : {"TxDone"}]
    \cup [kind : {"ChannelBusy"}, busy : BOOLEAN] \cup [kind : {"Originate", "Unknown"}]
    \cup [kind : {"Tick"}, at : Nat]
ToEngine ==
  [kind : {"Frame"}, frame : Payloads] \cup [kind : {"Stats"}]
    \cup [kind : {"Ack"}, at : Nat]

Shapes ==
  /\ ChipShape(chip) /\ sim \in Nat /\ aired \in Seq(Payloads)
  /\ DOMAIN eng = EngineFields /\ eng.fed \in Seq(Frames)
  /\ eng.waiting \in BOOLEAN /\ eng.acked \in Nat /\ eng.waves \in Nat
  /\ toNode \in Seq(ToNode) /\ toEngine \in Seq(ToEngine)
  /\ DOMAIN txn = {"cmd", "n"} /\ txn.n \in Nat
  /\ DOMAIN mcu = {"selected", "reply", "pin"} /\ mcu.selected \in BOOLEAN
  /\ DOMAIN fw = FwFields /\ fw.ready \in BOOLEAN /\ fw.state \in {"idle", "rx", "tx"}
  /\ DOMAIN hist = HistFields /\ hist.sent \in Seq(OutFrames)

-----------------------------------------------------------------------------
\* The operators on the chip.

\* What is written into the buffer leaves it a buffer.
LEMMA StoreShape ==
  ASSUME NEW mem \in [Cells -> Bytes], NEW at \in Cells, NEW bytes \in Seq(Bytes)
  PROVE  Store(mem, at, bytes) \in [Cells -> Bytes]
<1>. SUFFICES ASSUME NEW i \in Cells, at <= i, i < at + Len(bytes)
              PROVE  bytes[i - at + 1] \in Bytes
  BY DEF Store
<1>1. i - at + 1 \in 1..Len(bytes)
  BY BufLenAssumption DEF Cells
<1>. QED
  BY <1>1

\* What is read out of it is a payload.
LEMMA PrefixShape ==
  ASSUME NEW mem \in [Cells -> Bytes], NEW n \in 0..MaxPayload
  PROVE  Prefix(mem, n) \in Payloads
<1>1. \A i \in 1..n : i - 1 \in Cells
  BY BufLenAssumption DEF Cells, MaxPayload
<1>2. Prefix(mem, n) \in [1..n -> Bytes]
  BY <1>1 DEF Prefix
<1>. QED
  BY <1>2 DEF Payloads

\* A frame may be empty.
LEMMA EmptyPayload == << >> \in Payloads
<1>1. 0 \in 0..MaxPayload
  BY BufLenAssumption DEF MaxPayload
<1>2. << >> \in [1..0 -> Bytes]
  OBVIOUS
<1>. QED
  BY <1>1, <1>2 DEF Payloads

\* What was staged is what is read out.
LEMMA StagedPrefix ==
  ASSUME NEW mem, NEW f \in Payloads
  PROVE  Prefix(Store(mem, 0, f), Len(f)) = f
<1>1. PICK n \in 0..MaxPayload : f \in [1..n -> Bytes]
  BY DEF Payloads
<1>2. n \in Nat /\ Len(f) = n
  BY <1>1, BufLenAssumption DEF MaxPayload
<1>3. \A i \in 1..n : /\ i - 1 \in Cells /\ 0 <= i - 1 /\ i - 1 < 0 + n
                      /\ i - 1 - 0 + 1 = i
  BY <1>2, BufLenAssumption DEF Cells, MaxPayload
<1>4. \A i \in 1..n : Store(mem, 0, f)[i - 1] = f[i]
  BY <1>2, <1>3 DEF Store
<1>. QED
  BY <1>1, <1>2, <1>4 DEF Prefix

\* What neither time nor the channel nor a frame that arrives touches.
Alike(c, d) ==
  /\ ChipShape(d)
  /\ d.mode = c.mode /\ d.irqMask = c.irqMask /\ d.txLen = c.txLen
  /\ d.hasPendingTx = c.hasPendingTx /\ d.pendingTx = c.pendingTx
  /\ "TxDone" \in d.irq <=> "TxDone" \in c.irq
  /\ "Timeout" \in d.irq <=> "Timeout" \in c.irq

\* Nor time the buffer, unless a frame waits in the inbox.
Calm(c, d) ==
  /\ Alike(c, d)
  /\ c.inbox = << >> => d.inbox = << >> /\ d.buffer = c.buffer

\* The elapsed time and the faulty chip's own preamble.
LEMMA SpuriousIsCalm ==
  ASSUME NEW c, ChipShape(c), NEW t
  PROVE  Calm(c, Spurious(Elapse(c, t)))
<1>. DEFINE d == Elapse(c, t)
<1>1. ChipShape(d) /\ Calm(c, d)
  BY Zenon DEF Elapse, ChipShape, Fields, Calm, Alike
<1>. HIDE DEF d
<1>2. \A S : /\ "TxDone" \in S \cup {"Preamble"} <=> "TxDone" \in S
             /\ "Timeout" \in S \cup {"Preamble"} <=> "Timeout" \in S
  OBVIOUS
<1>3. Calm(d, Spurious(d))
  BY <1>1, <1>2, Zenon DEF Spurious, ChipShape, Fields, Calm, Alike
<1>4. Calm(c, Spurious(d))
  BY <1>1, <1>3, Zenon DEF Calm, Alike
<1>. QED
  BY <1>4 DEF d

\* A signal detected.
LEMMA DetectIsCalm ==
  ASSUME NEW c, ChipShape(c)
  PROVE  Calm(c, Detect(c))
<1>. DEFINE preamble == /\ c.channelBusy /\ ~c.preambleRaised
                        /\ c.now - c.busySince >= PreambleMs[c.modem]
            header == /\ c.channelBusy /\ ~c.headerRaised
                      /\ c.now - c.busySince >= HeaderMs[c.modem]
            flags == c.irq \cup (IF preamble THEN {"Preamble"} ELSE {})
                           \cup (IF header THEN {"Header", "SyncWord"} ELSE {})
            p == c.preambleRaised \/ preamble
            h == c.headerRaised \/ header
<1>1. Detect(c) = [c EXCEPT !.irq = flags, !.preambleRaised = p, !.headerRaised = h]
  BY Zenon DEF Detect
<1>2. /\ "TxDone" \in flags <=> "TxDone" \in c.irq
      /\ "Timeout" \in flags <=> "Timeout" \in c.irq
  <2>. HIDE DEF preamble, header
  <2>. QED
    OBVIOUS
<1>. HIDE DEF flags, p, h
<1>. QED
  BY <1>1, <1>2, Zenon DEF ChipShape, Fields, Calm, Alike

\* A frame moved from the inbox into the buffer.
LEMMA DeliverIsCalm ==
  ASSUME NEW c, ChipShape(c)
  PROVE  Calm(c, Deliver(c))
<1>1. CASE c.inbox = << >>
  BY <1>1, Zenon DEF Deliver, Calm, Alike
<1>2. CASE c.inbox # << >>
  <2>. DEFINE f == Head(c.inbox)
              n == RxLength(f)
              mem == Store(c.buffer, 0, SubSeq(f, 1, n))
              rest == Tail(c.inbox)
              flags == c.irq \cup {"RxDone", "Preamble", "Header", "SyncWord"}
  <2>1. c.inbox \in Seq(Seq(Bytes)) /\ c.buffer \in [Cells -> Bytes]
    BY DEF ChipShape
  <2>2. f \in Seq(Bytes) /\ rest \in Seq(Seq(Bytes))
    BY <1>2, <2>1
  <2>3. n \in 0..MaxPayload /\ n <= Len(f)
    BY <2>2, BufLenAssumption DEF RxLength, MaxPayload
  <2>4. SubSeq(f, 1, n) \in Seq(Bytes)
    BY <2>2, <2>3, SubSeqProperties DEF MaxPayload
  <2>5. mem \in [Cells -> Bytes]
    <3>1. 0 \in Cells
      BY BufLenAssumption DEF Cells
    <3>. HIDE DEF f, n
    <3>. QED
      BY <2>1, <2>4, <3>1, StoreShape, Zenon
  <2>6. /\ "TxDone" \in flags <=> "TxDone" \in c.irq
        /\ "Timeout" \in flags <=> "Timeout" \in c.irq
    OBVIOUS
  <2>7. Deliver(c) = [c EXCEPT !.rxLen = n, !.buffer = mem, !.inbox = rest, !.irq = flags]
    BY <1>2, Zenon DEF Deliver
  <2>. HIDE DEF f, n, mem, flags
  <2>. QED
    BY <1>2, <2>2, <2>5, <2>6, <2>7, Zenon DEF ChipShape, Fields, Calm, Alike
<1>. QED
  BY <1>1, <1>2

LEMMA TickIsCalm ==
  ASSUME NEW c, ChipShape(c), NEW t
  PROVE  Calm(c, Tick(c, t))
<1>. DEFINE d == Spurious(Elapse(c, t))
            e == Deliver(d)
<1>1. Tick(c, t) = IF d.mode = "rx" THEN Detect(e) ELSE d
  BY Zenon DEF Tick
<1>2. Calm(c, d)
  BY SpuriousIsCalm
<1>. HIDE DEF d
<1>3. Calm(d, e)
  BY <1>2, DeliverIsCalm DEF Calm, Alike
<1>. HIDE DEF e
<1>4. Calm(e, Detect(e))
  BY <1>3, DetectIsCalm DEF Calm, Alike
<1>5. Calm(c, Detect(e))
  BY <1>2, <1>3, <1>4, Zenon DEF Calm, Alike
<1>. QED
  BY <1>1, <1>2, <1>5, Zenon

-----------------------------------------------------------------------------
\* Many milliseconds.

\* A chip stepped from one time to another.
Runs(f, c, from, to) ==
  f = [t \in from..to |-> IF t = from THEN c ELSE Tick(f[t - 1], t)]

LEMMA RunsOn ==
  ASSUME NEW c, NEW from \in Nat, NEW n \in Nat, NEW f, Runs(f, c, from, from + n)
  PROVE  \E g : Runs(g, c, from, from + n + 1)
<1>. DEFINE last == from + n + 1
            g == [t \in from..last |-> IF t = last THEN Tick(f[from + n], last) ELSE f[t]]
            h == [t \in from..last |-> IF t = from THEN c ELSE Tick(g[t - 1], t)]
<1>1. /\ last - 1 = from + n /\ last # from /\ last \in from..last
      /\ \A t \in from..last : t # last => t \in from..(from + n)
      /\ \A t \in from..last : t # from => t - 1 \in from..(from + n)
      /\ \A t \in from..(from + n) : t \in from..last /\ t # last
  OBVIOUS
<1>2. \A t \in from..(from + n) : f[t] = IF t = from THEN c ELSE Tick(f[t - 1], t)
  BY Zenon DEF Runs
<1>. HIDE DEF last
<1>3. \A t \in from..last : g[t] = IF t = last THEN Tick(f[from + n], last) ELSE f[t]
  OBVIOUS
<1>4. \A t \in from..(from + n) : g[t] = f[t]
  BY <1>1, <1>3
<1>5. \A t \in from..last : g[t] = IF t = from THEN c ELSE Tick(g[t - 1], t)
  <2>1. ASSUME NEW t \in from..last, t = last
        PROVE  g[t] = IF t = from THEN c ELSE Tick(g[t - 1], t)
    BY <1>1, <1>3, <1>4, <2>1
  <2>2. ASSUME NEW t \in from..last, t # last
        PROVE  g[t] = IF t = from THEN c ELSE Tick(g[t - 1], t)
    <3>1. t # from => g[t - 1] = f[t - 1]
      BY <1>1, <1>4
    <3>2. g[t] = f[t] /\ t \in from..(from + n)
      BY <1>1, <1>3, <2>2
    <3>. QED
      BY <1>2, <3>1, <3>2, Zenon
  <2>. QED
    BY <2>1, <2>2
<1>6. g = h
  <2>1. \A t \in from..last : g[t] = h[t]
    BY <1>5, Zenon
  <2>. QED
    BY <2>1, Zenon
<1>. HIDE DEF g
<1>7. Runs(g, c, from, last)
  BY <1>6, Zenon DEF Runs
<1>. QED
  BY <1>7 DEF last

LEMMA RunsExist ==
  ASSUME NEW c, NEW from \in Nat, NEW to \in Nat, from <= to
  PROVE  \E f : Runs(f, c, from, to)
<1>. DEFINE S == {n \in Nat : \E f : Runs(f, c, from, from + n)}
<1>1. 0 \in S
  <2>. DEFINE f == [t \in from..from |-> c]
  <2>1. from..(from + 0) = from..from /\ \A t \in from..from : t = from
    OBVIOUS
  <2>2. f = [t \in from..from |-> IF t = from THEN c ELSE Tick(f[t - 1], t)]
    BY <2>1, Zenon
  <2>. HIDE DEF f
  <2>3. Runs(f, c, from, from + 0)
    BY <2>1, <2>2, Zenon DEF Runs
  <2>. QED
    BY <2>3
<1>2. \A n \in S : n + 1 \in S
  <2>. SUFFICES ASSUME NEW n \in S
                PROVE  n + 1 \in S
    OBVIOUS
  <2>1. PICK f : n \in Nat /\ Runs(f, c, from, from + n)
    OBVIOUS
  <2>2. \E g : Runs(g, c, from, from + n + 1)
    BY <2>1, RunsOn
  <2>3. from + n + 1 = from + (n + 1) /\ n + 1 \in Nat
    BY <2>1
  <2>. QED
    BY <2>2, <2>3
<1>3. S \in SUBSET Nat
  OBVIOUS
<1>. HIDE DEF S
<1>4. to - from \in S
  BY <1>1, <1>2, <1>3, Induction
<1>5. from + (to - from) = to
  OBVIOUS
<1>. QED
  BY <1>4, <1>5 DEF S

LEMMA RunsAreCalm ==
  ASSUME NEW c, ChipShape(c), NEW from \in Nat, NEW to \in Nat, from <= to,
         NEW f, Runs(f, c, from, to)
  PROVE  Calm(c, f[to])
<1>. DEFINE S == {n \in Nat : from + n <= to => Calm(c, f[from + n])}
<1>1. \A t \in from..to : f[t] = IF t = from THEN c ELSE Tick(f[t - 1], t)
  BY Zenon DEF Runs
<1>2. 0 \in S
  <2>1. from + 0 = from /\ from \in from..to
    OBVIOUS
  <2>2. f[from] = c
    BY <1>1, <2>1
  <2>3. Calm(c, c)
    BY DEF Calm, Alike
  <2>. QED
    BY <2>1, <2>2, <2>3
<1>3. \A n \in S : n + 1 \in S
  <2>. SUFFICES ASSUME NEW n \in S, from + (n + 1) <= to
                PROVE  Calm(c, f[from + (n + 1)])
    OBVIOUS
  <2>1. /\ n \in Nat /\ from + n <= to /\ from + (n + 1) \in from..to
        /\ from + (n + 1) # from /\ (from + (n + 1)) - 1 = from + n
    OBVIOUS
  <2>2. Calm(c, f[from + n])
    BY <2>1
  <2>3. f[from + (n + 1)] = Tick(f[from + n], from + (n + 1))
    BY <1>1, <2>1
  <2>4. Calm(f[from + n], f[from + (n + 1)])
    BY <2>2, <2>3, TickIsCalm DEF Calm, Alike
  <2>. QED
    BY <2>2, <2>4, Zenon DEF Calm, Alike
<1>4. S \in SUBSET Nat
  OBVIOUS
<1>. HIDE DEF S
<1>5. to - from \in S
  BY <1>2, <1>3, <1>4, Induction
<1>6. from + (to - from) = to /\ from + (to - from) <= to
  OBVIOUS
<1>. QED
  BY <1>5, <1>6 DEF S

LEMMA SteppedIsCalm ==
  ASSUME NEW c, ChipShape(c), sim \in Nat, NEW at \in Nat, sim <= at
  PROVE  Calm(c, Stepped(c, at))
<1>. DEFINE run == CHOOSE f : Runs(f, c, sim, at)
<1>1. Stepped(c, at) = Tick(run[at], at)
  BY Zenon DEF Stepped, Runs
<1>2. Runs(run, c, sim, at)
  BY RunsExist, Zenon
<1>. HIDE DEF run
<1>3. Calm(c, run[at])
  BY <1>2, RunsAreCalm
<1>4. Calm(run[at], Tick(run[at], at))
  BY <1>3, TickIsCalm DEF Calm, Alike
<1>. QED
  BY <1>1, <1>3, <1>4, Zenon DEF Calm, Alike

\* A command that neither starts nor stages anything.
Harmless == ReturnsData \cup {"ClearIrqStatus"}

\* What the commands of the driver do, as far as it matters here.
LEMMA HarmlessEffect ==
  ASSUME NEW c, ChipShape(c), NEW cmd, cmd.op \in Harmless
  PROVE  LET d == RunCommand(c, cmd)
         IN /\ ChipShape(d) /\ d.inbox = c.inbox /\ d.buffer = c.buffer
            /\ d.mode = c.mode /\ d.irqMask = c.irqMask /\ d.txLen = c.txLen
            /\ d.hasPendingTx = c.hasPendingTx /\ d.pendingTx = c.pendingTx
            /\ d.irq \subseteq c.irq
            /\ cmd.op # "ClearIrqStatus" => d.irq = c.irq
            /\ cmd.op = "ClearIrqStatus" => d.irq = c.irq \ cmd.arg
<1>1. CASE cmd.op = "ClearIrqStatus"
  <2>1. RunCommand(c, cmd) = ClearIrqStatus(c, cmd.arg)
    BY <1>1 DEF RunCommand
  <2>. DEFINE i == c.irq \ cmd.arg
              p == c.preambleRaised /\ "Preamble" \notin cmd.arg
              h == c.headerRaised /\ "Header" \notin cmd.arg
  <2>2. RunCommand(c, cmd) = [c EXCEPT !.irq = i, !.preambleRaised = p, !.headerRaised = h]
    BY <2>1, Zenon DEF ClearIrqStatus
  <2>3. i \subseteq c.irq
    OBVIOUS
  <2>. HIDE DEF p, h
  <2>. QED
    BY <1>1, <2>2, <2>3, Zenon DEF ChipShape, Fields
<1>2. CASE cmd.op = "GetIrqStatus"
  <2>1. RunCommand(c, cmd) = GetIrqStatus(c)
    BY <1>2 DEF RunCommand
  <2>. QED
    BY <1>2, <2>1, Zenon DEF GetIrqStatus, ChipShape, Fields
<1>3. CASE cmd.op \in ReturnsData \ {"GetIrqStatus"}
  <2>1. RunCommand(c, cmd) = c
    BY <1>3 DEF RunCommand, ReturnsData
  <2>. QED
    BY <1>3, <2>1 DEF ReturnsData
<1>. QED
  BY <1>1, <1>2, <1>3 DEF Harmless

LEMMA StandbyEffect ==
  ASSUME NEW c, ChipShape(c), NEW cmd, cmd.op \in {"SetStandby", "SetRx"}
  PROVE  LET d == RunCommand(c, cmd)
         IN /\ ChipShape(d) /\ d.inbox = c.inbox /\ d.buffer = c.buffer
            /\ d.mode = IF cmd.op = "SetRx" THEN "rx" ELSE "standby"
            /\ d.irq = c.irq /\ d.hasPendingTx = c.hasPendingTx /\ d.pendingTx = c.pendingTx
<1>1. RunCommand(c, cmd) = [c EXCEPT !.mode = IF cmd.op = "SetRx" THEN "rx" ELSE "standby"]
  BY Zenon DEF RunCommand, SetStandby, SetRx
<1>. QED
  BY <1>1, Zenon DEF ChipShape, Fields

LEMMA StageEffect ==
  ASSUME NEW c, ChipShape(c), NEW cmd,
         \/ cmd.op = "SetPacketParams" /\ cmd.arg \in 0..MaxPayload
         \/ cmd.op = "SetDioIrqParams"
         \/ cmd.op = "WriteBuffer" /\ cmd.arg[1] = 0 /\ cmd.arg[2] \in Payloads
  PROVE  LET d == RunCommand(c, cmd)
         IN /\ ChipShape(d) /\ d.inbox = c.inbox
            /\ d.mode = c.mode /\ d.irq = c.irq
            /\ d.hasPendingTx = c.hasPendingTx /\ d.pendingTx = c.pendingTx
            /\ d.txLen = IF cmd.op = "SetPacketParams" THEN cmd.arg ELSE c.txLen
            /\ d.irqMask = IF cmd.op = "SetDioIrqParams" THEN cmd.arg[1] ELSE c.irqMask
            /\ d.buffer = IF cmd.op = "WriteBuffer" THEN Store(c.buffer, 0, cmd.arg[2])
                          ELSE c.buffer
<1>1. CASE cmd.op = "SetPacketParams" /\ cmd.arg \in 0..MaxPayload
  <2>1. RunCommand(c, cmd) = [c EXCEPT !.txLen = cmd.arg]
    BY <1>1, Zenon DEF RunCommand, SetPacketParams
  <2>. QED
    BY <1>1, <2>1, Zenon DEF ChipShape, Fields
<1>2. CASE cmd.op = "SetDioIrqParams"
  <2>1. RunCommand(c, cmd) = [c EXCEPT !.irqMask = cmd.arg[1]]
    BY <1>2, Zenon DEF RunCommand, SetDioIrqParams
  <2>. QED
    BY <1>2, <2>1, Zenon DEF ChipShape, Fields
<1>3. CASE cmd.op = "WriteBuffer" /\ cmd.arg[1] = 0 /\ cmd.arg[2] \in Payloads
  <2>. DEFINE mem == Store(c.buffer, 0, cmd.arg[2])
  <2>1. RunCommand(c, cmd) = [c EXCEPT !.buffer = mem]
    BY <1>3, Zenon DEF RunCommand, WriteBuffer
  <2>2. cmd.arg[2] \in Seq(Bytes) /\ 0 \in Cells /\ c.buffer \in [Cells -> Bytes]
    <3>1. PICK n \in 0..MaxPayload : cmd.arg[2] \in [1..n -> Bytes]
      BY <1>3 DEF Payloads
    <3>2. n \in Nat /\ 0 \in Cells
      BY BufLenAssumption DEF MaxPayload, Cells
    <3>3. cmd.arg[2] \in Seq(Bytes)
      BY <3>1, <3>2
    <3>. QED
      BY <3>2, <3>3 DEF ChipShape
  <2>3. mem \in [Cells -> Bytes]
    BY <2>2, StoreShape, Zenon
  <2>. HIDE DEF mem
  <2>4. LET d == [c EXCEPT !.buffer = mem]
        IN /\ ChipShape(d) /\ d.inbox = c.inbox
           /\ d.mode = c.mode /\ d.irq = c.irq
           /\ d.hasPendingTx = c.hasPendingTx /\ d.pendingTx = c.pendingTx
           /\ d.txLen = c.txLen /\ d.irqMask = c.irqMask /\ d.buffer = mem
    BY <2>3, Zenon DEF ChipShape, Fields
  <2>. USE DEF mem
  <2>. QED
    BY <1>3, <2>1, <2>4, Zenon
<1>. QED
  BY <1>1, <1>2, <1>3, Zenon

LEMMA SetTxEffect ==
  ASSUME NEW c, ChipShape(c), NEW cmd, cmd.op = "SetTx"
  PROVE  LET d == RunCommand(c, cmd)
         IN /\ ChipShape(d) /\ d.inbox = c.inbox /\ d.buffer = c.buffer
            /\ d.mode = "tx" /\ d.irq = c.irq /\ d.irqMask = c.irqMask
            /\ d.txLen = c.txLen
            /\ d.hasPendingTx = TRUE /\ d.pendingTx = Prefix(c.buffer, c.txLen)
<1>. DEFINE frame == Prefix(c.buffer, c.txLen)
            fem == IF c.fem THEN "in" ELSE "out"
<1>1. RunCommand(c, cmd) =
        [c EXCEPT !.mode = "tx", !.femAtTx = fem, !.pendingTx = frame, !.hasPendingTx = TRUE]
  BY Zenon DEF RunCommand, SetTx
<1>2. frame \in Payloads
  BY PrefixShape, Zenon DEF ChipShape
<1>. HIDE DEF frame, fem
<1>3. LET d == [c EXCEPT !.mode = "tx", !.femAtTx = fem, !.pendingTx = frame,
                         !.hasPendingTx = TRUE]
      IN /\ ChipShape(d) /\ d.inbox = c.inbox /\ d.buffer = c.buffer
         /\ d.mode = "tx" /\ d.irq = c.irq /\ d.irqMask = c.irqMask /\ d.txLen = c.txLen
         /\ d.hasPendingTx = TRUE /\ d.pendingTx = frame
  BY <1>2, Zenon DEF ChipShape, Fields
<1>. USE DEF frame
<1>. QED
  BY <1>1, <1>3, Zenon

-----------------------------------------------------------------------------
\* The two sockets.

\* At most one message of a kind.
Only(s, kind) ==
  \A i, j \in 1..Len(s) : s[i].kind = kind /\ s[j].kind = kind => i = j

\* A message more at the end.
LEMMA Told ==
  ASSUME NEW A, NEW s \in Seq(A), NEW m \in A, NEW t, t = Append(s, m)
  PROVE  /\ \A kind : Holds(t, kind) <=> Holds(s, kind) \/ m.kind = kind
         /\ \A kind : Only(s, kind) /\ (m.kind = kind => ~Holds(s, kind)) => Only(t, kind)
<1>1. /\ t \in Seq(A) /\ Len(s) \in Nat /\ Len(t) = Len(s) + 1 /\ t[Len(s) + 1] = m
      /\ \A i \in 1..Len(s) : t[i] = s[i]
  OBVIOUS
<1>. DEFINE n == Len(s)
<1>2. /\ n \in Nat /\ Len(t) = n + 1 /\ t[n + 1] = m
      /\ \A i \in 1..n : t[i] = s[i]
  BY <1>1
<1>3. \A kind : Holds(s, kind) <=> \E i \in 1..n : s[i].kind = kind
  BY DEF Holds
<1>4. \A kind : Only(s, kind) <=>
        \A i, j \in 1..n : s[i].kind = kind /\ s[j].kind = kind => i = j
  BY DEF Only
<1>. HIDE DEF n
<1>5. \A kind : Holds(t, kind) <=> Holds(s, kind) \/ m.kind = kind
  <2>. SUFFICES ASSUME NEW kind
                PROVE  Holds(t, kind) <=> Holds(s, kind) \/ m.kind = kind
    OBVIOUS
  <2>1. \A i \in 1..(n + 1) : i \in 1..n \/ i = n + 1
    BY <1>2
  <2>2. n + 1 \in 1..(n + 1) /\ \A i \in 1..n : i \in 1..(n + 1)
    BY <1>2
  <2>3. Holds(t, kind) <=> \E i \in 1..(n + 1) : t[i].kind = kind
    BY <1>2 DEF Holds
  <2>4. ASSUME NEW i \in 1..(n + 1), t[i].kind = kind
        PROVE  Holds(s, kind) \/ m.kind = kind
    BY <1>2, <1>3, <2>1, <2>4
  <2>5. ASSUME NEW i \in 1..n, s[i].kind = kind
        PROVE  Holds(t, kind)
    BY <1>2, <2>2, <2>3, <2>5
  <2>6. m.kind = kind => Holds(t, kind)
    BY <1>2, <2>2, <2>3
  <2>. QED
    BY <1>3, <2>3, <2>4, <2>5, <2>6, Zenon
<1>6. \A kind : Only(s, kind) /\ (m.kind = kind => ~Holds(s, kind)) => Only(t, kind)
  BY ONLY <1>2, <1>3, <1>4 DEF Only
<1>. QED
  BY <1>5, <1>6, Zenon

\* The first message taken.
LEMMA Taken ==
  ASSUME NEW A, NEW s \in Seq(A), s # << >>, NEW t, t = Tail(s)
  PROVE  /\ \A kind : Holds(t, kind) => Holds(s, kind)
         /\ \A kind : Holds(s, kind) /\ Head(s).kind # kind => Holds(t, kind)
         /\ \A kind : Only(s, kind) => Only(t, kind)
         /\ \A kind : Only(s, kind) /\ Head(s).kind = kind => ~Holds(t, kind)
<1>1. /\ t \in Seq(A) /\ Len(s) \in Nat \ {0} /\ Len(t) = Len(s) - 1
      /\ \A i \in 1..Len(t) : t[i] = s[i + 1]
      /\ Head(s) = s[1] /\ Head(s) \in A
  OBVIOUS
<1>. DEFINE n == Len(t)
<1>2. /\ n \in Nat /\ Len(s) = n + 1 /\ Head(s) = s[1]
      /\ \A i \in 1..n : t[i] = s[i + 1]
  BY <1>1
<1>3. \A kind : Holds(t, kind) <=> \E i \in 1..n : t[i].kind = kind
  BY DEF Holds
<1>4. \A kind : Only(t, kind) <=>
        \A i, j \in 1..n : t[i].kind = kind /\ t[j].kind = kind => i = j
  BY DEF Only
<1>. HIDE DEF n
<1>5. \A i \in 1..n : i + 1 \in 1..(n + 1)
  BY <1>2
<1>6. \A i \in 1..(n + 1) : i # 1 => i - 1 \in 1..n /\ t[i - 1] = s[i]
  BY <1>2
<1>7. \A kind : Holds(t, kind) => Holds(s, kind)
  BY ONLY <1>2, <1>3, <1>5 DEF Holds
<1>8. \A kind : Holds(s, kind) /\ Head(s).kind # kind => Holds(t, kind)
  <2>. SUFFICES ASSUME NEW kind, Head(s).kind # kind,
                       NEW i \in 1..(n + 1), s[i].kind = kind
                PROVE  Holds(t, kind)
    BY <1>2 DEF Holds
  <2>1. i # 1
    BY <1>2
  <2>. QED
    BY <1>3, <1>6, <2>1
<1>9. \A kind : Only(s, kind) => Only(t, kind)
  <2>. SUFFICES ASSUME NEW kind, Only(s, kind)
                PROVE  Only(t, kind)
    OBVIOUS
  <2>1. ASSUME NEW i \in 1..n, NEW j \in 1..n, t[i].kind = kind, t[j].kind = kind
        PROVE  i = j
    <3>1. i + 1 = j + 1
      BY <1>2, <1>5, <2>1 DEF Only
    <3>. QED
      BY <1>2, <3>1
  <2>. QED
    BY <1>4, <2>1, Zenon
<1>10. \A kind : Only(s, kind) /\ Head(s).kind = kind => ~Holds(t, kind)
  <2>. SUFFICES ASSUME NEW kind, Only(s, kind), Head(s).kind = kind,
                       NEW i \in 1..n, t[i].kind = kind
                PROVE  FALSE
    BY <1>3
  <2>1. i + 1 \in 1..(n + 1) /\ 1 \in 1..(n + 1) /\ i + 1 # 1 /\ s[i + 1].kind = kind
    BY <1>2
  <2>. QED
    BY <1>2, <2>1 DEF Only
<1>. QED
  BY <1>7, <1>8, <1>9, <1>10, Zenon

-----------------------------------------------------------------------------
\* The programs of the driver.

\* Every program at its start and at its end.
LEMMA Programs ==
  /\ SubSeq(FinishTransmit, 1, 2) = FinishTransmit
  /\ SubSeq(FinishTransmit, 3, Len(FinishTransmit)) = << >>
  /\ SubSeq(GetPacketLength, 1, 1) = GetPacketLength
  /\ SubSeq(GetIrqFlags, 1, 1) = GetIrqFlags
  /\ SubSeq(ReadData, 1, 4) = ReadData /\ SubSeq(ReadData, 5, Len(ReadData)) = << >>
  /\ SubSeq(StartReceive, 1, 5) = StartReceive
  /\ Len(FinishTransmit) = 2 /\ Len(GetPacketLength) = 1 /\ Len(GetIrqFlags) = 1
  /\ Len(ReadData) = 4 /\ Len(StartReceive) = 5
<1>. DEFINE A == {FinishTransmit[1], FinishTransmit[2]}
            B == {ReadData[1], ReadData[2], ReadData[3], ReadData[4]}
            C == {StartReceive[1], StartReceive[2], StartReceive[3], StartReceive[4],
                  StartReceive[5]}
<1>1. FinishTransmit \in Seq(A) /\ Len(FinishTransmit) = 2
  BY DEF FinishTransmit
<1>2. ReadData \in Seq(B) /\ Len(ReadData) = 4
  BY DEF ReadData
<1>3. StartReceive \in Seq(C) /\ Len(StartReceive) = 5
  BY DEF StartReceive
<1>4. GetPacketLength \in Seq({GetPacketLength[1]}) /\ Len(GetPacketLength) = 1
  BY DEF GetPacketLength
<1>5. GetIrqFlags \in Seq({GetIrqFlags[1]}) /\ Len(GetIrqFlags) = 1
  BY DEF GetIrqFlags
<1>. HIDE DEF A, B, C
<1>6. /\ SubSeq(FinishTransmit, 1, 2) = FinishTransmit
      /\ SubSeq(FinishTransmit, 3, Len(FinishTransmit)) = << >>
  BY <1>1, WholeSeq
<1>7. SubSeq(ReadData, 1, 4) = ReadData /\ SubSeq(ReadData, 5, Len(ReadData)) = << >>
  BY <1>2, WholeSeq
<1>8. SubSeq(StartReceive, 1, 5) = StartReceive
  BY <1>3, WholeSeq
<1>9. SubSeq(GetPacketLength, 1, 1) = GetPacketLength
  BY <1>4, WholeSeq
<1>10. SubSeq(GetIrqFlags, 1, 1) = GetIrqFlags
  BY <1>5, WholeSeq
<1>. QED
  BY <1>1, <1>2, <1>3, <1>4, <1>5, <1>6, <1>7, <1>8, <1>9, <1>10

-----------------------------------------------------------------------------
\* The inductive invariant.

\* The server and the engine take turns, and an acknowledgement ends the server's: its
\* clock is where it says until the engine has read it.
Turns ==
  /\ ~eng.waiting => eng.acked = sim /\ toEngine = << >> /\ ~Holds(toNode, "Tick")
  /\ \A i \in 1..Len(toNode) : toNode[i].kind = "Tick" =>
       i = Len(toNode) /\ toNode[i].at >= sim /\ ~Holds(toEngine, "Ack")
  /\ \A i \in 1..Len(toEngine) : toEngine[i].kind = "Ack" =>
       i = Len(toEngine) /\ toEngine[i].at = sim

\* A transaction with the chip selected is the first command outstanding, a read; the two
\* bytes with flags are the register's, one half each.
Answers == {Byte(0), Status} \cup {FlagByte(F) : F \in SUBSET Flags}

Reads ==
  /\ mcu.selected =>
       /\ fw.todo # << >> /\ txn.cmd = Head(fw.todo) /\ IsRead(txn.cmd)
       /\ txn.cmd.op = "GetIrqStatus" =>
            /\ mcu.reply \in Seq(Answers) /\ Len(mcu.reply) = txn.n
            /\ txn.n >= 3 => \E F \in SUBSET HighByte : mcu.reply[3] = FlagByte(F)
            /\ txn.n >= 4 => \E F \in SUBSET LowByte :
                 mcu.reply[4] = FlagByte(F) /\ F \cap BusyFlags = hist.up
  /\ fw.pc = "lbt" /\ fw.todo = << >> => fw.seen = hist.up

\* What the wrapper believes at each place in loop().
States ==
  /\ fw.pc \in {"recv", "len", "listen", "started"} => fw.state # "tx"
  /\ fw.pc = "recv" /\ fw.todo # << >> => fw.state = "idle"
  /\ fw.pc \in {"choose", "lbt", "sent"} => fw.state = "rx"
  /\ fw.pc \in {"drain", "top", "recv", "len", "listen", "started", "choose", "lbt", "sent"}

\* What the driver has still to send there, and what it has achieved so far.
Staged(s, k) == fw.todo = SubSeq(s, k, Len(s))

\* The chip transmits, or says that it is done.
InTx == IF "TxDone" \in chip.irq THEN chip.mode = "standby" ELSE chip.mode = "tx"

Sends(f, k) ==
  /\ Staged(StartTransmit(f), k)
  /\ k > 1 => chip.txLen = Len(f)
  /\ k > 2 => chip.irqMask = TxIrqFlags
  /\ eng.fed = << >> /\ k > 3 => Prefix(chip.buffer, chip.txLen) = f
  /\ k = 5 => "TxDone" \notin chip.irq
  /\ k > 5 => InTx

Stages ==
  /\ fw.pc \in {"drain", "top", "choose"} => fw.todo = << >>
  /\ fw.pc = "recv" => \E k \in 1..3 : Staged(FinishTransmit, k)
  /\ fw.pc = "len" => \E k \in 1..2 : Staged(GetPacketLength, k)
  /\ fw.pc = "lbt" => \E k \in 1..2 : Staged(GetIrqFlags, k)
  /\ fw.pc = "listen" => \E k \in 1..5 : Staged(ReadData, k)
  /\ fw.pc = "started" =>
       \E k \in 1..6 : Staged(StartReceive, k) /\ (k > 5 => chip.mode = "rx")
  /\ fw.pc = "sent" => hist.sent # << >> /\ \E k \in 1..6 : Sends(Last(hist.sent), k)

\* A driver that listens has a chip that listens, until it is done with the commands that
\* start a transmission and unless it is in the middle of those that start reception.
Listens ==
  /\ fw.state = "rx" /\ (fw.pc = "sent" => fw.todo # << >>)
       /\ (fw.pc = "started" => fw.todo = << >>) => chip.mode = "rx"
  /\ fw.state = "tx" => chip.irqMask = TxIrqFlags /\ InTx

\* A chip that transmits has a frame to drain or a waveform on its way.
OnAir == Holds(toEngine, "Frame") \/ eng.waves > 0 \/ Holds(toNode, "TxDone")

Airs == chip.mode = "tx" => chip.hasPendingTx \/ OnAir

\* And either of these has a chip that transmits, if the firmware never gives up: there is
\* one at most, and it is in one place.
OneAtATime ==
  ~GivesUp =>
    /\ "Timeout" \notin chip.irq
    /\ fw.state = "tx" /\ fw.ready => "TxDone" \in chip.irq
    /\ chip.mode = "tx" => fw.state = "tx" \/ (fw.pc = "sent" /\ fw.todo = << >>)
    /\ chip.hasPendingTx => chip.mode = "tx" /\ ~OnAir
    /\ OnAir => chip.mode = "tx"
    /\ eng.waves <= 1
    /\ eng.waves > 0 => ~Holds(toEngine, "Frame") /\ ~Holds(toNode, "TxDone")
    /\ ~(Holds(toEngine, "Frame") /\ Holds(toNode, "TxDone"))
    /\ Only(toEngine, "Frame") /\ Only(toNode, "TxDone")

\* Nothing arrives from an engine that has delivered nothing.
Quiet == eng.fed = << >> => chip.inbox = << >> /\ ~Holds(toNode, "Frame")

\* What was sent and has not gone out is the last, and it is what the chip has to drain.
Out == chip.hasPendingTx \/ (fw.pc = "sent" /\ fw.todo # << >>)

GoesOut ==
  ~GivesUp =>
    /\ Out => hist.sent # << >>
    /\ Len(aired) = IF Out THEN Len(hist.sent) - 1 ELSE Len(hist.sent)
    /\ eng.fed = << >> =>
         /\ aired = SubSeq(hist.sent, 1, Len(aired))
         /\ chip.hasPendingTx => chip.pendingTx = Last(hist.sent)

IInv ==
  /\ Shapes /\ Turns /\ Reads /\ States /\ Stages /\ Listens
  /\ Airs /\ OneAtATime /\ Quiet /\ GoesOut

-----------------------------------------------------------------------------
\* The engine moves.

\* What it leaves alone.
LEMMA EngineLeaves ==
  ASSUME IInv, UNCHANGED <<chip, sim, txn, mcu, aired, fw, hist>>,
         eng'.fed = << >> => eng.fed = << >>
  PROVE  Reads' /\ States' /\ Stages' /\ Listens' /\ GoesOut'
<1>1. Reads'
  BY DEF IInv, Reads
<1>2. States'
  BY DEF IInv, States
<1>3. Stages'
  <2>1. \A f : \A k \in 1..6 : Sends(f, k) => Sends(f, k)'
    BY DEF Sends, Staged, InTx
  <2>. QED
    BY <2>1 DEF IInv, Stages, Staged
<1>4. Listens'
  BY DEF IInv, Listens, InTx
<1>5. GoesOut'
  BY DEF IInv, GoesOut, Out
<1>. QED
  BY <1>1, <1>2, <1>3, <1>4, <1>5

\* Something is told: a tick is the last thing before the node's turn, the end of a waveform
\* ends one.
LEMMA TellKeeps ==
  ASSUME IInv, UNCHANGED <<chip, sim, txn, mcu, aired, fw, hist>>, ~eng.waiting,
         NEW m \in ToNode, Tell(m), DOMAIN eng' = EngineFields,
         eng'.waiting = IF m.kind = "Tick" THEN TRUE ELSE FALSE, eng'.acked = eng.acked,
         m.kind = "Tick" => m.at >= eng.acked,
         eng'.fed \in Seq(Frames), IF m.kind = "Frame" THEN eng'.fed # << >>
                                   ELSE eng'.fed = eng.fed,
         eng'.fed = << >> => eng.fed = << >>,
         eng'.waves \in Nat,
         eng.waves = IF m.kind = "TxDone" THEN eng'.waves + 1 ELSE eng'.waves
  PROVE  IInv'
<1>1. toNode \in Seq(ToNode) /\ toNode' = Append(toNode, m) /\ toEngine' = toEngine
  BY DEF IInv, Shapes, Tell
<1>2. /\ toNode' \in Seq(ToNode) /\ Len(toNode) \in Nat /\ Len(toNode') = Len(toNode) + 1
      /\ toNode'[Len(toNode) + 1] = m
      /\ \A i \in 1..Len(toNode) : toNode'[i] = toNode[i]
  BY <1>1
<1>3. /\ \A kind : Holds(toNode', kind) <=> Holds(toNode, kind) \/ m.kind = kind
      /\ \A kind : Only(toNode, kind) /\ (m.kind = kind => ~Holds(toNode, kind))
                    => Only(toNode', kind)
  BY <1>1, Told
<1>4. \A i \in 1..Len(toNode') : i \in 1..Len(toNode) \/ i = Len(toNode) + 1
  BY <1>2
<1>5. eng.waves \in Nat
  BY DEF IInv, Shapes
<1>6. Shapes'
  <2>1. eng'.waiting \in BOOLEAN /\ eng'.acked \in Nat
    BY DEF IInv, Shapes
  <2>. QED
    BY <1>1, <1>2, <2>1, Zenon DEF IInv, Shapes
<1>7. eng.acked = sim /\ toEngine = << >> /\ ~Holds(toNode, "Tick")
      /\ ~Holds(toEngine, "Ack") /\ Len(toEngine) = 0
  BY DEF IInv, Turns, Holds
<1>8. Turns'
  <2>1. \A i \in 1..Len(toNode') : toNode'[i].kind = "Tick" =>
          i = Len(toNode') /\ toNode'[i].at >= sim
    BY <1>2, <1>4, <1>7 DEF Holds
  <2>2. ~eng'.waiting => ~Holds(toNode', "Tick")
    BY <1>3, <1>7
  <2>. QED
    BY <1>1, <1>7, <2>1, <2>2 DEF Turns
<1>9. Airs'
  BY <1>1, <1>3, <1>5 DEF IInv, Airs, OnAir
<1>10. OneAtATime'
  BY <1>1, <1>3, <1>5 DEF IInv, OneAtATime, OnAir
<1>11. Quiet'
  BY <1>3 DEF IInv, Quiet
<1>. QED
  BY <1>6, <1>8, <1>9, <1>10, <1>11, EngineLeaves DEF IInv

LEMMA GiveFrameKeeps ==
  ASSUME IInv, GiveFrame, UNCHANGED <<chip, sim, txn, mcu, aired, fw, hist>>
  PROVE  IInv'
<1>1. PICK f \in Frames :
        /\ Tell([kind |-> "Frame", frame |-> f])
        /\ eng' = [eng EXCEPT !.given = @ + 1, !.fed = Append(@, f)]
  BY DEF GiveFrame
<1>. DEFINE m == [kind |-> "Frame", frame |-> f]
<1>2. ~eng.waiting /\ Tell(m)
  BY <1>1 DEF GiveFrame
<1>3. m \in ToNode /\ m.kind = "Frame"
  BY ServerAssumption DEF ToNode
<1>4. DOMAIN eng = EngineFields /\ eng.fed \in Seq(Frames) /\ eng.waves \in Nat
      /\ eng.waiting \in BOOLEAN
  BY DEF IInv, Shapes
<1>. HIDE DEF m
<1>5. /\ DOMAIN eng' = EngineFields /\ eng'.fed = Append(eng.fed, f)
      /\ eng'.waiting = FALSE /\ eng'.acked = eng.acked /\ eng'.waves = eng.waves
  BY <1>1, <1>2, <1>4, Zenon DEF EngineFields
<1>6. eng'.fed \in Seq(Frames) /\ eng'.fed # << >>
  BY <1>4, <1>5
<1>. QED
  BY <1>2, <1>3, <1>4, <1>5, <1>6, TellKeeps

LEMMA TellTxDoneKeeps ==
  ASSUME IInv, TellTxDone, UNCHANGED <<chip, sim, txn, mcu, aired, fw, hist>>
  PROVE  IInv'
<1>. DEFINE m == [kind |-> "TxDone"]
<1>1. ~eng.waiting /\ eng.waves > 0 /\ Tell(m) /\ eng' = [eng EXCEPT !.waves = @ - 1]
  BY DEF TellTxDone
<1>2. m \in ToNode /\ m.kind = "TxDone"
  BY DEF ToNode
<1>3. DOMAIN eng = EngineFields /\ eng.fed \in Seq(Frames) /\ eng.waves \in Nat
      /\ eng.waiting \in BOOLEAN
  BY DEF IInv, Shapes
<1>. HIDE DEF m
<1>4. /\ DOMAIN eng' = EngineFields /\ eng'.waiting = FALSE /\ eng'.acked = eng.acked
      /\ eng'.fed = eng.fed /\ eng'.waves = eng.waves - 1
  BY <1>1, <1>3, Zenon DEF EngineFields
<1>5. eng'.waves \in Nat /\ eng.waves = eng'.waves + 1
  BY <1>1, <1>3, <1>4
<1>. QED
  BY <1>1, <1>2, <1>3, <1>4, <1>5, TellKeeps

LEMMA TellChannelKeeps ==
  ASSUME IInv, TellChannel, UNCHANGED <<chip, sim, txn, mcu, aired, fw, hist>>
  PROVE  IInv'
<1>. DEFINE m == [kind |-> "ChannelBusy", busy |-> ~eng.busy]
<1>1. ~eng.waiting /\ Tell(m) /\ eng' = [eng EXCEPT !.busy = ~@, !.told = TRUE]
  BY DEF TellChannel
<1>2. m \in ToNode /\ m.kind = "ChannelBusy"
  BY DEF ToNode
<1>3. DOMAIN eng = EngineFields /\ eng.fed \in Seq(Frames) /\ eng.waves \in Nat
      /\ eng.waiting \in BOOLEAN
  BY DEF IInv, Shapes
<1>. HIDE DEF m
<1>4. /\ DOMAIN eng' = EngineFields /\ eng'.waiting = FALSE /\ eng'.acked = eng.acked
      /\ eng'.fed = eng.fed /\ eng'.waves = eng.waves
  BY <1>1, <1>3, Zenon DEF EngineFields
<1>. QED
  BY <1>1, <1>2, <1>3, <1>4, TellKeeps

LEMMA TellOddKeeps ==
  ASSUME IInv, TellOdd, UNCHANGED <<chip, sim, txn, mcu, aired, fw, hist>>
  PROVE  IInv'
<1>1. PICK k \in OddKinds : Tell([kind |-> k])
  BY DEF TellOdd
<1>. DEFINE m == [kind |-> k]
<1>2. ~eng.waiting /\ Tell(m) /\ eng' = [eng EXCEPT !.told = TRUE]
  BY <1>1 DEF TellOdd
<1>3. m \in ToNode /\ m.kind \in {"Originate", "Unknown"}
  BY EngineAssumption DEF ToNode
<1>4. DOMAIN eng = EngineFields /\ eng.fed \in Seq(Frames) /\ eng.waves \in Nat
      /\ eng.waiting \in BOOLEAN
  BY DEF IInv, Shapes
<1>. HIDE DEF m
<1>5. /\ DOMAIN eng' = EngineFields /\ eng'.waiting = FALSE /\ eng'.acked = eng.acked
      /\ eng'.fed = eng.fed /\ eng'.waves = eng.waves
  BY <1>2, <1>4, Zenon DEF EngineFields
<1>. QED
  BY <1>2, <1>3, <1>4, <1>5, TellKeeps

\* From a tick on it is the node's turn.
LEMMA SendTickKeeps ==
  ASSUME IInv, SendTick, UNCHANGED <<chip, sim, txn, mcu, aired, fw, hist>>
  PROVE  IInv'
<1>1. PICK k \in EngineLumps : Tell([kind |-> "Tick", at |-> eng.acked + k])
  BY DEF SendTick
<1>. DEFINE m == [kind |-> "Tick", at |-> eng.acked + k]
<1>2. /\ ~eng.waiting /\ Tell(m)
      /\ eng' = [eng EXCEPT !.waiting = TRUE, !.given = 0, !.told = FALSE]
  BY <1>1 DEF SendTick
<1>3. /\ DOMAIN eng = EngineFields /\ eng.fed \in Seq(Frames) /\ eng.waves \in Nat
      /\ eng.acked \in Nat
  BY DEF IInv, Shapes
<1>4. eng.acked + k \in Nat /\ eng.acked + k >= eng.acked
  BY <1>3, EngineAssumption
<1>5. m \in ToNode /\ m.kind = "Tick" /\ m.at >= eng.acked
  BY <1>4 DEF ToNode
<1>. HIDE DEF m
<1>6. /\ DOMAIN eng' = EngineFields /\ eng'.waiting = TRUE /\ eng'.acked = eng.acked
      /\ eng'.fed = eng.fed /\ eng'.waves = eng.waves
  BY <1>2, <1>3, Zenon DEF EngineFields
<1>. QED
  BY <1>2, <1>3, <1>5, <1>6, TellKeeps

\* The engine reads what the server has written.
LEMMA HearNodeKeeps ==
  ASSUME IInv, HearNode, UNCHANGED <<chip, sim, txn, mcu, aired, fw, hist>>
  PROVE  IInv'
<1>. DEFINE m == Head(toEngine)
<1>1. toEngine \in Seq(ToEngine) /\ toEngine # << >> /\ toEngine' = Tail(toEngine)
      /\ toNode' = toNode
  BY DEF IInv, Shapes, HearNode
<1>2. /\ toEngine' \in Seq(ToEngine) /\ Len(toEngine) \in Nat \ {0}
      /\ Len(toEngine') = Len(toEngine) - 1 /\ m = toEngine[1] /\ m \in ToEngine
      /\ \A i \in 1..Len(toEngine') : toEngine'[i] = toEngine[i + 1]
  BY <1>1
<1>3. /\ \A kind : Holds(toEngine', kind) => Holds(toEngine, kind)
      /\ \A kind : Holds(toEngine, kind) /\ m.kind # kind => Holds(toEngine', kind)
      /\ \A kind : Only(toEngine, kind) => Only(toEngine', kind)
      /\ \A kind : Only(toEngine, kind) /\ m.kind = kind => ~Holds(toEngine', kind)
  BY <1>1, Taken
<1>4. 1 \in 1..Len(toEngine) /\ Holds(toEngine, m.kind) /\ eng.waiting = TRUE
  <2>1. 1 \in 1..Len(toEngine) /\ Holds(toEngine, m.kind)
    BY <1>2 DEF Holds
  <2>2. eng.waiting = TRUE
    BY <1>1, Zenon DEF IInv, Shapes, Turns
  <2>. QED
    BY <2>1, <2>2
<1>5. m.kind \in {"Frame", "Stats", "Ack"} /\ (m.kind = "Ack" => m.at \in Nat)
  BY <1>2 DEF ToEngine
<1>6. eng' = IF m.kind = "Frame" THEN [eng EXCEPT !.waves = @ + 1]
             ELSE IF m.kind = "Ack" THEN [eng EXCEPT !.waiting = FALSE, !.acked = m.at]
             ELSE eng
  BY <1>5 DEF HearNode
<1>. HIDE DEF m
<1>7. /\ DOMAIN eng = EngineFields /\ eng.fed \in Seq(Frames) /\ eng.waves \in Nat
      /\ eng.acked \in Nat
  BY DEF IInv, Shapes
<1>8. /\ DOMAIN eng' = EngineFields /\ eng'.fed = eng.fed
      /\ eng'.waves = IF m.kind = "Frame" THEN eng.waves + 1 ELSE eng.waves
      /\ eng'.acked = IF m.kind = "Ack" THEN m.at ELSE eng.acked
      /\ eng'.waiting = IF m.kind = "Ack" THEN FALSE ELSE eng.waiting
  BY <1>6, <1>7, Zenon DEF EngineFields
<1>9. Shapes'
  <2>1. eng'.waiting \in BOOLEAN
    BY <1>4, <1>8, Zenon
  <2>2. eng'.acked \in Nat /\ eng'.waves \in Nat /\ eng'.fed \in Seq(Frames)
    BY <1>5, <1>7, <1>8
  <2>. QED
    BY <1>1, <1>2, <1>8, <2>1, <2>2, Zenon DEF IInv, Shapes
<1>10. m.kind = "Ack" => toEngine' = << >> /\ m.at = sim /\ ~Holds(toNode, "Tick")
  <2>1. m.kind = "Ack" => Len(toEngine') = 0 /\ m.at = sim
    BY <1>2, <1>4 DEF IInv, Turns
  <2>2. m.kind = "Ack" => ~Holds(toNode, "Tick")
    BY <1>4 DEF IInv, Turns, Holds
  <2>3. toEngine' = << >> <=> Len(toEngine') = 0
    BY <1>2, EmptySeq
  <2>. QED
    BY <2>1, <2>2, <2>3, Zenon
<1>11. Turns'
  <2>1. \A i \in 1..Len(toEngine') :
          /\ i + 1 \in 1..Len(toEngine) /\ toEngine'[i] = toEngine[i + 1]
          /\ i + 1 = Len(toEngine) => i = Len(toEngine')
    BY <1>2
  <2>2. \A i \in 1..Len(toEngine') : toEngine'[i].kind = "Ack" =>
          i = Len(toEngine') /\ toEngine'[i].at = sim
    BY <1>2, <2>1 DEF IInv, Turns
  <2>. QED
    BY <1>1, <1>3, <1>4, <1>8, <1>10, <2>2 DEF IInv, Turns
<1>12. Airs'
  BY <1>1, <1>3, <1>7, <1>8 DEF IInv, Airs, OnAir
<1>13. OneAtATime'
  BY <1>1, <1>3, <1>4, <1>7, <1>8 DEF IInv, OneAtATime, OnAir
<1>14. Quiet'
  BY <1>1, <1>8 DEF IInv, Quiet
<1>. QED
  BY <1>8, <1>9, <1>11, <1>12, <1>13, <1>14, EngineLeaves DEF IInv

-----------------------------------------------------------------------------
\* The server takes a message of the engine's.

\* The firmware stands still.
LEMMA FirmwareStays ==
  ASSUME IInv, UNCHANGED <<txn, mcu, fw, hist>>, eng'.fed = eng.fed,
         chip'.mode = chip.mode, chip'.irqMask = chip.irqMask, chip'.txLen = chip.txLen,
         "TxDone" \in chip'.irq <=> "TxDone" \in chip.irq,
         eng.fed = << >> => chip'.buffer = chip.buffer
  PROVE  Reads' /\ States' /\ Stages' /\ Listens'
<1>1. Reads'
  BY DEF IInv, Reads
<1>2. States'
  BY DEF IInv, States
<1>3. Stages'
  <2>1. \A f : \A k \in 1..6 : Sends(f, k) => Sends(f, k)'
    BY DEF Sends, Staged, InTx
  <2>. QED
    BY <2>1 DEF IInv, Stages, Staged
<1>4. Listens'
  BY DEF IInv, Listens, InTx
<1>. QED
  BY <1>1, <1>2, <1>3, <1>4

\* What any message taken does to the socket.
LEMMA TakeFacts ==
  ASSUME IInv, NEW kind, Take(kind)
  PROVE  /\ toNode \in Seq(ToNode) /\ toNode # << >> /\ toNode' = Tail(toNode)
         /\ toNode' \in Seq(ToNode) /\ Len(toNode) \in Nat \ {0}
         /\ Len(toNode') = Len(toNode) - 1
         /\ \A i \in 1..Len(toNode') :
              i \in Nat /\ i + 1 \in 1..Len(toNode) /\ toNode'[i] = toNode[i + 1]
         /\ 1 \in 1..Len(toNode) /\ toNode[1] = Head(toNode) /\ toNode[1].kind = kind
         /\ Head(toNode) \in ToNode /\ Holds(toNode, kind)
         /\ \A k : Holds(toNode', k) => Holds(toNode, k)
         /\ \A k : Holds(toNode, k) /\ kind # k => Holds(toNode', k)
         /\ \A k : Only(toNode, k) => Only(toNode', k)
         /\ Only(toNode, kind) => ~Holds(toNode', kind)
         /\ UNCHANGED <<eng, txn, mcu, fw, hist>>
<1>1. /\ toNode \in Seq(ToNode) /\ toNode # << >> /\ toNode' = Tail(toNode)
      /\ Head(toNode).kind = kind /\ UNCHANGED <<eng, txn, mcu, fw, hist>>
  BY DEF IInv, Shapes, Take
<1>2. /\ toNode' \in Seq(ToNode) /\ Len(toNode) \in Nat \ {0}
      /\ Len(toNode') = Len(toNode) - 1
      /\ \A i \in 1..Len(toNode') : toNode'[i] = toNode[i + 1]
      /\ toNode[1] = Head(toNode) /\ Head(toNode) \in ToNode
  BY <1>1
<1>3. 1 \in 1..Len(toNode) /\ \A i \in 1..Len(toNode') : i \in Nat /\ i + 1 \in 1..Len(toNode)
  BY <1>2
<1>4. /\ \A k : Holds(toNode', k) => Holds(toNode, k)
      /\ \A k : Holds(toNode, k) /\ Head(toNode).kind # k => Holds(toNode', k)
      /\ \A k : Only(toNode, k) => Only(toNode', k)
      /\ \A k : Only(toNode, k) /\ Head(toNode).kind = k => ~Holds(toNode', k)
  BY <1>1, Taken
<1>5. Holds(toNode, kind)
  BY <1>1, <1>2, <1>3, Zenon DEF Holds
<1>. QED
  BY <1>1, <1>2, <1>3, <1>4, <1>5, Zenon

\* One that is no tick leaves the clocks as they are.
LEMMA TakeTurns ==
  ASSUME IInv, NEW kind, Take(kind), kind # "Tick", UNCHANGED <<sim, toEngine>>
  PROVE  Turns'
<1>. USE TakeFacts
<1>1. \A i \in 1..Len(toNode') : toNode'[i].kind = "Tick" =>
         i = Len(toNode') /\ toNode'[i].at >= sim /\ ~Holds(toEngine, "Ack")
  BY DEF IInv, Turns
<1>. QED
  BY <1>1 DEF IInv, Turns

\* Frames, reports of the channel and what is skipped.
LEMMA TakeKeeps ==
  ASSUME IInv, NEW kind, Take(kind), kind \notin {"Tick", "TxDone"},
         UNCHANGED <<sim, aired, toEngine>>, Alike(chip, chip'),
         eng.fed = << >> => chip'.inbox = << >> /\ chip'.buffer = chip.buffer
  PROVE  IInv'
<1>. USE TakeFacts
<1>1. Shapes'
  BY DEF IInv, Shapes, Alike
<1>2. Turns'
  BY TakeTurns
<1>3. Airs'
  BY DEF IInv, Airs, OnAir, Alike
<1>4. OneAtATime'
  BY DEF IInv, OneAtATime, OnAir, Alike
<1>5. Quiet'
  BY DEF IInv, Quiet
<1>6. GoesOut'
  BY DEF IInv, GoesOut, Out, Alike
<1>. QED
  BY <1>1, <1>2, <1>3, <1>4, <1>5, <1>6, FirmwareStays DEF IInv, Alike

LEMMA TakeFrameKeeps ==
  ASSUME IInv, TakeFrame
  PROVE  IInv'
<1>. DEFINE f == Head(toNode).frame
            box == Append(chip.inbox, f)
<1>1. Take("Frame") /\ chip' = [chip EXCEPT !.inbox = box] /\ UNCHANGED <<sim, aired, toEngine>>
  BY Zenon DEF TakeFrame, QueueFrame
<1>2. Head(toNode) \in ToNode /\ Head(toNode).kind = "Frame" /\ Holds(toNode, "Frame")
  BY <1>1, TakeFacts
<1>3. f \in Seq(Bytes)
  BY <1>2 DEF ToNode
<1>4. ChipShape(chip)
  BY DEF IInv, Shapes
<1>5. box \in Seq(Seq(Bytes))
  BY <1>3, <1>4 DEF ChipShape
<1>. HIDE DEF box
<1>6. Alike(chip, chip')
  BY <1>1, <1>4, <1>5, Zenon DEF Alike, ChipShape, Fields
<1>7. eng.fed # << >>
  BY <1>2 DEF IInv, Quiet
<1>. QED
  BY <1>1, <1>6, <1>7, TakeKeeps

LEMMA TakeChannelKeeps ==
  ASSUME IInv, TakeChannel
  PROVE  IInv'
<1>1. /\ Take("ChannelBusy") /\ chip' = SetChannelBusy(chip, Head(toNode).busy)
      /\ UNCHANGED <<sim, aired, toEngine>>
  BY DEF TakeChannel
<1>2. ChipShape(chip)
  BY DEF IInv, Shapes
<1>3. Alike(chip, chip') /\ chip'.inbox = chip.inbox /\ chip'.buffer = chip.buffer
  BY <1>1, <1>2, Zenon DEF SetChannelBusy, Alike, ChipShape, Fields
<1>. QED
  BY <1>1, <1>3, TakeKeeps DEF IInv, Quiet

LEMMA TakeOddKeeps ==
  ASSUME IInv, TakeOdd
  PROVE  IInv'
<1>1. PICK kind \in {"Originate", "Unknown"} : Take(kind)
  BY DEF TakeOdd
<1>2. UNCHANGED <<chip, sim, aired, toEngine>>
  BY DEF TakeOdd
<1>3. Alike(chip, chip')
  BY <1>2 DEF IInv, Shapes, Alike
<1>. QED
  BY <1>1, <1>2, <1>3, TakeKeeps DEF IInv, Quiet

\* The end of a waveform ends the transmission.
LEMMA TakeTxDoneKeeps ==
  ASSUME IInv, TakeTxDone
  PROVE  IInv'
<1>1. /\ Take("TxDone") /\ chip' = TransmitFinished(chip)
      /\ UNCHANGED <<sim, aired, toEngine>>
  BY DEF TakeTxDone
<1>. USE <1>1, TakeFacts
<1>2. ChipShape(chip)
  BY DEF IInv, Shapes
<1>3. chip'.hasPendingTx = chip.hasPendingTx /\ chip'.pendingTx = chip.pendingTx
      /\ chip'.inbox = chip.inbox /\ chip'.buffer = chip.buffer
      /\ chip'.irqMask = chip.irqMask /\ chip'.txLen = chip.txLen /\ ChipShape(chip')
  BY <1>2, Zenon DEF TransmitFinished, ChipShape, Fields
<1>4. chip.mode = "tx" => chip'.mode = "standby" /\ chip'.irq = chip.irq \cup {"TxDone"}
  BY <1>2, Zenon DEF TransmitFinished, ChipShape, Fields
<1>5. chip.mode # "tx" => chip' = chip
  BY DEF TransmitFinished
<1>6. Shapes'
  BY <1>3 DEF IInv, Shapes
<1>7. Turns'
  BY TakeTurns
<1>8. Reads' /\ States'
  BY DEF IInv, Reads, States
<1>9. "Timeout" \in chip'.irq <=> "Timeout" \in chip.irq
  BY <1>4, <1>5
<1>10. InTx => InTx'
  BY <1>4, <1>5 DEF InTx
<1>11. Stages'
  <2>1. ASSUME fw.pc = "sent", NEW f, NEW k \in 1..6, Sends(f, k)
        PROVE  Sends(f, k)'
    <3>1. k = 5 => "TxDone" \notin chip'.irq
      <4>. SUFFICES ASSUME k = 5
                    PROVE  chip.mode = "rx"
        BY <1>5, <2>1 DEF Sends
      <4>. DEFINE s == StartTransmit(f)
                  S == {s[1], s[2], s[3], s[4], s[5]}
      <4>1. s \in Seq(S) /\ Len(s) = 5
        BY DEF StartTransmit
      <4>2. fw.todo = SubSeq(s, 5, Len(s))
        BY <2>1 DEF Sends, Staged
      <4>3. 5 \in 1..(Len(s) + 1) /\ 5 # Len(s) + 1
        BY <4>1
      <4>. HIDE DEF s, S
      <4>4. fw.todo # << >>
        BY ONLY <4>1, <4>2, <4>3, NextCommand
      <4>. QED
        BY <2>1, <4>4 DEF IInv, States, Listens
    <3>. QED
      BY <1>3, <1>10, <2>1, <3>1 DEF Sends, Staged
  <2>2. ASSUME chip.mode = "rx"
        PROVE  chip'.mode = "rx"
    BY <1>5, <2>2
  <2>. QED
    BY <2>1, <2>2 DEF IInv, Stages, Staged
<1>12. Listens'
  BY <1>3, <1>5, <1>10 DEF IInv, Listens
<1>13. Airs'
  BY <1>4, <1>5 DEF Airs, IInv, OnAir
<1>14. OneAtATime'
  <2>. SUFFICES ASSUME ~GivesUp
                PROVE  OneAtATime'
    BY DEF OneAtATime
  <2>1. chip.mode = "tx" /\ OnAir /\ ~chip.hasPendingTx /\ Only(toNode, "TxDone")
    BY DEF IInv, OneAtATime, OnAir
  <2>2. ~Holds(toNode', "TxDone") /\ eng.waves = 0 /\ ~Holds(toEngine, "Frame")
    BY <2>1 DEF IInv, OneAtATime, Shapes
  <2>. QED
    BY <1>3, <1>4, <1>9, <2>1, <2>2 DEF IInv, OneAtATime, OnAir
<1>15. Quiet'
  BY <1>3 DEF IInv, Quiet
<1>16. GoesOut'
  BY <1>3 DEF IInv, GoesOut, Out
<1>. QED
  BY <1>6, <1>7, <1>8, <1>11, <1>12, <1>13, <1>14, <1>15, <1>16 DEF IInv

\* What a tick writes: a frame, if there was one, and two messages more.
Written(s, p, at) ==
  s \o [i \in 1..Len(p) |-> [kind |-> "Frame", frame |-> p[i]]]
    \o << [kind |-> "Stats"], [kind |-> "Ack", at |-> at] >>

LEMMA TickTold ==
  ASSUME NEW s \in Seq(ToEngine), ~Holds(s, "Ack"), NEW p,
         p = << >> \/ \E f \in Payloads : p = << f >>, NEW at \in Nat, NEW t,
         t = Written(s, p, at)
  PROVE  /\ t \in Seq(ToEngine)
         /\ \A i \in 1..Len(t) : t[i].kind = "Ack" => i = Len(t) /\ t[i].at = at
         /\ Holds(t, "Frame") <=> Holds(s, "Frame") \/ p # << >>
         /\ Only(s, "Frame") /\ (p # << >> => ~Holds(s, "Frame")) => Only(t, "Frame")
<1>. DEFINE fs == [i \in 1..Len(p) |-> [kind |-> "Frame", frame |-> p[i]]]
            stats == [kind |-> "Stats"]
            ack == [kind |-> "Ack", at |-> at]
            u == s \o fs
            v == Append(u, stats)
<1>1. /\ stats \in ToEngine /\ stats.kind = "Stats"
      /\ ack \in ToEngine /\ ack.kind = "Ack" /\ ack.at = at
  BY DEF ToEngine
<1>2. /\ u \in Seq(ToEngine)
      /\ \A kind : Holds(u, kind) <=> Holds(s, kind) \/ (p # << >> /\ kind = "Frame")
      /\ Only(s, "Frame") /\ (p # << >> => ~Holds(s, "Frame")) => Only(u, "Frame")
  <2>1. CASE p = << >>
    <3>1. fs = << >>
      BY <2>1
    <3>2. u = s
      BY <3>1, <1>1, JoinedTwo
    <3>. HIDE DEF u
    <3>. QED
      BY <2>1, <3>2
  <2>2. ASSUME NEW f \in Payloads, p = << f >>
        PROVE  <1>2
    <3>. DEFINE m == [kind |-> "Frame", frame |-> f]
    <3>1. m \in ToEngine /\ m.kind = "Frame"
      BY DEF ToEngine
    <3>2. fs = << m >>
      BY <2>2
    <3>. HIDE DEF m, fs
    <3>3. u = Append(s, m)
      BY <3>1, <3>2, JoinedTwo
    <3>4. Append(s, m) \in Seq(ToEngine) /\ p # << >>
      BY <2>2, <3>1
    <3>. HIDE DEF u
    <3>. QED
      BY <3>1, <3>3, <3>4, Told
  <2>. QED
    BY <2>1, <2>2
<1>3. t = Append(v, ack)
  <2>0. u \in Seq(ToEngine)
    BY <1>2
  <2>1. t = u \o << stats, ack >>
    BY Zenon DEF Written
  <2>. HIDE DEF u, stats, ack
  <2>. QED
    BY ONLY <1>1, <2>0, <2>1, JoinedTwo
<1>. HIDE DEF u, stats, ack, fs
<1>4. /\ v \in Seq(ToEngine)
      /\ \A kind : Holds(v, kind) <=> Holds(u, kind) \/ kind = "Stats"
      /\ Only(u, "Frame") => Only(v, "Frame")
  <2>1. v \in Seq(ToEngine)
    BY <1>1, <1>2
  <2>2. v = Append(u, stats)
    OBVIOUS
  <2>. HIDE DEF v
  <2>. QED
    BY <1>1, <1>2, <2>1, <2>2, Told
<1>. HIDE DEF v
<1>5. /\ Holds(t, "Frame") <=> Holds(v, "Frame")
      /\ Only(v, "Frame") => Only(t, "Frame")
  BY <1>1, <1>3, <1>4, Told
<1>6. /\ t \in Seq(ToEngine) /\ Len(v) \in Nat /\ Len(t) = Len(v) + 1 /\ t[Len(v) + 1] = ack
      /\ \A i \in 1..Len(v) : t[i] = v[i]
  <2>1. v \in Seq(ToEngine)
    BY <1>4
  <2>. QED
    BY ONLY <1>1, <1>3, <2>1
<1>7. \A i \in 1..Len(t) : i \in 1..Len(v) \/ i = Len(v) + 1
  BY <1>6
<1>8. \A i \in 1..Len(v) : v[i].kind # "Ack"
  BY <1>2, <1>4 DEF Holds
<1>9. \A i \in 1..Len(t) : t[i].kind = "Ack" => i = Len(t) /\ t[i].at = at
  BY ONLY <1>1, <1>6, <1>7, <1>8
<1>. QED
  BY <1>2, <1>4, <1>5, <1>6, <1>9, Zenon

\* A tick: the milliseconds are stepped through, what was sent is drained, and the
\* acknowledgement is the last thing written.
LEMMA TakeTickKeeps ==
  ASSUME IInv, TakeTick
  PROVE  IInv'
<1>. DEFINE at == Head(toNode).at
            d == Stepped(chip, at)
<1>1. /\ Take("Tick") /\ chip' = TakeTx(d) /\ sim' = at /\ aired' = aired \o Pending
      /\ toEngine' = toEngine
           \o [i \in 1..Len(Pending) |-> [kind |-> "Frame", frame |-> Pending[i]]]
           \o << [kind |-> "Stats"], [kind |-> "Ack", at |-> at] >>
  BY DEF TakeTick
<1>2. /\ 1 \in 1..Len(toNode) /\ toNode[1] = Head(toNode) /\ toNode[1].kind = "Tick"
      /\ Holds(toNode, "Tick") /\ toNode' \in Seq(ToNode) /\ Head(toNode) \in ToNode
      /\ Len(toNode) \in Nat /\ Len(toNode') = Len(toNode) - 1
      /\ UNCHANGED <<eng, txn, mcu, fw, hist>>
      /\ \A k : Holds(toNode, k) /\ "Tick" # k => Holds(toNode', k)
      /\ \A k : Holds(toNode', k) => Holds(toNode, k)
      /\ \A k : Only(toNode, k) => Only(toNode', k)
  BY <1>1, TakeFacts
<1>3. /\ Len(toNode) = 1 /\ at >= sim /\ ~Holds(toEngine, "Ack") /\ eng.waiting
      /\ Len(toNode') = 0
  BY <1>2 DEF IInv, Turns
<1>4. at \in Nat /\ sim \in Nat /\ ChipShape(chip) /\ toEngine \in Seq(ToEngine)
      /\ aired \in Seq(Payloads) /\ hist.sent \in Seq(OutFrames)
  BY <1>2 DEF ToNode, IInv, Shapes
<1>. HIDE DEF at, d
<1>5. Calm(chip, d)
  BY <1>3, <1>4, SteppedIsCalm DEF d
<1>6. /\ ChipShape(chip') /\ chip'.mode = d.mode /\ chip'.irqMask = d.irqMask
      /\ chip'.txLen = d.txLen /\ chip'.irq = d.irq /\ chip'.hasPendingTx = FALSE
      /\ chip'.inbox = d.inbox /\ chip'.buffer = d.buffer
  <2>1. ChipShape(d)
    BY <1>5 DEF Calm, Alike
  <2>. QED
    BY <1>1, <2>1, Zenon DEF TakeTx, ChipShape, Fields
<1>7. /\ chip'.mode = chip.mode /\ chip'.irqMask = chip.irqMask /\ chip'.txLen = chip.txLen
      /\ "TxDone" \in chip'.irq <=> "TxDone" \in chip.irq
      /\ "Timeout" \in chip'.irq <=> "Timeout" \in chip.irq
      /\ chip.inbox = << >> => chip'.inbox = << >> /\ chip'.buffer = chip.buffer
  BY <1>5, <1>6 DEF Calm, Alike
<1>8. IF chip.hasPendingTx THEN Pending = << chip.pendingTx >> /\ chip.pendingTx \in Payloads
      ELSE Pending = << >>
  BY <1>4 DEF Pending, ChipShape
<1>9. Pending # << >> <=> chip.hasPendingTx
  BY <1>8
<1>10. /\ toEngine' \in Seq(ToEngine)
       /\ \A i \in 1..Len(toEngine') :
            toEngine'[i].kind = "Ack" => i = Len(toEngine') /\ toEngine'[i].at = at
       /\ Holds(toEngine', "Frame") <=> Holds(toEngine, "Frame") \/ chip.hasPendingTx
       /\ Only(toEngine, "Frame") /\ (chip.hasPendingTx => ~Holds(toEngine, "Frame"))
            => Only(toEngine', "Frame")
  <2>1. Pending = << >> \/ \E f \in Payloads : Pending = << f >>
    BY <1>8
  <2>2. toEngine' = Written(toEngine, Pending, at)
    BY <1>1, Zenon DEF Written
  <2>. DEFINE p == Pending
              t == toEngine'
  <2>3. /\ p = << >> \/ \E f \in Payloads : p = << f >>
        /\ p # << >> <=> chip.hasPendingTx
        /\ t = Written(toEngine, p, at)
    BY <1>9, <2>1, <2>2, Zenon
  <2>. HIDE DEF p, t
  <2>4. /\ t \in Seq(ToEngine)
        /\ \A i \in 1..Len(t) : t[i].kind = "Ack" => i = Len(t) /\ t[i].at = at
        /\ Holds(t, "Frame") <=> Holds(toEngine, "Frame") \/ p # << >>
        /\ Only(toEngine, "Frame") /\ (p # << >> => ~Holds(toEngine, "Frame"))
             => Only(t, "Frame")
    BY ONLY <1>3, <1>4, <2>3, TickTold
  <2>. QED
    BY <2>3, <2>4, Zenon DEF t
<1>11. IF chip.hasPendingTx THEN aired' = Append(aired, chip.pendingTx) ELSE aired' = aired
  <2>1. CASE chip.hasPendingTx
    <3>1. aired' = aired \o << chip.pendingTx >> /\ chip.pendingTx \in Payloads
      BY <1>1, <1>8, <2>1
    <3>. QED
      BY <1>4, <2>1, <3>1, JoinedTwo
  <2>2. CASE ~chip.hasPendingTx
    <3>1. aired' = aired \o << >> /\ << >> \in Payloads
      BY <1>1, <1>8, <2>2, EmptyPayload
    <3>. QED
      BY <1>4, <2>2, <3>1, JoinedTwo
  <2>. QED
    BY <2>1, <2>2
<1>12. /\ aired' \in Seq(Payloads)
       /\ Len(aired) \in Nat /\ Len(hist.sent) \in Nat
       /\ Len(aired') = IF chip.hasPendingTx THEN Len(aired) + 1 ELSE Len(aired)
  <2>1. aired \in Seq(Payloads) /\ hist.sent \in Seq(OutFrames)
    BY <1>4
  <2>2. chip.hasPendingTx => chip.pendingTx \in Payloads
    BY <1>8
  <2>. QED
    BY ONLY <1>11, <2>1, <2>2
<1>13. Shapes'
  BY <1>1, <1>2, <1>4, <1>6, <1>10, <1>12 DEF IInv, Shapes
<1>14. Turns'
  BY <1>1, <1>2, <1>3, <1>10 DEF Turns
<1>15. Reads' /\ States' /\ Stages' /\ Listens'
  <2>1. eng.fed = << >> => chip'.buffer = chip.buffer
    BY <1>7 DEF IInv, Quiet
  <2>. QED
    BY <1>2, <1>7, <2>1, FirmwareStays
<1>16. Airs'
  BY <1>2, <1>7, <1>10 DEF IInv, Airs, OnAir
<1>17. OneAtATime'
  <2>. SUFFICES ASSUME ~GivesUp
                PROVE  OneAtATime'
    BY DEF OneAtATime
  <2>1. /\ "Timeout" \notin chip'.irq
        /\ fw'.state = "tx" /\ fw'.ready => "TxDone" \in chip'.irq
        /\ chip'.mode = "tx" => fw'.state = "tx" \/ (fw'.pc = "sent" /\ fw'.todo = << >>)
        /\ ~chip'.hasPendingTx
    BY <1>2, <1>6, <1>7 DEF IInv, OneAtATime
  <2>2. chip.hasPendingTx =>
          chip.mode = "tx" /\ eng.waves = 0 /\ ~Holds(toEngine, "Frame")
            /\ ~Holds(toNode, "TxDone")
    BY DEF IInv, OneAtATime, OnAir, Shapes
  <2>3. OnAir' => chip'.mode = "tx"
    BY <1>2, <1>7, <1>10, <2>2 DEF IInv, OneAtATime, OnAir
  <2>4. /\ eng'.waves <= 1
        /\ eng'.waves > 0 => ~Holds(toEngine', "Frame") /\ ~Holds(toNode', "TxDone")
        /\ ~(Holds(toEngine', "Frame") /\ Holds(toNode', "TxDone"))
        /\ Only(toEngine', "Frame") /\ Only(toNode', "TxDone")
    BY <1>2, <1>10, <2>2 DEF IInv, OneAtATime
  <2>. QED
    BY <2>1, <2>3, <2>4 DEF OneAtATime
<1>18. Quiet'
  BY <1>2, <1>7 DEF IInv, Quiet
<1>19. GoesOut'
  <2>. SUFFICES ASSUME ~GivesUp
                PROVE  GoesOut'
    BY DEF GoesOut
  <2>1. CASE ~chip.hasPendingTx
    <3>1. aired' = aired /\ hist' = hist /\ eng' = eng /\ ~chip'.hasPendingTx
      BY <1>2, <1>6, <1>11, <2>1
    <3>2. Out' <=> Out
      BY <1>2, <2>1, <3>1 DEF Out
    <3>. QED
      BY <3>1, <3>2, Zenon DEF IInv, GoesOut
  <2>2. CASE chip.hasPendingTx
    <3>1. ~(fw.pc = "sent" /\ fw.todo # << >>)
      BY <2>2 DEF IInv, OneAtATime, States
    <3>2. Out /\ ~Out' /\ hist.sent # << >>
      BY <1>2, <1>6, <2>2, <3>1 DEF IInv, GoesOut, Out
    <3>3. /\ Len(aired) = Len(hist.sent) - 1
          /\ eng.fed = << >> => aired = SubSeq(hist.sent, 1, Len(aired))
                                /\ chip.pendingTx = Last(hist.sent)
      BY <2>2, <3>2 DEF IInv, GoesOut
    <3>4. Len(hist.sent) \in Nat /\ Len(aired') = Len(hist.sent)
      BY ONLY <1>12, <2>2, <3>3
    <3>5. eng.fed = << >> => aired' = hist.sent
      <4>1. hist.sent \in Seq(OutFrames)
        BY <1>4
      <4>2. Append(SubSeq(hist.sent, 1, Len(hist.sent) - 1), Last(hist.sent)) = hist.sent
        BY ONLY <3>2, <4>1, FrontAndLast
      <4>. QED
        BY <1>11, <2>2, <3>3, <4>2
    <3>6. SubSeq(hist.sent, 1, Len(hist.sent)) = hist.sent
      BY <1>4, WholeSeq
    <3>. QED
      BY <1>2, <1>6, <3>2, <3>4, <3>5, <3>6 DEF GoesOut
  <2>. QED
    BY <2>1, <2>2
<1>. QED
  BY <1>13, <1>14, <1>15, <1>16, <1>17, <1>18, <1>19 DEF IInv

-----------------------------------------------------------------------------
\* The commands outstanding.

\* Command k of a program is the first outstanding.
Ahead(s, k) == Head(fw.todo) = s[k] /\ Tail(fw.todo) = SubSeq(s, k + 1, Len(s))

LEMMA StagedAhead ==
  ASSUME fw.todo # << >>, NEW s, \E S : s \in Seq(S), NEW k \in 1..(Len(s) + 1), Staged(s, k)
  PROVE  k \in 1..Len(s) /\ Ahead(s, k)
<1>1. PICK S : s \in Seq(S)
  OBVIOUS
<1>2. k \in 1..(Len(s) + 1) /\ fw.todo = SubSeq(s, k, Len(s))
  BY DEF Staged
<1>3. k \in 1..Len(s) /\ Head(fw.todo) = s[k] /\ Tail(fw.todo) = SubSeq(s, k + 1, Len(s))
  BY ONLY <1>1, <1>2, fw.todo # << >>, NextCommand
<1>. QED
  BY <1>3 DEF Ahead

\* The programs are sequences.
LEMMA ProgramsAre ==
  /\ \E S : FinishTransmit \in Seq(S)
  /\ \E S : GetPacketLength \in Seq(S)
  /\ \E S : GetIrqFlags \in Seq(S)
  /\ \E S : ReadData \in Seq(S)
  /\ \E S : StartReceive \in Seq(S)
  /\ \A f : (\E S : StartTransmit(f) \in Seq(S)) /\ Len(StartTransmit(f)) = 5
<1>1. FinishTransmit \in Seq({FinishTransmit[1], FinishTransmit[2]})
  BY DEF FinishTransmit
<1>2. GetPacketLength \in Seq({GetPacketLength[1]})
  BY DEF GetPacketLength
<1>3. GetIrqFlags \in Seq({GetIrqFlags[1]})
  BY DEF GetIrqFlags
<1>4. ReadData \in Seq({ReadData[1], ReadData[2], ReadData[3], ReadData[4]})
  BY DEF ReadData
<1>5. StartReceive \in Seq({StartReceive[1], StartReceive[2], StartReceive[3],
                            StartReceive[4], StartReceive[5]})
  BY DEF StartReceive
<1>6. \A f : /\ StartTransmit(f) \in
                  Seq({StartTransmit(f)[1], StartTransmit(f)[2], StartTransmit(f)[3],
                       StartTransmit(f)[4], StartTransmit(f)[5]})
             /\ Len(StartTransmit(f)) = 5
  BY DEF StartTransmit
<1>. QED
  BY <1>1, <1>2, <1>3, <1>4, <1>5, <1>6, Zenon

\* Where a command is outstanding, and which.
LEMMA Outstanding ==
  ASSUME IInv, fw.todo # << >>
  PROVE  /\ fw.pc \in {"recv", "len", "lbt", "listen", "started", "sent"} /\ fw.state # "tx"
         /\ fw.pc = "recv" => \E k \in 1..2 : Ahead(FinishTransmit, k)
         /\ fw.pc = "len" => Ahead(GetPacketLength, 1)
         /\ fw.pc = "lbt" => Ahead(GetIrqFlags, 1)
         /\ fw.pc = "listen" => \E k \in 1..4 : Ahead(ReadData, k)
         /\ fw.pc = "started" => \E k \in 1..5 : Ahead(StartReceive, k)
         /\ fw.pc = "sent" => hist.sent # << >> /\ \E k \in 1..5 :
              Sends(Last(hist.sent), k) /\ Ahead(StartTransmit(Last(hist.sent)), k)
         /\ ~GivesUp => chip.mode # "tx" /\ ~chip.hasPendingTx /\ ~OnAir
<1>1. fw.pc \in {"recv", "len", "lbt", "listen", "started", "sent"} /\ fw.state # "tx"
  BY DEF IInv, Stages, States
<1>2. fw.pc = "recv" => \E k \in 1..2 : Ahead(FinishTransmit, k)
  <2>. SUFFICES ASSUME fw.pc = "recv"
                PROVE  \E k \in 1..2 : Ahead(FinishTransmit, k)
    OBVIOUS
  <2>1. PICK k \in 1..3 : Staged(FinishTransmit, k)
    BY DEF IInv, Stages
  <2>2. k \in 1..(Len(FinishTransmit) + 1) /\ \E S : FinishTransmit \in Seq(S)
    BY <2>1, Programs, ProgramsAre
  <2>3. k \in 1..Len(FinishTransmit) /\ Ahead(FinishTransmit, k)
    BY <2>1, <2>2, StagedAhead, Zenon
  <2>. QED
    BY <2>3, Programs
<1>3. fw.pc = "len" => Ahead(GetPacketLength, 1)
  <2>. SUFFICES ASSUME fw.pc = "len"
                PROVE  Ahead(GetPacketLength, 1)
    OBVIOUS
  <2>1. PICK k \in 1..2 : Staged(GetPacketLength, k)
    BY DEF IInv, Stages
  <2>2. k \in 1..(Len(GetPacketLength) + 1) /\ \E S : GetPacketLength \in Seq(S)
    BY <2>1, Programs, ProgramsAre
  <2>3. k \in 1..Len(GetPacketLength) /\ Ahead(GetPacketLength, k)
    BY <2>1, <2>2, StagedAhead, Zenon
  <2>. QED
    BY <2>3, Programs
<1>4. fw.pc = "lbt" => Ahead(GetIrqFlags, 1)
  <2>. SUFFICES ASSUME fw.pc = "lbt"
                PROVE  Ahead(GetIrqFlags, 1)
    OBVIOUS
  <2>1. PICK k \in 1..2 : Staged(GetIrqFlags, k)
    BY DEF IInv, Stages
  <2>2. k \in 1..(Len(GetIrqFlags) + 1) /\ \E S : GetIrqFlags \in Seq(S)
    BY <2>1, Programs, ProgramsAre
  <2>3. k \in 1..Len(GetIrqFlags) /\ Ahead(GetIrqFlags, k)
    BY <2>1, <2>2, StagedAhead, Zenon
  <2>. QED
    BY <2>3, Programs
<1>5. fw.pc = "listen" => \E k \in 1..4 : Ahead(ReadData, k)
  <2>. SUFFICES ASSUME fw.pc = "listen"
                PROVE  \E k \in 1..4 : Ahead(ReadData, k)
    OBVIOUS
  <2>1. PICK k \in 1..5 : Staged(ReadData, k)
    BY DEF IInv, Stages
  <2>2. k \in 1..(Len(ReadData) + 1) /\ \E S : ReadData \in Seq(S)
    BY <2>1, Programs, ProgramsAre
  <2>3. k \in 1..Len(ReadData) /\ Ahead(ReadData, k)
    BY <2>1, <2>2, StagedAhead, Zenon
  <2>. QED
    BY <2>3, Programs
<1>6. fw.pc = "started" => \E k \in 1..5 : Ahead(StartReceive, k)
  <2>. SUFFICES ASSUME fw.pc = "started"
                PROVE  \E k \in 1..5 : Ahead(StartReceive, k)
    OBVIOUS
  <2>1. PICK k \in 1..6 : Staged(StartReceive, k)
    BY DEF IInv, Stages
  <2>2. k \in 1..(Len(StartReceive) + 1) /\ \E S : StartReceive \in Seq(S)
    BY <2>1, Programs, ProgramsAre
  <2>3. k \in 1..Len(StartReceive) /\ Ahead(StartReceive, k)
    BY <2>1, <2>2, StagedAhead, Zenon
  <2>. QED
    BY <2>3, Programs
<1>7. fw.pc = "sent" => hist.sent # << >> /\ \E k \in 1..5 :
        Sends(Last(hist.sent), k) /\ Ahead(StartTransmit(Last(hist.sent)), k)
  <2>. SUFFICES ASSUME fw.pc = "sent"
                PROVE  hist.sent # << >> /\ \E k \in 1..5 :
                         Sends(Last(hist.sent), k) /\ Ahead(StartTransmit(Last(hist.sent)), k)
    OBVIOUS
  <2>. DEFINE f == Last(hist.sent)
              s == StartTransmit(f)
  <2>1. hist.sent # << >> /\ \E k \in 1..6 : Sends(f, k)
    BY DEF IInv, Stages
  <2>. HIDE DEF f
  <2>2. PICK k \in 1..6 : Sends(f, k)
    BY <2>1
  <2>3. Staged(s, k) /\ Len(s) = 5 /\ \E S : s \in Seq(S)
    BY <2>2, ProgramsAre DEF Sends
  <2>. HIDE DEF s
  <2>4. k \in 1..(Len(s) + 1)
    BY <2>3
  <2>5. k \in 1..Len(s) /\ Ahead(s, k)
    BY <2>3, <2>4, StagedAhead, Zenon
  <2>6. k \in 1..5
    BY <2>3, <2>5
  <2>. QED
    BY <2>1, <2>2, <2>5, <2>6 DEF s, f
<1>8. ~GivesUp => chip.mode # "tx" /\ ~chip.hasPendingTx /\ ~OnAir
  BY <1>1 DEF IInv, OneAtATime
<1>. QED
  BY <1>1, <1>2, <1>3, <1>4, <1>5, <1>6, <1>7, <1>8

\* What the driver reads, and where.
LEMMA ReadAhead ==
  ASSUME IInv, fw.todo # << >>, IsRead(Head(fw.todo))
  PROVE  /\ fw.pc \in {"len", "lbt", "listen"}
         /\ fw.pc = "lbt" => Head(fw.todo).op = "GetIrqStatus"
<1>1. fw.pc # "recv"
  <2>. SUFFICES ASSUME fw.pc = "recv"
                PROVE  FALSE
    OBVIOUS
  <2>1. PICK k \in 1..2 : Ahead(FinishTransmit, k)
    BY Outstanding
  <2>2. \A j \in 1..2 : FinishTransmit[j].op \in {"ClearIrqStatus", "SetStandby"}
    BY DEF FinishTransmit, Cmd
  <2>. QED
    BY <2>1, <2>2 DEF Ahead, IsRead, ReturnsData
<1>2. fw.pc # "started"
  <2>. SUFFICES ASSUME fw.pc = "started"
                PROVE  FALSE
    OBVIOUS
  <2>1. PICK k \in 1..5 : Ahead(StartReceive, k)
    BY Outstanding
  <2>2. \A j \in 1..5 : StartReceive[j].op \in
          {"SetStandby", "SetDioIrqParams", "ClearIrqStatus", "SetPacketParams", "SetRx"}
    BY DEF StartReceive, Cmd
  <2>. QED
    BY <2>1, <2>2 DEF Ahead, IsRead, ReturnsData
<1>3. fw.pc # "sent"
  <2>. SUFFICES ASSUME fw.pc = "sent"
                PROVE  FALSE
    OBVIOUS
  <2>1. PICK k \in 1..5 : Ahead(StartTransmit(Last(hist.sent)), k)
    BY Outstanding
  <2>2. \A f : \A j \in 1..5 : StartTransmit(f)[j].op \in
          {"SetPacketParams", "SetDioIrqParams", "WriteBuffer", "ClearIrqStatus", "SetTx"}
    BY DEF StartTransmit, Cmd
  <2>. QED
    BY <2>1, <2>2 DEF Ahead, IsRead, ReturnsData
<1>4. fw.pc = "lbt" => Head(fw.todo).op = "GetIrqStatus"
  BY Outstanding DEF Ahead, GetIrqFlags, Cmd
<1>. QED
  BY <1>1, <1>2, <1>3, <1>4, Outstanding

-----------------------------------------------------------------------------
\* The server takes a request of the emulator's that is no command.

\* What the argument looks into of a chip.
Same(c, d) ==
  /\ ChipShape(d) /\ d.inbox = c.inbox /\ d.buffer = c.buffer
  /\ d.mode = c.mode /\ d.irq = c.irq /\ d.irqMask = c.irqMask /\ d.txLen = c.txLen
  /\ d.hasPendingTx = c.hasPendingTx /\ d.pendingTx = c.pendingTx

\* The shapes of what the emulator and its firmware keep.
Kept ==
  /\ DOMAIN txn = {"cmd", "n"} /\ txn.n \in Nat
  /\ DOMAIN mcu = {"selected", "reply", "pin"} /\ mcu.selected \in BOOLEAN
  /\ DOMAIN fw = FwFields /\ fw.ready \in BOOLEAN /\ fw.state \in {"idle", "rx", "tx"}
  /\ DOMAIN hist = HistFields /\ hist.sent \in Seq(OutFrames)

LEMMA ServeLeaves ==
  ASSUME Serve
  PROVE  UNCHANGED <<sim, aired, eng, toNode, toEngine>>
BY DEF Serve, engineVars

\* No command leaves the list, unless it is a read that is over.
LEMMA ServeKeeps ==
  ASSUME IInv, Serve, Kept', Same(chip, chip'), Reads', Stages',
         fw'.pc = fw.pc, fw'.state = fw.state, hist'.sent = hist.sent,
         fw'.todo = fw.todo \/ fw.pc \in {"len", "lbt", "listen"},
         ~GivesUp /\ fw.state = "tx" /\ fw'.ready => "TxDone" \in chip.irq
  PROVE  IInv'
<1>1. UNCHANGED <<sim, aired, eng, toNode, toEngine>>
  BY ServeLeaves
<1>2. Shapes'
  BY <1>1, Zenon DEF IInv, Shapes, Kept, Same
<1>3. Turns'
  BY <1>1 DEF IInv, Turns
<1>4. States'
  BY DEF IInv, States
<1>5. Listens'
  BY DEF IInv, Listens, InTx, Same
<1>6. Airs'
  BY <1>1 DEF IInv, Airs, OnAir, Same
<1>7. OneAtATime'
  BY <1>1 DEF IInv, OneAtATime, OnAir, Same
<1>8. Quiet'
  BY <1>1 DEF IInv, Quiet, Same
<1>9. GoesOut'
  BY <1>1 DEF IInv, GoesOut, Out, Same
<1>. QED
  BY <1>2, <1>3, <1>4, <1>5, <1>6, <1>7, <1>8, <1>9 DEF IInv

\* Where no command is touched, what is staged stays staged.
LEMMA StagesStay ==
  ASSUME IInv, Same(chip, chip'), fw'.pc = fw.pc, fw'.todo = fw.todo, eng' = eng,
         hist'.sent = hist.sent
  PROVE  Stages'
<1>1. \A f : \A k \in 1..6 : Sends(f, k) => Sends(f, k)'
  BY DEF Sends, Staged, InTx, Same
<1>. QED
  BY <1>1 DEF IInv, Stages, Staged, Same

LEMMA SetFemKeeps ==
  ASSUME IInv, SetFem
  PROVE  IInv'
<1>1. PICK on \in FemLevels : chip' = SetFemEnabled(chip, on)
  BY DEF SetFem
<1>2. Serve /\ UNCHANGED <<txn, mcu, fw, hist>> /\ eng' = eng
  BY ServeLeaves DEF SetFem
<1>3. ChipShape(chip)
  BY DEF IInv, Shapes
<1>4. Same(chip, chip')
  BY <1>1, <1>3, Zenon DEF SetFemEnabled, Same, ChipShape, Fields
<1>5. Kept' /\ Reads'
  BY <1>2 DEF IInv, Shapes, Kept, Reads
<1>6. Stages'
  BY <1>2, <1>4, StagesStay
<1>7. ~GivesUp /\ fw.state = "tx" /\ fw'.ready => "TxDone" \in chip.irq
  BY <1>2 DEF IInv, OneAtATime
<1>. QED
  BY <1>2, <1>4, <1>5, <1>6, <1>7, ServeKeeps

\* A pin that rises while the driver waits for its send says that it is done.
LEMMA ReadIrqKeeps ==
  ASSUME IInv, ReadIrq
  PROVE  IInv'
<1>. DEFINE rises == IrqAsserted(chip) /\ ~mcu.pin
            pin == IrqAsserted(chip)
            ready == fw.ready \/ rises
<1>1. /\ Serve /\ ~mcu.selected /\ UNCHANGED <<chip, txn, hist>> /\ eng' = eng
      /\ mcu' = [mcu EXCEPT !.pin = pin] /\ fw' = [fw EXCEPT !.ready = ready]
  BY ServeLeaves DEF ReadIrq
<1>2. Kept /\ ChipShape(chip)
  BY DEF IInv, Shapes, Kept
<1>3. ready \in BOOLEAN
  BY Zenon
<1>4. rises => \E flag \in chip.irqMask : flag \in chip.irq
  BY DEF IrqAsserted
<1>. HIDE DEF rises, pin
<1>5. ready => fw.ready \/ rises
  OBVIOUS
<1>. HIDE DEF ready
<1>6. /\ DOMAIN mcu' = {"selected", "reply", "pin"} /\ mcu'.selected = mcu.selected
      /\ DOMAIN fw' = FwFields /\ fw'.pc = fw.pc /\ fw'.todo = fw.todo
      /\ fw'.state = fw.state /\ fw'.ready = ready /\ fw'.seen = fw.seen
  BY <1>1, <1>2, Zenon DEF Kept, FwFields
<1>7. Same(chip, chip')
  BY <1>1, <1>2 DEF Same
<1>8. Kept'
  BY <1>1, <1>2, <1>3, <1>6, Zenon DEF Kept
<1>9. Reads'
  BY <1>1, <1>6 DEF IInv, Reads
<1>10. Stages'
  BY <1>1, <1>6, <1>7, StagesStay
<1>11. ~GivesUp /\ fw.state = "tx" /\ fw'.ready => "TxDone" \in chip.irq
  BY <1>4, <1>5, <1>6 DEF IInv, OneAtATime, Listens, TxIrqFlags
<1>. QED
  BY <1>1, <1>6, <1>7, <1>8, <1>9, <1>10, <1>11, ServeKeeps

LEMMA CsAssertKeeps ==
  ASSUME IInv, CsAssert
  PROVE  IInv'
<1>1. /\ Serve /\ fw.todo # << >> /\ IsRead(Head(fw.todo)) /\ ~mcu.selected
      /\ UNCHANGED <<chip, fw, hist>> /\ eng' = eng
      /\ txn' = [cmd |-> Head(fw.todo), n |-> 0]
      /\ mcu' = [mcu EXCEPT !.selected = TRUE, !.reply = << >>]
  BY ServeLeaves DEF CsAssert, BeginTransaction
<1>2. Kept /\ ChipShape(chip)
  BY DEF IInv, Shapes, Kept
<1>3. /\ DOMAIN mcu' = {"selected", "reply", "pin"} /\ mcu'.selected = TRUE
      /\ mcu'.reply = << >>
  BY <1>1, <1>2, Zenon DEF Kept
<1>4. DOMAIN txn' = {"cmd", "n"} /\ txn'.cmd = Head(fw.todo) /\ txn'.n = 0
  BY <1>1
<1>5. Same(chip, chip')
  BY <1>1, <1>2 DEF Same
<1>6. Kept'
  BY <1>1, <1>2, <1>3, <1>4 DEF Kept
<1>7. Reads'
  BY <1>1, <1>3, <1>4 DEF Reads
<1>8. Stages'
  BY <1>1, <1>5, StagesStay
<1>9. ~GivesUp /\ fw.state = "tx" /\ fw'.ready => "TxDone" \in chip.irq
  BY <1>1 DEF IInv, OneAtATime
<1>. QED
  BY <1>1, <1>5, <1>6, <1>7, <1>8, <1>9, ServeKeeps

\* A byte of a read does no more to the chip than count it.
LEMMA ByteActs ==
  ASSUME NEW c, ChipShape(c), NEW t, t.n \in Nat, IsRead(t.cmd)
  PROVE  Same(c, ByteEffect(c, t))
<1>1. t.cmd.op \in ReturnsData
  BY DEF IsRead
<1>2. Padded(t.n) >= MinLength(t.cmd.op)
  BY <1>1 DEF ReturnsData, MinLength, Padded
<1>3. Cut(t.cmd, Padded(t.n)) = t.cmd
  BY <1>1 DEF ReturnsData, Cut
<1>4. ByteEffect(c, t) = RunCommand(c, t.cmd)
  BY <1>1, <1>2, <1>3, Zenon DEF ByteEffect, Effect
<1>5. t.cmd.op \in Harmless /\ t.cmd.op # "ClearIrqStatus"
  BY <1>1 DEF Harmless, ReturnsData
<1>. QED
  BY <1>4, <1>5, HarmlessEffect DEF Same

\* What the register is answered with, byte by byte.
LEMMA ByteAnswers ==
  ASSUME NEW c, NEW t, t.n \in 1..4, t.cmd.op = "GetIrqStatus"
  PROVE  /\ ByteReply(c, t) \in Answers
         /\ t.n = 3 => ByteReply(c, t) = FlagByte(c.irq \cap HighByte)
         /\ t.n = 4 => ByteReply(c, t) = FlagByte(c.irq \cap LowByte)
<1>. DEFINE i == t.n - 1
            p == Padded(t.n)
<1>1. i \in 0..3 /\ (t.n = 3 <=> i = 2) /\ (t.n = 4 <=> i = 3) /\ p >= 5 /\ p >= 4
  BY DEF Padded
<1>2. ByteReply(c, t) = Reply(c, t.cmd, p, i)
  BY Zenon DEF ByteReply, ReturnsData
<1>. HIDE DEF i, p
<1>3. DataBytes(t.cmd.op) = {<<2, 4>>, <<3, 5>>}
  BY DEF DataBytes
<1>4. (\E d \in DataBytes(t.cmd.op) : d[1] = i /\ p >= d[2]) <=> i = 2 \/ i = 3
  <2>1. \A d \in {<<2, 4>>, <<3, 5>>} : d[1] \in {2, 3}
    OBVIOUS
  <2>2. i = 2 => <<2, 4>>[1] = i /\ p >= <<2, 4>>[2] /\ <<2, 4>> \in {<<2, 4>>, <<3, 5>>}
    BY <1>1
  <2>3. i = 3 => <<3, 5>>[1] = i /\ p >= <<3, 5>>[2] /\ <<3, 5>> \in {<<2, 4>>, <<3, 5>>}
    BY <1>1
  <2>. QED
    BY <1>3, <2>1, <2>2, <2>3
<1>5. Reply(c, t.cmd, p, i) =
        IF i = 2 \/ i = 3 THEN Data(c, t.cmd, i) ELSE IF i = 1 THEN Status ELSE Byte(0)
  BY <1>4 DEF Reply
<1>6. Data(c, t.cmd, i) = FlagByte(c.irq \cap (IF i = 2 THEN HighByte ELSE LowByte))
  BY DEF Data
<1>7. /\ c.irq \cap HighByte \in SUBSET Flags
      /\ c.irq \cap LowByte \in SUBSET Flags
  BY DEF Flags
<1>. QED
  <2>1. \A F \in SUBSET Flags : FlagByte(F) \in Answers
    BY Zenon DEF Answers
  <2>2. Byte(0) \in Answers /\ Status \in Answers
    BY DEF Answers
  <2>3. CASE i = 2
    BY <1>1, <1>2, <1>5, <1>6, <1>7, <2>1, <2>3
  <2>4. CASE i = 3
    BY <1>1, <1>2, <1>5, <1>6, <1>7, <2>1, <2>4
  <2>5. CASE i # 2 /\ i # 3
    BY <1>1, <1>2, <1>5, <2>2, <2>5
  <2>. QED
    BY <2>3, <2>4, <2>5

\* What a byte with flags says, and that of the two only the second has those the driver
\* looks for.
LEMMA FlagsRead ==
  ASSUME NEW F
  PROVE  (IF FlagByte(F)[1] = "flags" THEN FlagByte(F)[2] ELSE {}) = F
BY DEF FlagByte, Byte

LEMMA BusyIsLow == BusyFlags \cap HighByte = {} /\ BusyFlags \subseteq LowByte
BY DEF BusyFlags, HighByte, LowByte

\* One byte clocked.
LEMMA XferKeeps ==
  ASSUME IInv, Xfer
  PROVE  IInv'
<1>. DEFINE t == Clocked(txn)
            r == ByteReply(chip', t)
            up == IF txn.cmd.op = "GetIrqStatus" /\ txn.n = 3
                  THEN chip.irq \cap BusyFlags ELSE hist.up
            fresh == IF txn.cmd.op = "ReadBuffer" /\ txn.n = 3 /\ "RxDone" \in chip.irq
                     THEN Append(hist.fresh, Prefix(chip.buffer, fw.len)) ELSE hist.fresh
            reply == Append(mcu.reply, r)
<1>1. /\ Serve /\ mcu.selected /\ txn.n < Wanted(txn.cmd) /\ fw' = fw /\ eng' = eng
      /\ txn' = t /\ chip' = ByteEffect(chip, t)
      /\ mcu' = [mcu EXCEPT !.reply = reply]
      /\ hist' = [hist EXCEPT !.up = up, !.fresh = fresh]
  BY ServeLeaves DEF Xfer
<1>2. Kept /\ ChipShape(chip)
  BY DEF IInv, Shapes, Kept
<1>3. DOMAIN t = {"cmd", "n"} /\ t.cmd = txn.cmd /\ t.n = txn.n + 1
  BY <1>2, Zenon DEF Clocked, Kept
<1>4. /\ fw.todo # << >> /\ txn.cmd = Head(fw.todo) /\ IsRead(txn.cmd)
      /\ txn.cmd.op = "GetIrqStatus" =>
           /\ mcu.reply \in Seq(Answers) /\ Len(mcu.reply) = txn.n
           /\ txn.n >= 3 => \E F \in SUBSET HighByte : mcu.reply[3] = FlagByte(F)
  BY <1>1 DEF IInv, Reads
<1>. HIDE DEF t, r, up, fresh, reply
<1>5. t.n \in Nat /\ txn.n \in Nat
  BY <1>2, <1>3 DEF Kept
<1>6. Same(chip, chip')
  BY <1>1, <1>2, <1>3, <1>4, <1>5, ByteActs
<1>7. /\ DOMAIN mcu' = {"selected", "reply", "pin"} /\ mcu'.selected = mcu.selected
      /\ mcu'.reply = reply
      /\ DOMAIN hist' = HistFields /\ hist'.up = up /\ hist'.sent = hist.sent
  BY <1>1, <1>2, Zenon DEF Kept, HistFields
<1>8. Kept'
  BY <1>1, <1>2, <1>3, <1>5, <1>7, Zenon DEF Kept
<1>9. txn.cmd.op = "GetIrqStatus" =>
        /\ reply \in Seq(Answers) /\ Len(reply) = t.n
        /\ t.n >= 3 => \E F \in SUBSET HighByte : reply[3] = FlagByte(F)
        /\ t.n >= 4 => \E F \in SUBSET LowByte :
             reply[4] = FlagByte(F) /\ F \cap BusyFlags = up
  <2>. SUFFICES ASSUME txn.cmd.op = "GetIrqStatus"
                PROVE  /\ reply \in Seq(Answers) /\ Len(reply) = t.n
                       /\ t.n >= 3 => \E F \in SUBSET HighByte : reply[3] = FlagByte(F)
                       /\ t.n >= 4 => \E F \in SUBSET LowByte :
                            reply[4] = FlagByte(F) /\ F \cap BusyFlags = up
    OBVIOUS
  <2>1. Wanted(txn.cmd) = 4
    BY DEF Wanted, DataBytes, GetterLength
  <2>2. txn.n \in 0..3 /\ t.n \in 1..4
    BY <1>1, <1>3, <1>5, <2>1
  <2>3. /\ r \in Answers
        /\ t.n = 3 => r = FlagByte(chip'.irq \cap HighByte)
        /\ t.n = 4 => r = FlagByte(chip'.irq \cap LowByte)
    BY <1>3, <2>2, ByteAnswers DEF r
  <2>. DEFINE s == mcu.reply
              n == txn.n
  <2>4. s \in Seq(Answers) /\ Len(s) = n /\ n \in 0..3 /\ t.n = n + 1 /\ reply = Append(s, r)
    BY <1>3, <1>4, <2>2 DEF reply
  <2>. HIDE DEF s, n
  <2>5. /\ reply \in Seq(Answers) /\ Len(reply) = n + 1 /\ reply[n + 1] = r
        /\ n >= 3 => reply[3] = s[3]
    <3>1. r \in Answers
      BY <2>3
    <3>2. n >= 3 => 3 \in 1..Len(s)
      BY <2>4
    <3>. QED
      BY ONLY <2>4, <3>1, <3>2
  <2>6. t.n >= 3 => \E F \in SUBSET HighByte : reply[3] = FlagByte(F)
    <3>1. n = 2 \/ n >= 3 \/ t.n < 3
      BY <2>4
    <3>2. CASE n = 2
      <4>1. reply[3] = FlagByte(chip'.irq \cap HighByte)
        BY <2>3, <2>4, <2>5, <3>2
      <4>. QED
        BY <4>1
    <3>3. CASE n >= 3
      BY <1>4, <2>5, <3>3 DEF s, n
    <3>. QED
      BY <2>4, <3>1, <3>2, <3>3
  <2>7. t.n >= 4 => \E F \in SUBSET LowByte : reply[4] = FlagByte(F) /\ F \cap BusyFlags = up
    <3>. SUFFICES ASSUME t.n >= 4
                  PROVE  \E F \in SUBSET LowByte :
                           reply[4] = FlagByte(F) /\ F \cap BusyFlags = up
      OBVIOUS
    <3>1. n = 3 /\ t.n = 4 /\ txn.n = 3
      BY <2>4 DEF n
    <3>2. reply[4] = FlagByte(chip.irq \cap LowByte)
      BY <1>6, <2>3, <2>5, <3>1 DEF Same
    <3>3. up = chip.irq \cap BusyFlags
      BY <3>1 DEF up
    <3>4. (chip.irq \cap LowByte) \cap BusyFlags = up
      BY <3>3, BusyIsLow
    <3>. QED
      BY <3>2, <3>4
  <2>. QED
    BY <2>4, <2>5, <2>6, <2>7
<1>10. Reads'
  BY <1>1, <1>3, <1>4, <1>7, <1>9, Zenon DEF Reads
<1>11. Stages'
  BY <1>1, <1>6, <1>7, StagesStay
<1>12. ~GivesUp /\ fw.state = "tx" /\ fw'.ready => "TxDone" \in chip.irq
  BY <1>1 DEF IInv, OneAtATime
<1>. QED
  BY <1>1, <1>6, <1>7, <1>8, <1>10, <1>11, <1>12, ServeKeeps

\* The chip select released: the read is over.
LEMMA CsReleaseKeeps ==
  ASSUME IInv, CsRelease
  PROVE  IInv'
<1>. DEFINE op == txn.cmd.op
            value(i) == mcu.reply[i + 1][2]
            flags(i) == IF mcu.reply[i + 1][1] = "flags" THEN value(i) ELSE {}
            len == IF op # "GetRxBufferStatus" THEN fw.len
                   ELSE IF fw.pc = "len" \/ value(2) < fw.len THEN value(2) ELSE fw.len
            seen == IF op = "GetIrqStatus"
                    THEN (flags(2) \cup flags(3)) \cap BusyFlags ELSE fw.seen
            heard == IF op = "ReadBuffer"
                     THEN Append(hist.heard, [i \in 1..fw.len |-> value(i + 2)]) ELSE hist.heard
            rest == Tail(fw.todo)
<1>1. /\ Serve /\ mcu.selected /\ txn.n = Wanted(txn.cmd) /\ eng' = eng
      /\ chip' = EndTransaction(chip, txn) /\ txn' = [cmd |-> NoCommand, n |-> 0]
      /\ mcu' = [mcu EXCEPT !.selected = FALSE, !.reply = << >>]
      /\ fw' = [fw EXCEPT !.todo = rest, !.len = len, !.seen = seen]
      /\ hist' = [hist EXCEPT !.heard = heard]
  BY ServeLeaves, Zenon DEF CsRelease, BeginTransaction
<1>2. Kept /\ ChipShape(chip)
  BY DEF IInv, Shapes, Kept
<1>3. /\ fw.todo # << >> /\ txn.cmd = Head(fw.todo) /\ IsRead(txn.cmd)
      /\ txn.cmd.op = "GetIrqStatus" =>
           /\ txn.n >= 3 => \E F \in SUBSET HighByte : mcu.reply[3] = FlagByte(F)
           /\ txn.n >= 4 => \E F \in SUBSET LowByte :
                mcu.reply[4] = FlagByte(F) /\ F \cap BusyFlags = hist.up
  BY <1>1 DEF IInv, Reads
<1>4. chip' = chip
  BY <1>1, <1>3 DEF EndTransaction, IsRead
<1>5. fw.pc \in {"len", "lbt", "listen"} /\ (fw.pc = "lbt" => op = "GetIrqStatus")
  BY <1>3, ReadAhead
<1>6. op = "GetIrqStatus" => seen = hist.up
  <2>. SUFFICES ASSUME op = "GetIrqStatus"
                PROVE  seen = hist.up
    OBVIOUS
  <2>1. txn.n = 4
    BY <1>1 DEF Wanted, DataBytes, GetterLength
  <2>2. PICK F \in SUBSET HighByte : mcu.reply[3] = FlagByte(F)
    BY <1>3, <2>1
  <2>3. PICK G \in SUBSET LowByte : mcu.reply[4] = FlagByte(G) /\ G \cap BusyFlags = hist.up
    BY <1>3, <2>1
  <2>4. mcu.reply[2 + 1] = FlagByte(F) /\ mcu.reply[3 + 1] = FlagByte(G)
    BY <2>2, <2>3
  <2>5. flags(2) = F /\ flags(3) = G
    BY <2>4, FlagsRead, Zenon
  <2>6. seen = (F \cup G) \cap BusyFlags
    BY <2>5, Zenon
  <2>. HIDE DEF seen
  <2>. QED
    BY <2>2, <2>3, <2>6, BusyIsLow
<1>. HIDE DEF len, seen, heard, rest
<1>7. /\ DOMAIN mcu' = {"selected", "reply", "pin"} /\ mcu'.selected = FALSE
      /\ DOMAIN fw' = FwFields /\ fw'.pc = fw.pc /\ fw'.todo = rest
      /\ fw'.state = fw.state /\ fw'.ready = fw.ready /\ fw'.seen = seen
      /\ DOMAIN hist' = HistFields /\ hist'.sent = hist.sent /\ hist'.up = hist.up
  BY <1>1, <1>2, Zenon DEF Kept, FwFields, HistFields
<1>8. Kept'
  <2>1. DOMAIN txn' = {"cmd", "n"} /\ txn'.n \in Nat /\ FALSE \in BOOLEAN
    BY <1>1
  <2>. QED
    BY <1>2, <1>7, <2>1, Zenon DEF Kept
<1>9. Same(chip, chip')
  BY <1>2, <1>4 DEF Same
<1>10. Reads'
  BY <1>5, <1>6, <1>7 DEF Reads
<1>11. Stages'
  <2>1. fw.pc = "len" => fw'.todo = SubSeq(GetPacketLength, 1 + 1, Len(GetPacketLength))
    BY <1>3, <1>7, Outstanding DEF Ahead, rest
  <2>2. fw.pc = "lbt" => fw'.todo = SubSeq(GetIrqFlags, 1 + 1, Len(GetIrqFlags))
    BY <1>3, <1>7, Outstanding DEF Ahead, rest
  <2>3. fw.pc = "listen" =>
          \E k \in 1..4 : fw'.todo = SubSeq(ReadData, k + 1, Len(ReadData))
    BY <1>3, <1>7, Outstanding DEF Ahead, rest
  <2>4. fw.pc = "listen" => \E k \in 1..5 : fw'.todo = SubSeq(ReadData, k, Len(ReadData))
    <3>1. \A k \in 1..4 : k + 1 \in 1..5
      OBVIOUS
    <3>. QED
      BY <2>3, <3>1
  <2>. QED
    BY <1>5, <1>7, <2>1, <2>2, <2>4 DEF Stages, Staged
<1>12. ~GivesUp /\ fw.state = "tx" /\ fw'.ready => "TxDone" \in chip.irq
  BY <1>7 DEF IInv, OneAtATime
<1>. QED
  BY <1>1, <1>5, <1>7, <1>8, <1>9, <1>10, <1>11, <1>12, ServeKeeps

-----------------------------------------------------------------------------
\* The server takes a command that is no read.

\* What a command still leaves to send.
LEMMA RestAhead ==
  ASSUME NEW s, \E S : s \in Seq(S), NEW k \in 1..Len(s), Ahead(s, k)
  PROVE  Tail(fw.todo) = << >> <=> k = Len(s)
<1>1. PICK S : s \in Seq(S)
  OBVIOUS
<1>. DEFINE j == k + 1
            u == Tail(fw.todo)
<1>2. j \in 1..(Len(s) + 1) /\ u = SubSeq(s, j, Len(s)) /\ (j = Len(s) + 1 <=> k = Len(s))
  BY DEF Ahead
<1>. HIDE DEF j, u
<1>3. s \in Seq(S) /\ j \in 1..(Len(s) + 1) /\ u = SubSeq(s, j, Len(s))
  BY <1>1, <1>2
<1>4. u = << >> => j = Len(s) + 1
  BY ONLY <1>3, NextCommand
<1>5. j = Len(s) + 1 => u = << >>
  BY ONLY <1>3, NextCommand
<1>. QED
  BY <1>2, <1>4, <1>5 DEF u

\* At the release the chip acts on the whole command.
LEMMA WriteActs ==
  ASSUME NEW c, NEW cmd,
         \/ cmd.op \in {"SetStandby", "SetRx", "SetTx", "SetPacketParams",
                        "SetDioIrqParams", "ClearIrqStatus"}
         \/ \E f \in Payloads : cmd = Cmd("WriteBuffer", << 0, f >>)
  PROVE  EndTransaction(c, [cmd |-> cmd, n |-> Wanted(cmd)]) = RunCommand(c, cmd)
<1>. DEFINE n == Wanted(cmd)
<1>1. SUFFICES n # 0 /\ cmd.op \notin ReturnsData /\ n >= MinLength(cmd.op)
                 /\ Cut(cmd, n) = cmd
  BY Zenon DEF EndTransaction, Effect
<1>2. CASE cmd.op \in {"SetStandby", "SetRx", "SetTx", "SetPacketParams",
                       "SetDioIrqParams", "ClearIrqStatus"}
  <2>1. DataBytes(cmd.op) = {}
    BY <1>2 DEF DataBytes
  <2>2. n = MinLength(cmd.op)
    BY <1>2, <2>1 DEF Wanted
  <2>3. MinLength(cmd.op) \in Nat \ {0}
    BY <1>2 DEF MinLength
  <2>. HIDE DEF n
  <2>. QED
    BY <1>2, <2>2, <2>3 DEF ReturnsData, Cut
<1>3. ASSUME NEW f \in Payloads, cmd = Cmd("WriteBuffer", << 0, f >>)
      PROVE  n # 0 /\ cmd.op \notin ReturnsData /\ n >= MinLength(cmd.op)
                 /\ Cut(cmd, n) = cmd
  <2>1. cmd.op = "WriteBuffer" /\ cmd.arg[1] = 0 /\ cmd.arg[2] = f
    BY <1>3 DEF Cmd
  <2>2. PICK m \in 0..MaxPayload : f \in [1..m -> Bytes]
    BY DEF Payloads
  <2>3. m \in Nat /\ Len(f) = m /\ f \in Seq(Bytes)
    BY <2>2, BufLenAssumption DEF MaxPayload
  <2>4. DataBytes(cmd.op) = {}
    BY <2>1 DEF DataBytes
  <2>5. n = 2 + m
    BY <2>1, <2>3, <2>4 DEF Wanted
  <2>6. MinLength(cmd.op) = 2
    BY <2>1 DEF MinLength
  <2>. HIDE DEF n
  <2>7. SubSeq(f, 1, IF n - 2 < Len(f) THEN n - 2 ELSE Len(f)) = f
    <3>1. (IF n - 2 < Len(f) THEN n - 2 ELSE Len(f)) = Len(f)
      BY <2>3, <2>5
    <3>2. SubSeq(f, 1, Len(f)) = f
      BY <2>3, WholeSeq
    <3>. QED
      BY <3>1, <3>2
  <2>8. Cut(cmd, n) = [cmd EXCEPT !.arg = << 0, f >>]
    BY <2>1, <2>7 DEF Cut
  <2>9. Cut(cmd, n) = cmd
    BY <1>3, <2>8, Zenon DEF Cmd
  <2>. QED
    BY <2>1, <2>3, <2>5, <2>6, <2>9 DEF ReturnsData
<1>. QED
  BY <1>2, <1>3

\* What such a command leaves as it is.
WriteLeaves ==
  /\ UNCHANGED <<sim, aired, eng, toNode, toEngine, txn, mcu, hist>>
  /\ ~mcu.selected /\ fw.todo # << >> /\ ~IsRead(Head(fw.todo))
  /\ DOMAIN fw' = FwFields /\ fw'.pc = fw.pc /\ fw'.state = fw.state
  /\ fw'.ready = fw.ready /\ fw'.seen = fw.seen /\ fw'.todo = Tail(fw.todo)
  /\ fw.pc \in {"recv", "listen", "started", "sent"} /\ fw.state # "tx"
  /\ ChipShape(chip)

LEMMA WriteFacts ==
  ASSUME IInv, Write
  PROVE  /\ WriteLeaves
         /\ chip' = EndTransaction(chip, [cmd |-> Head(fw.todo), n |-> Wanted(Head(fw.todo))])
<1>. DEFINE rest == Tail(fw.todo)
<1>1. /\ fw.todo # << >> /\ ~IsRead(Head(fw.todo))
      /\ chip' = EndTransaction(chip, [cmd |-> Head(fw.todo), n |-> Wanted(Head(fw.todo))])
      /\ fw' = [fw EXCEPT !.todo = rest]
      /\ UNCHANGED <<sim, aired, eng, toNode, toEngine, txn, mcu, hist>>
  BY ServeLeaves DEF Write
<1>2. ChipShape(chip) /\ DOMAIN fw = FwFields
  BY DEF IInv, Shapes
<1>3. ~mcu.selected
  BY <1>1, Zenon DEF IInv, Reads
<1>4. fw.pc # "len" /\ fw.pc # "lbt"
  BY <1>1, Outstanding DEF Ahead, GetPacketLength, GetIrqFlags, Cmd, IsRead, ReturnsData
<1>5. fw.pc \in {"recv", "len", "lbt", "listen", "started", "sent"} /\ fw.state # "tx"
  BY <1>1, Outstanding
<1>. HIDE DEF rest
<1>6. /\ DOMAIN fw' = FwFields /\ fw'.pc = fw.pc /\ fw'.state = fw.state
      /\ fw'.ready = fw.ready /\ fw'.seen = fw.seen /\ fw'.todo = rest
  BY <1>1, <1>2, Zenon DEF FwFields
<1>7. fw.pc \in {"recv", "listen", "started", "sent"}
  BY <1>4, <1>5
<1>. QED
  BY <1>1, <1>2, <1>3, <1>5, <1>6, <1>7, Zenon DEF WriteLeaves, rest

\* It is enough to look at the command.
LEMMA CommandKeeps ==
  ASSUME IInv, Write, Stages', ChipShape(chip'), chip'.inbox = chip.inbox,
         fw.state = "rx" /\ (fw.pc = "sent" => fw'.todo # << >>)
           /\ (fw.pc = "started" => fw'.todo = << >>) => chip'.mode = "rx",
         chip'.mode = "tx" =>
           \/ chip'.hasPendingTx
           \/ chip.mode = "tx" /\ chip'.hasPendingTx = chip.hasPendingTx,
         ~GivesUp /\ (chip'.mode = "tx" \/ chip'.hasPendingTx) =>
           fw.pc = "sent" /\ fw'.todo = << >> /\ chip'.mode = "tx",
         fw.pc = "sent" /\ fw'.todo = << >> => chip'.hasPendingTx,
         ~GivesUp /\ eng.fed = << >> /\ chip'.hasPendingTx => chip'.pendingTx = Last(hist.sent),
         "Timeout" \in chip'.irq => "Timeout" \in chip.irq
  PROVE  IInv'
<1>1. WriteLeaves
  BY WriteFacts
<1>2. ~GivesUp => chip.mode # "tx" /\ ~chip.hasPendingTx /\ ~OnAir
  BY <1>1, Outstanding DEF WriteLeaves
<1>3. Shapes'
  BY <1>1, Zenon DEF IInv, Shapes, WriteLeaves
<1>4. Turns'
  BY <1>1 DEF IInv, Turns, WriteLeaves
<1>5. Reads'
  BY <1>1 DEF Reads, WriteLeaves
<1>6. States'
  BY <1>1 DEF IInv, States, WriteLeaves
<1>7. Listens'
  BY <1>1 DEF Listens, WriteLeaves
<1>8. Airs'
  BY <1>1 DEF IInv, Airs, OnAir, WriteLeaves
<1>9. OneAtATime'
  <2>. SUFFICES ASSUME ~GivesUp
                PROVE  OneAtATime'
    BY DEF OneAtATime
  <2>1. ~OnAir'
    BY <1>1, <1>2 DEF OnAir, WriteLeaves
  <2>. QED
    BY <1>1, <2>1 DEF IInv, OneAtATime, WriteLeaves
<1>10. Quiet'
  BY <1>1 DEF IInv, Quiet, WriteLeaves
<1>11. GoesOut'
  <2>. SUFFICES ASSUME ~GivesUp
                PROVE  GoesOut'
    BY DEF GoesOut
  <2>1. Out' <=> Out
    BY <1>1, <1>2 DEF Out, WriteLeaves
  <2>. QED
    BY <1>1, <2>1 DEF IInv, GoesOut, WriteLeaves
<1>. QED
  BY <1>3, <1>4, <1>5, <1>6, <1>7, <1>8, <1>9, <1>10, <1>11 DEF IInv

\* Even more so if it does not start a transmission.
LEMMA NoSendKeeps ==
  ASSUME IInv, Write, Stages', ChipShape(chip'), chip'.inbox = chip.inbox,
         fw.state = "rx" /\ (fw.pc = "started" => fw'.todo = << >>) => chip'.mode = "rx",
         fw.pc = "sent" => fw'.todo # << >>,
         chip'.mode = "tx" => chip.mode = "tx",
         chip'.hasPendingTx = chip.hasPendingTx,
         "Timeout" \in chip'.irq => "Timeout" \in chip.irq
  PROVE  IInv'
<1>1. ~GivesUp => chip.mode # "tx" /\ ~chip.hasPendingTx
  BY WriteFacts, Outstanding DEF WriteLeaves
<1>. QED
  BY <1>1, CommandKeeps

\* The kinds of command the driver sends.
LEMMA ClearKeeps ==
  ASSUME IInv, Write, Stages', Head(fw.todo).op = "ClearIrqStatus",
         fw.pc \in {"sent", "started"} => fw'.todo # << >>
  PROVE  IInv'
<1>1. WriteLeaves /\ chip' = RunCommand(chip, Head(fw.todo))
  BY WriteFacts, WriteActs
<1>2. /\ ChipShape(chip') /\ chip'.inbox = chip.inbox /\ chip'.mode = chip.mode
      /\ chip'.hasPendingTx = chip.hasPendingTx /\ chip'.irq \subseteq chip.irq
  BY <1>1, HarmlessEffect DEF WriteLeaves, Harmless
<1>3. fw.state = "rx" /\ (fw.pc = "started" => fw'.todo = << >>) => chip'.mode = "rx"
  BY <1>1, <1>2 DEF IInv, Listens, WriteLeaves
<1>. QED
  BY <1>2, <1>3, NoSendKeeps

LEMMA StandbyKeeps ==
  ASSUME IInv, Write, Stages', Head(fw.todo).op \in {"SetStandby", "SetRx"},
         \/ fw.pc = "recv"
         \/ fw.pc = "started" /\ (Head(fw.todo).op = "SetRx" \/ fw'.todo # << >>)
  PROVE  IInv'
<1>1. WriteLeaves /\ chip' = RunCommand(chip, Head(fw.todo))
  BY WriteFacts, WriteActs
<1>2. /\ ChipShape(chip') /\ chip'.inbox = chip.inbox
      /\ chip'.mode = IF Head(fw.todo).op = "SetRx" THEN "rx" ELSE "standby"
      /\ chip'.hasPendingTx = chip.hasPendingTx /\ chip'.irq = chip.irq
  BY <1>1, StandbyEffect DEF WriteLeaves
<1>3. fw.pc = "recv" => fw.state = "idle"
  BY <1>1 DEF IInv, States, WriteLeaves
<1>. QED
  BY <1>1, <1>2, <1>3, NoSendKeeps DEF WriteLeaves

LEMMA StageKeeps ==
  ASSUME IInv, Write, Stages', NEW cmd, cmd = Head(fw.todo),
         \/ cmd.op = "SetPacketParams" /\ cmd.arg \in 0..MaxPayload
         \/ cmd.op = "SetDioIrqParams"
         \/ \E f \in Payloads : cmd = Cmd("WriteBuffer", << 0, f >>),
         fw.pc \in {"sent", "started"}, fw'.todo # << >>
  PROVE  IInv'
<1>1. WriteLeaves /\ chip' = RunCommand(chip, cmd)
  BY WriteFacts, WriteActs
<1>2. \/ cmd.op = "SetPacketParams" /\ cmd.arg \in 0..MaxPayload
      \/ cmd.op = "SetDioIrqParams"
      \/ cmd.op = "WriteBuffer" /\ cmd.arg[1] = 0 /\ cmd.arg[2] \in Payloads
  <2>1. ASSUME NEW f \in Payloads, cmd = Cmd("WriteBuffer", << 0, f >>)
        PROVE  cmd.op = "WriteBuffer" /\ cmd.arg[1] = 0 /\ cmd.arg[2] = f
    BY <2>1 DEF Cmd
  <2>. QED
    BY <2>1
<1>3. /\ ChipShape(chip') /\ chip'.inbox = chip.inbox /\ chip'.mode = chip.mode
      /\ chip'.hasPendingTx = chip.hasPendingTx /\ chip'.irq = chip.irq
  BY <1>1, <1>2, StageEffect DEF WriteLeaves
<1>4. fw.state = "rx" /\ (fw.pc = "started" => fw'.todo = << >>) => chip'.mode = "rx"
  BY <1>1, <1>3 DEF IInv, Listens, WriteLeaves
<1>. QED
  BY <1>3, <1>4, NoSendKeeps

\* The programs, command by command.
LEMMA FinishKeeps ==
  ASSUME IInv, Write, fw.pc = "recv"
  PROVE  IInv'
<1>. DEFINE s == FinishTransmit
<1>1. s[1].op = "ClearIrqStatus" /\ s[2].op = "SetStandby"
  BY DEF FinishTransmit, Cmd
<1>2. WriteLeaves
  BY WriteFacts
<1>3. PICK k \in 1..2 : Ahead(s, k)
  BY <1>2, Outstanding DEF WriteLeaves
<1>4. Head(fw.todo) = s[k] /\ fw'.todo = SubSeq(s, k + 1, Len(s)) /\ k + 1 \in 1..3
  BY <1>2, <1>3 DEF Ahead, WriteLeaves
<1>. HIDE DEF s
<1>5. Stages'
  BY <1>2, <1>4 DEF Stages, Staged, WriteLeaves, s
<1>6. CASE k = 1
  BY <1>1, <1>4, <1>5, <1>6, ClearKeeps
<1>7. CASE k = 2
  BY <1>1, <1>4, <1>5, <1>7, StandbyKeeps
<1>. QED
  BY <1>6, <1>7

LEMMA ReadKeeps ==
  ASSUME IInv, Write, fw.pc = "listen"
  PROVE  IInv'
<1>. DEFINE s == ReadData
<1>1. IsRead(s[1]) /\ IsRead(s[2]) /\ IsRead(s[3]) /\ s[4].op = "ClearIrqStatus"
  BY DEF ReadData, Cmd, IsRead, ReturnsData
<1>2. WriteLeaves
  BY WriteFacts
<1>3. PICK k \in 1..4 : Ahead(s, k)
  BY <1>2, Outstanding DEF WriteLeaves
<1>4. Head(fw.todo) = s[k] /\ fw'.todo = SubSeq(s, k + 1, Len(s))
  BY <1>2, <1>3 DEF Ahead, WriteLeaves
<1>. HIDE DEF s
<1>5. k = 4
  BY <1>1, <1>2, <1>4 DEF WriteLeaves
<1>6. Stages'
  <2>1. fw'.todo = SubSeq(s, 5, Len(s)) /\ 5 \in 1..5
    BY <1>4, <1>5
  <2>. QED
    BY <1>2, <2>1 DEF Stages, Staged, WriteLeaves, s
<1>. QED
  BY <1>1, <1>4, <1>5, <1>6, ClearKeeps

LEMMA ReceiveKeeps ==
  ASSUME IInv, Write, fw.pc = "started"
  PROVE  IInv'
<1>. DEFINE s == StartReceive
<1>1. /\ s[1].op = "SetStandby" /\ s[2].op = "SetDioIrqParams" /\ s[3].op = "ClearIrqStatus"
      /\ s[4].op = "SetPacketParams" /\ s[4].arg = MaxPayload /\ s[5].op = "SetRx"
  BY DEF StartReceive, Cmd
<1>2. /\ WriteLeaves
      /\ Head(fw.todo).op = "SetRx" => chip' = RunCommand(chip, Head(fw.todo))
  BY WriteFacts, WriteActs
<1>3. PICK k \in 1..5 : Ahead(s, k)
  BY <1>2, Outstanding DEF WriteLeaves
<1>4. Head(fw.todo) = s[k] /\ fw'.todo = SubSeq(s, k + 1, Len(s)) /\ k + 1 \in 1..6
  BY <1>2, <1>3 DEF Ahead, WriteLeaves
<1>5. fw'.todo = << >> <=> k = 5
  <2>1. k \in 1..Len(s) /\ (\E S : s \in Seq(S)) /\ Len(s) = 5
    BY Programs, ProgramsAre
  <2>. HIDE DEF s
  <2>2. Tail(fw.todo) = << >> <=> k = Len(s)
    BY <1>3, <2>1, RestAhead, Zenon
  <2>. QED
    BY <1>2, <2>1, <2>2 DEF WriteLeaves
<1>. HIDE DEF s
<1>6. k = 5 => chip'.mode = "rx"
  <2>. SUFFICES ASSUME k = 5
                PROVE  chip'.mode = "rx"
    OBVIOUS
  <2>1. Head(fw.todo).op = "SetRx"
    BY <1>1, <1>4
  <2>. QED
    BY <1>2, <2>1, StandbyEffect DEF WriteLeaves
<1>7. Stages'
  <2>1. k + 1 > 5 => chip'.mode = "rx"
    BY <1>6
  <2>. QED
    BY <1>2, <1>4, <2>1 DEF Stages, Staged, WriteLeaves, s
<1>8. CASE k \in {1, 5}
  BY <1>1, <1>4, <1>5, <1>7, <1>8, StandbyKeeps
<1>9. CASE k = 3
  BY <1>1, <1>4, <1>5, <1>7, <1>9, ClearKeeps
<1>10. CASE k \in {2, 4}
  <2>1. MaxPayload \in 0..MaxPayload
    BY BufLenAssumption DEF MaxPayload
  <2>. QED
    BY <1>1, <1>4, <1>5, <1>7, <1>10, <2>1, StageKeeps
<1>. QED
  BY <1>8, <1>9, <1>10

\* What is staged to be sent stays as it is until the chip takes it.
LEMMA TransmitKeeps ==
  ASSUME IInv, Write, fw.pc = "sent"
  PROVE  IInv'
<1>. DEFINE f == Last(hist.sent)
            s == StartTransmit(f)
            cmd == Head(fw.todo)
<1>1. /\ s[1].op = "SetPacketParams" /\ s[1].arg = Len(f)
      /\ s[2].op = "SetDioIrqParams" /\ s[2].arg[1] = TxIrqFlags
      /\ s[3] = Cmd("WriteBuffer", << 0, f >>)
      /\ s[3].op = "WriteBuffer" /\ s[3].arg[1] = 0 /\ s[3].arg[2] = f
      /\ s[4].op = "ClearIrqStatus" /\ s[4].arg = Flags /\ s[5].op = "SetTx"
  BY DEF StartTransmit, Cmd
<1>2. /\ WriteLeaves
      /\ chip' = EndTransaction(chip, [cmd |-> cmd, n |-> Wanted(cmd)])
  BY WriteFacts
<1>3. fw.state = "rx" /\ chip.mode = "rx"
  BY <1>2 DEF IInv, States, Listens, WriteLeaves
<1>4. hist.sent # << >> /\ \E k \in 1..5 : Sends(f, k) /\ Ahead(s, k)
  BY <1>2, Outstanding DEF WriteLeaves
<1>5. f \in Payloads /\ Len(f) \in 0..MaxPayload
  <2>1. hist.sent \in Seq(OutFrames)
    BY DEF IInv, Shapes
  <2>2. f \in OutFrames
    BY <1>4, <2>1 DEF Last
  <2>3. f \in Payloads
    BY <2>2, MeshCoreAssumption
  <2>. HIDE DEF f
  <2>4. PICK n \in 0..MaxPayload : f \in [1..n -> Bytes]
    BY <2>3 DEF Payloads
  <2>5. Len(f) = n
    BY <2>4, BufLenAssumption DEF MaxPayload
  <2>. QED
    BY <2>3, <2>4, <2>5
<1>6. f' = f
  BY <1>2 DEF WriteLeaves, Last
<1>7. (\E S : s \in Seq(S)) /\ Len(s) = 5
  BY ProgramsAre
<1>. HIDE DEF f, s
<1>8. PICK k \in 1..5 : Sends(f, k) /\ Ahead(s, k)
  BY <1>4
<1>9. cmd = s[k] /\ fw'.todo = SubSeq(s, k + 1, Len(s)) /\ k + 1 \in 1..6
  BY <1>2, <1>8 DEF Ahead, WriteLeaves
<1>10. fw'.todo = << >> <=> k = 5
  <2>1. k \in 1..Len(s)
    BY <1>7, <1>8
  <2>2. Tail(fw.todo) = << >> <=> k = Len(s)
    BY <1>7, <1>8, <2>1, RestAhead, Zenon
  <2>. QED
    BY <1>2, <1>7, <2>2 DEF WriteLeaves
<1>. HIDE DEF cmd
<1>11. chip' = RunCommand(chip, cmd)
  <2>1. \/ cmd.op \in {"SetStandby", "SetRx", "SetTx", "SetPacketParams",
                       "SetDioIrqParams", "ClearIrqStatus"}
        \/ \E g \in Payloads : cmd = Cmd("WriteBuffer", << 0, g >>)
    BY <1>1, <1>5, <1>9
  <2>. QED
    BY <1>2, <2>1, WriteActs
<1>12. ASSUME k > 0 => chip'.txLen = Len(f),
              k > 1 => chip'.irqMask = TxIrqFlags,
              k > 3 => "TxDone" \notin chip'.irq,
              k > 4 => chip'.mode = "tx",
              eng.fed = << >> /\ k > 2 => Prefix(chip'.buffer, chip'.txLen) = f
       PROVE  Stages'
  <2>1. Sends(f, k + 1)'
    <3>1. Staged(StartTransmit(f), k + 1)'
      BY <1>6, <1>9 DEF Staged, s
    <3>2. eng' = eng
      BY <1>2 DEF WriteLeaves
    <3>. QED
      BY <1>6, <1>9, <1>12, <3>1, <3>2 DEF Sends, InTx
  <2>2. hist'.sent # << >>
    BY <1>2, <1>4 DEF WriteLeaves
  <2>. QED
    BY <1>2, <1>6, <1>9, <2>1, <2>2 DEF Stages, WriteLeaves, f
<1>13. /\ k > 1 => chip.txLen = Len(f)
       /\ k > 2 => chip.irqMask = TxIrqFlags
       /\ k = 5 => "TxDone" \notin chip.irq
       /\ eng.fed = << >> /\ k > 3 => Prefix(chip.buffer, chip.txLen) = f
       /\ ChipShape(chip)
  BY <1>2, <1>8 DEF Sends, WriteLeaves
<1>14. CASE k = 1
  <2>1. cmd.op = "SetPacketParams" /\ cmd.arg = Len(f)
    BY <1>1, <1>9, <1>14
  <2>2. chip'.txLen = Len(f)
    BY <1>5, <1>11, <1>13, <2>1, StageEffect
  <2>3. Stages'
    BY <1>12, <1>14, <2>2
  <2>. QED
    BY <1>5, <1>10, <1>14, <2>1, <2>3, StageKeeps DEF cmd
<1>15. CASE k = 2
  <2>1. cmd.op = "SetDioIrqParams" /\ cmd.arg[1] = TxIrqFlags
    BY <1>1, <1>9, <1>15
  <2>2. chip'.txLen = chip.txLen /\ chip'.irqMask = TxIrqFlags
    BY <1>11, <1>13, <2>1, StageEffect
  <2>3. Stages'
    BY <1>12, <1>13, <1>15, <2>2
  <2>. QED
    BY <1>10, <1>15, <2>1, <2>3, StageKeeps DEF cmd
<1>16. CASE k = 3
  <2>1. cmd.op = "WriteBuffer" /\ cmd.arg[1] = 0 /\ cmd.arg[2] = f
        /\ \E g \in Payloads : cmd = Cmd("WriteBuffer", << 0, g >>)
    BY <1>1, <1>5, <1>9, <1>16
  <2>2. /\ chip'.txLen = chip.txLen /\ chip'.irqMask = chip.irqMask
        /\ chip'.buffer = Store(chip.buffer, 0, f)
    BY <1>5, <1>11, <1>13, <2>1, StageEffect
  <2>3. Prefix(Store(chip.buffer, 0, f), Len(f)) = f
    BY <1>5, StagedPrefix
  <2>4. Stages'
    BY <1>12, <1>13, <1>16, <2>2, <2>3
  <2>. QED
    BY <1>10, <1>16, <2>1, <2>4, StageKeeps DEF cmd
<1>17. CASE k = 4
  <2>1. cmd.op = "ClearIrqStatus" /\ cmd.arg = Flags /\ cmd.op \in Harmless
    BY <1>1, <1>9, <1>17 DEF Harmless
  <2>2. /\ chip'.txLen = chip.txLen /\ chip'.irqMask = chip.irqMask
        /\ chip'.buffer = chip.buffer /\ chip'.irq = chip.irq \ Flags
    BY <1>11, <1>13, <2>1, HarmlessEffect
  <2>3. "TxDone" \notin chip'.irq
    BY <2>2 DEF Flags, LowByte
  <2>4. Stages'
    BY <1>12, <1>13, <1>17, <2>2, <2>3
  <2>. QED
    BY <1>10, <1>17, <2>1, <2>4, ClearKeeps DEF cmd
<1>18. CASE k = 5
  <2>1. cmd.op = "SetTx"
    BY <1>1, <1>9, <1>18
  <2>2. /\ ChipShape(chip') /\ chip'.inbox = chip.inbox /\ chip'.mode = "tx"
        /\ chip'.txLen = chip.txLen /\ chip'.irqMask = chip.irqMask
        /\ chip'.buffer = chip.buffer /\ chip'.hasPendingTx = TRUE
        /\ chip'.irq = chip.irq /\ chip'.pendingTx = Prefix(chip.buffer, chip.txLen)
    BY <1>11, <1>13, <2>1, SetTxEffect
  <2>3. Stages'
    BY <1>12, <1>13, <1>18, <2>2
  <2>4. eng.fed = << >> => chip'.pendingTx = Last(hist.sent)
    BY <1>13, <1>18, <2>2 DEF f
  <2>. QED
    BY <1>10, <1>18, <2>2, <2>3, <2>4, CommandKeeps
<1>. QED
  BY <1>14, <1>15, <1>16, <1>17, <1>18

LEMMA WriteKeeps ==
  ASSUME IInv, Write
  PROVE  IInv'
<1>1. fw.pc \in {"recv", "listen", "started", "sent"}
  BY WriteFacts DEF WriteLeaves
<1>. QED
  BY <1>1, FinishKeeps, ReadKeeps, ReceiveKeeps, TransmitKeeps

-----------------------------------------------------------------------------
\* The firmware decides.

\* What was to be sent to the chip has been sent.
LEMMA AllSent ==
  ASSUME fw.todo = << >>
  PROVE  /\ \A k \in 1..6 : Staged(StartReceive, k) => k = 6
         /\ \A f : \A k \in 1..6 : Staged(StartTransmit(f), k) => k = 6
<1>1. ASSUME NEW s, NEW S, s \in Seq(S), Len(s) = 5, NEW k \in 1..6, Staged(s, k)
      PROVE  k = 6
  <2>1. k \in 1..(Len(s) + 1) /\ fw.todo = SubSeq(s, k, Len(s))
    BY <1>1 DEF Staged
  <2>2. k = Len(s) + 1
    BY <1>1, <2>1, NextCommand
  <2>. QED
    BY <1>1, <2>2
<1>. QED
  BY <1>1, Programs, ProgramsAre

\* What a decision has to see to.
LEMMA DecisionKeeps ==
  ASSUME IInv, Firmware, fw.todo = << >>,
         DOMAIN fw' = FwFields, fw'.ready \in BOOLEAN, fw'.state \in {"idle", "rx", "tx"},
         DOMAIN hist' = HistFields, hist'.sent \in Seq(OutFrames),
         States', Stages', Listens', GoesOut',
         fw'.pc # "lbt" \/ fw'.todo # << >>,
         ~GivesUp => /\ fw'.state = "tx" /\ fw'.ready => "TxDone" \in chip.irq
                     /\ chip.mode = "tx" =>
                          fw'.state = "tx" \/ (fw'.pc = "sent" /\ fw'.todo = << >>)
  PROVE  IInv'
<1>1. UNCHANGED <<chip, sim, txn, aired, mcu, eng, toNode, toEngine>>
  BY DEF Firmware, serverVars, engineVars
<1>2. Shapes'
  BY <1>1 DEF IInv, Shapes
<1>3. Turns'
  BY <1>1 DEF IInv, Turns
<1>4. Reads'
  <2>1. ~mcu.selected
    BY Zenon DEF IInv, Reads
  <2>. QED
    BY <1>1, <2>1 DEF Reads
<1>5. Airs'
  BY <1>1 DEF IInv, Airs, OnAir
<1>6. OneAtATime'
  BY <1>1 DEF IInv, OneAtATime, OnAir
<1>7. Quiet'
  BY <1>1 DEF IInv, Quiet
<1>. QED
  BY <1>2, <1>3, <1>4, <1>5, <1>6, <1>7 DEF IInv

\* None but one of them sends.
LEMMA QuietKeeps ==
  ASSUME IInv, Firmware, fw.todo = << >>, UNCHANGED hist, fw.pc # "sent", fw'.pc # "sent",
         DOMAIN fw' = FwFields, fw'.ready \in BOOLEAN, fw'.state \in {"idle", "rx", "tx"},
         States', Stages', fw'.pc # "lbt" \/ fw'.todo # << >>,
         fw'.state = "rx" /\ (fw'.pc = "started" => fw'.todo = << >>) => chip.mode = "rx",
         fw'.state = "tx" => fw.state = "tx" /\ fw'.ready = fw.ready,
         ~GivesUp /\ fw'.state # "tx" => chip.mode # "tx"
  PROVE  IInv'
<1>1. UNCHANGED <<chip, sim, txn, aired, mcu, eng, toNode, toEngine>>
  BY DEF Firmware, serverVars, engineVars
<1>2. Listens'
  BY <1>1 DEF IInv, Listens, InTx
<1>3. GoesOut'
  BY <1>1 DEF IInv, GoesOut, Out
<1>4. DOMAIN hist' = HistFields /\ hist'.sent \in Seq(OutFrames)
  BY DEF IInv, Shapes
<1>5. ~GivesUp => (fw'.state = "tx" /\ fw'.ready => "TxDone" \in chip.irq)
  BY DEF IInv, OneAtATime
<1>. QED
  BY <1>2, <1>3, <1>4, <1>5, DecisionKeeps

\* The radio, seen from the firmware.
LEMMA Radio ==
  ASSUME IInv
  PROVE  /\ DOMAIN fw = FwFields /\ fw.ready \in BOOLEAN /\ fw.state \in {"idle", "rx", "tx"}
         /\ fw.state = "rx" /\ fw.pc \notin {"sent", "started"} => chip.mode = "rx"
         /\ ~GivesUp /\ fw.state # "tx" /\ fw.pc # "sent" => chip.mode # "tx"
BY DEF IInv, Shapes, Listens, OneAtATime

LEMMA TurnBackKeeps ==
  ASSUME IInv, Firmware, At("drain"), fw' = [fw EXCEPT !.pc = "top"], UNCHANGED hist
  PROVE  IInv'
<1>1. fw.pc = "drain" /\ fw.todo = << >>
  BY DEF At
<1>2. /\ DOMAIN fw' = FwFields /\ fw'.pc = "top" /\ fw'.todo = fw.todo
      /\ fw'.state = fw.state /\ fw'.ready = fw.ready
  BY <1>1, Radio, Zenon DEF FwFields
<1>3. States' /\ Stages'
  BY <1>1, <1>2 DEF States, Stages
<1>. QED
  BY <1>1, <1>2, <1>3, Radio, QuietKeeps

LEMMA NotSendingKeeps ==
  ASSUME IInv, Firmware, NotSending
  PROVE  IInv'
<1>1. /\ fw.pc = "top" /\ fw.todo = << >> /\ fw.state # "tx"
      /\ fw' = [fw EXCEPT !.pc = "recv"] /\ hist' = hist
  BY DEF NotSending, At
<1>2. /\ DOMAIN fw' = FwFields /\ fw'.pc = "recv" /\ fw'.todo = fw.todo
      /\ fw'.state = fw.state /\ fw'.ready = fw.ready
  BY <1>1, Radio, Zenon DEF FwFields
<1>3. States'
  BY <1>1, <1>2 DEF States
<1>4. Stages'
  <2>1. fw'.todo = SubSeq(FinishTransmit, 3, Len(FinishTransmit))
    BY <1>1, <1>2, Programs, Zenon
  <2>. QED
    BY <1>2, <2>1 DEF Stages, Staged
<1>. QED
  BY <1>1, <1>2, <1>3, <1>4, Radio, QuietKeeps

\* The wait ends with the chip at rest, unless the firmware has given up.
LEMMA SendOverKeeps ==
  ASSUME IInv, Firmware, SendOver
  PROVE  IInv'
<1>1. /\ fw.pc = "top" /\ fw.todo = << >> /\ fw.state = "tx" /\ (fw.ready \/ GivesUp)
      /\ fw' = [fw EXCEPT !.pc = "recv", !.todo = FinishTransmit,
                          !.state = "idle", !.ready = FALSE, !.rest = TRUE]
      /\ hist' = hist
  BY DEF SendOver, At
<1>2. /\ DOMAIN fw' = FwFields /\ fw'.pc = "recv" /\ fw'.todo = FinishTransmit
      /\ fw'.state = "idle" /\ fw'.ready = FALSE
  BY <1>1, Radio, Zenon DEF FwFields
<1>3. States'
  BY <1>2 DEF States
<1>4. Stages'
  BY <1>2, Programs DEF Stages, Staged
<1>5. ~GivesUp => chip.mode # "tx"
  BY <1>1 DEF IInv, Listens, InTx, OneAtATime
<1>. QED
  BY <1>1, <1>2, <1>3, <1>4, <1>5, QuietKeeps

LEMMA StillSendingKeeps ==
  ASSUME IInv, Firmware, StillSending
  PROVE  IInv'
<1>1. /\ fw.pc = "top" /\ fw.todo = << >> /\ fw.state = "tx" /\ ~fw.ready
      /\ fw' = [fw EXCEPT !.pc = "drain"] /\ hist' = hist
  BY DEF StillSending, At
<1>2. /\ DOMAIN fw' = FwFields /\ fw'.pc = "drain" /\ fw'.todo = fw.todo
      /\ fw'.state = fw.state /\ fw'.ready = fw.ready
  BY <1>1, Radio, Zenon DEF FwFields
<1>3. States' /\ Stages'
  BY <1>1, <1>2 DEF States, Stages
<1>. QED
  BY <1>1, <1>2, <1>3, Radio, QuietKeeps

LEMMA CollectKeeps ==
  ASSUME IInv, Firmware, Collect \/ NothingToCollect
  PROVE  IInv'
<1>1. /\ fw.pc = "recv" /\ fw.todo = << >> /\ hist' = hist
      /\ IF fw.ready THEN fw' = [fw EXCEPT !.pc = "len", !.todo = GetPacketLength]
         ELSE fw' = [fw EXCEPT !.pc = "listen"]
  BY DEF Collect, NothingToCollect, At
<1>2. /\ DOMAIN fw' = FwFields /\ fw'.state = fw.state /\ fw'.ready = fw.ready
      /\ IF fw.ready THEN fw'.pc = "len" /\ fw'.todo = GetPacketLength
         ELSE fw'.pc = "listen" /\ fw'.todo = << >>
  BY <1>1, Radio, Zenon DEF FwFields
<1>3. fw.state # "tx"
  BY <1>1 DEF IInv, States
<1>4. States'
  BY <1>2, <1>3 DEF States
<1>5. Stages'
  <2>1. CASE fw.ready
    BY <1>2, <2>1, Programs DEF Stages, Staged
  <2>2. CASE ~fw.ready
    <3>1. fw'.todo = SubSeq(ReadData, 5, Len(ReadData))
      BY <1>2, <2>2, Programs, Zenon
    <3>. QED
      BY <1>2, <2>2, <3>1 DEF Stages, Staged
  <2>. QED
    BY <2>1, <2>2
<1>. QED
  BY <1>1, <1>2, <1>3, <1>4, <1>5, Radio, QuietKeeps

LEMMA ReadPacketKeeps ==
  ASSUME IInv, Firmware, ReadPacket
  PROVE  IInv'
<1>. DEFINE todo == IF fw.len > 0 THEN ReadData ELSE << >>
<1>1. /\ fw.pc = "len" /\ fw.todo = << >> /\ hist' = hist
      /\ fw' = [fw EXCEPT !.pc = "listen", !.state = "idle", !.ready = FALSE, !.todo = todo]
  BY DEF ReadPacket, At
<1>2. todo = ReadData \/ todo = << >>
  OBVIOUS
<1>. HIDE DEF todo
<1>3. /\ DOMAIN fw' = FwFields /\ fw'.pc = "listen" /\ fw'.todo = todo
      /\ fw'.state = "idle" /\ fw'.ready = FALSE
  BY <1>1, Radio, Zenon DEF FwFields
<1>4. States'
  BY <1>3 DEF States
<1>5. Stages'
  <2>1. \E k \in 1..5 : fw'.todo = SubSeq(ReadData, k, Len(ReadData))
    <3>1. todo = SubSeq(ReadData, 1, Len(ReadData)) \/ todo = SubSeq(ReadData, 5, Len(ReadData))
      BY <1>2, Programs
    <3>. QED
      BY <1>3, <3>1
  <2>. QED
    BY <1>3, <2>1 DEF Stages, Staged
<1>6. ~GivesUp => chip.mode # "tx"
  BY <1>1, Radio DEF IInv, States
<1>. QED
  BY <1>1, <1>3, <1>4, <1>5, <1>6, QuietKeeps

LEMMA ListenKeeps ==
  ASSUME IInv, Firmware, Listen
  PROVE  IInv'
<1>1. /\ fw.pc = "listen" /\ fw.todo = << >> /\ hist' = hist
      /\ fw' = IF fw.state = "rx" /\ ~fw.ready
                THEN [fw EXCEPT !.pc = "choose"]
                ELSE [fw EXCEPT !.pc = "started", !.todo = StartReceive]
  BY DEF Listen, At
<1>2. /\ DOMAIN fw' = FwFields /\ fw'.state = fw.state /\ fw'.ready = fw.ready
      /\ IF fw.state = "rx" /\ ~fw.ready THEN fw'.pc = "choose" /\ fw'.todo = << >>
         ELSE fw'.pc = "started" /\ fw'.todo = StartReceive
  BY <1>1, Radio, Zenon DEF FwFields
<1>3. fw.state # "tx"
  BY <1>1 DEF IInv, States
<1>4. States'
  BY <1>2, <1>3 DEF States
<1>5. Stages'
  BY <1>2, Programs DEF Stages, Staged
<1>. QED
  BY <1>1, <1>2, <1>3, <1>4, <1>5, Radio, QuietKeeps

LEMMA StartedKeeps ==
  ASSUME IInv, Firmware, Started
  PROVE  IInv'
<1>1. /\ fw.pc = "started" /\ fw.todo = << >> /\ hist' = hist
      /\ fw' = [fw EXCEPT !.pc = "choose", !.state = "rx", !.ready = FALSE]
  BY DEF Started, At
<1>2. /\ DOMAIN fw' = FwFields /\ fw'.pc = "choose" /\ fw'.todo = fw.todo
      /\ fw'.state = "rx" /\ fw'.ready = FALSE
  BY <1>1, Radio, Zenon DEF FwFields
<1>3. chip.mode = "rx"
  <2>1. PICK k \in 1..6 : Staged(StartReceive, k) /\ (k > 5 => chip.mode = "rx")
    BY <1>1 DEF IInv, Stages
  <2>. QED
    BY <1>1, <2>1, AllSent
<1>4. States' /\ Stages'
  BY <1>1, <1>2 DEF States, Stages
<1>. QED
  BY <1>1, <1>2, <1>3, <1>4, QuietKeeps

LEMMA NothingToSendKeeps ==
  ASSUME IInv, Firmware, NothingToSend \/ (Decide /\ fw.seen # {})
  PROVE  IInv'
<1>1. /\ fw.pc \in {"choose", "lbt"} /\ fw.todo = << >> /\ hist' = hist
      /\ fw' = [fw EXCEPT !.pc = "drain"] \/ fw' = [fw EXCEPT !.pc = "drain", !.rest = FALSE]
  BY DEF NothingToSend, Decide, At
<1>2. /\ DOMAIN fw' = FwFields /\ fw'.pc = "drain" /\ fw'.todo = fw.todo
      /\ fw'.state = fw.state /\ fw'.ready = fw.ready
  BY <1>1, Radio, Zenon DEF FwFields
<1>3. fw.state = "rx"
  BY <1>1 DEF IInv, States
<1>4. States' /\ Stages'
  BY <1>1, <1>2, <1>3 DEF States, Stages
<1>. QED
  BY <1>1, <1>2, <1>3, <1>4, Radio, QuietKeeps

LEMMA ListenFirstKeeps ==
  ASSUME IInv, Firmware, ListenFirst
  PROVE  IInv'
<1>1. /\ fw.pc = "choose" /\ fw.todo = << >> /\ hist' = hist
      /\ fw' = [fw EXCEPT !.pc = "lbt", !.todo = GetIrqFlags]
  BY DEF ListenFirst, At
<1>2. /\ DOMAIN fw' = FwFields /\ fw'.pc = "lbt" /\ fw'.todo = GetIrqFlags
      /\ fw'.state = fw.state /\ fw'.ready = fw.ready
  BY <1>1, Radio, Zenon DEF FwFields
<1>3. fw.state = "rx"
  BY <1>1 DEF IInv, States
<1>4. States'
  BY <1>2, <1>3 DEF States
<1>5. Stages'
  BY <1>2, Programs DEF Stages, Staged
<1>6. GetIrqFlags # << >>
  BY Programs
<1>. QED
  BY <1>1, <1>2, <1>3, <1>4, <1>5, <1>6, Radio, QuietKeeps

\* The decision to send; the chip still listens.
LEMMA DecideKeeps ==
  ASSUME IInv, Firmware, Decide, fw.seen = {}
  PROVE  IInv'
<1>1. PICK f \in OutFrames :
        /\ fw' = [fw EXCEPT !.pc = "sent", !.todo = StartTransmit(f)]
        /\ hist' = [hist EXCEPT !.sent = Append(@, f)]
  BY DEF Decide
<1>2. fw.pc = "lbt" /\ fw.todo = << >>
  BY DEF Decide, At
<1>3. /\ DOMAIN fw' = FwFields /\ fw'.pc = "sent" /\ fw'.todo = StartTransmit(f)
      /\ fw'.state = fw.state /\ fw'.ready = fw.ready
  BY <1>1, Radio, Zenon DEF FwFields
<1>4. DOMAIN hist = HistFields /\ hist.sent \in Seq(OutFrames)
  BY DEF IInv, Shapes
<1>5. DOMAIN hist' = HistFields /\ hist'.sent = Append(hist.sent, f)
  BY <1>1, <1>4, Zenon DEF HistFields
<1>. DEFINE s == hist.sent
            u == Append(s, f)
            n == Len(s)
<1>6. /\ n \in Nat /\ u \in Seq(OutFrames) /\ Len(u) = n + 1 /\ Last(u) = f
      /\ u # << >> /\ SubSeq(u, 1, n) = s
  <2>1. s \in Seq(OutFrames) /\ n \in Nat /\ u \in Seq(OutFrames) /\ Len(u) = n + 1
        /\ u[n + 1] = f /\ \A i \in 1..n : u[i] = s[i] /\ s[i] \in OutFrames
    BY <1>4
  <2>2. n + 1 # 0
    BY <2>1
  <2>3. SubSeq(u, 1, n) = s
    BY <1>4
  <2>4. u # << >>
    BY <2>1, <2>2, EmptySeq
  <2>. QED
    BY <2>1, <2>3, <2>4 DEF Last
<1>7. /\ fw.state = "rx" /\ chip.mode = "rx" /\ aired' = aired /\ chip' = chip
      /\ UNCHANGED <<eng, toNode, toEngine>>
  BY <1>2 DEF IInv, States, Listens, Firmware, serverVars, engineVars
<1>8. States'
  BY <1>3, <1>7 DEF States
<1>9. Len(StartTransmit(f)) = 5 /\ StartTransmit(f) # << >>
      /\ SubSeq(StartTransmit(f), 1, 5) = StartTransmit(f)
  <2>. DEFINE p == StartTransmit(f)
  <2>1. Len(p) = 5 /\ \E S : p \in Seq(S)
    BY ProgramsAre
  <2>. HIDE DEF p
  <2>. QED
    BY <2>1, WholeSeq, EmptySeq DEF p
<1>10. Stages'
  <2>1. Last(hist'.sent) = f /\ hist'.sent # << >>
    BY <1>5, <1>6
  <2>2. Sends(f, 1)'
    BY <1>3, <1>7, <1>9 DEF Sends, Staged
  <2>3. Sends(Last(hist.sent), 1)' /\ 1 \in 1..6
    BY <2>1, <2>2 DEF Sends, Staged
  <2>. QED
    BY <1>3, <2>1, <2>3 DEF Stages
<1>11. Listens'
  BY <1>3, <1>7 DEF Listens
<1>12. GoesOut'
  <2>. SUFFICES ASSUME ~GivesUp
                PROVE  GoesOut'
    BY DEF GoesOut
  <2>1. ~chip.hasPendingTx
    BY <1>7 DEF IInv, OneAtATime
  <2>2. ~Out
    BY <1>2, <2>1 DEF Out
  <2>3. Len(aired) = n /\ (eng.fed = << >> => aired = SubSeq(s, 1, n))
    BY <2>2 DEF IInv, GoesOut
  <2>4. SubSeq(s, 1, n) = s
    BY <1>4, WholeSeq
  <2>. QED
    BY <1>3, <1>5, <1>6, <1>7, <1>9, <2>1, <2>3, <2>4 DEF GoesOut, Out
<1>13. fw'.state = "rx" /\ chip.mode # "tx" /\ hist'.sent \in Seq(OutFrames)
  BY <1>3, <1>5, <1>6, <1>7
<1>. QED
  BY <1>2, <1>3, <1>5, <1>8, <1>10, <1>11, <1>12, <1>13, Radio, DecisionKeeps

\* The chip has taken it, and may be done already.
LEMMA SentKeeps ==
  ASSUME IInv, Firmware, Sent
  PROVE  IInv'
<1>1. /\ fw.pc = "sent" /\ fw.todo = << >> /\ hist' = hist
      /\ fw' = [fw EXCEPT !.pc = "drain", !.state = "tx", !.ready = FALSE]
  BY DEF Sent, At
<1>2. /\ DOMAIN fw' = FwFields /\ fw'.pc = "drain" /\ fw'.todo = fw.todo
      /\ fw'.state = "tx" /\ fw'.ready = FALSE
  BY <1>1, Radio, Zenon DEF FwFields
<1>3. chip.irqMask = TxIrqFlags /\ InTx
  <2>1. PICK k \in 1..6 : Sends(Last(hist.sent), k)
    BY <1>1 DEF IInv, Stages
  <2>2. k = 6
    BY <1>1, <2>1, AllSent DEF Sends
  <2>. QED
    BY <2>1, <2>2 DEF Sends
<1>4. chip' = chip /\ aired' = aired /\ UNCHANGED <<eng, toNode, toEngine>>
  BY DEF Firmware, serverVars, engineVars
<1>5. States' /\ Stages'
  BY <1>1, <1>2 DEF States, Stages
<1>6. Listens'
  BY <1>2, <1>3, <1>4 DEF Listens, InTx
<1>7. GoesOut'
  BY <1>1, <1>2, <1>4 DEF IInv, GoesOut, Out
<1>8. DOMAIN hist' = HistFields /\ hist'.sent \in Seq(OutFrames)
  BY <1>1 DEF IInv, Shapes
<1>. QED
  BY <1>1, <1>2, <1>5, <1>6, <1>7, <1>8, DecisionKeeps

LEMMA FirmwareKeeps ==
  ASSUME IInv, Firmware
  PROVE  IInv'
<1>1. CASE NotSending
  BY <1>1, NotSendingKeeps
<1>2. CASE SendOver
  BY <1>2, SendOverKeeps
<1>3. CASE StillSending
  BY <1>3, StillSendingKeeps
<1>4. CASE Collect \/ NothingToCollect
  BY <1>4, CollectKeeps
<1>5. CASE ReadPacket
  BY <1>5, ReadPacketKeeps
<1>6. CASE Listen
  BY <1>6, ListenKeeps
<1>7. CASE Started
  BY <1>7, StartedKeeps
<1>8. CASE NothingToSend
  BY <1>8, NothingToSendKeeps
<1>9. CASE ListenFirst
  BY <1>9, ListenFirstKeeps
<1>10. CASE Decide
  BY <1>10, NothingToSendKeeps, DecideKeeps
<1>11. CASE Sent
  BY <1>11, SentKeeps
<1>12. CASE At("drain") /\ fw' = [fw EXCEPT !.pc = "top"] /\ UNCHANGED hist
  BY <1>12, TurnBackKeeps
<1>. QED
  BY <1>1, <1>2, <1>3, <1>4, <1>5, <1>6, <1>7, <1>8, <1>9, <1>10, <1>11, <1>12
     DEF Firmware, Dispatcher

-----------------------------------------------------------------------------
\* A node that has just booted, and every step from there.

LEMMA BootedChip ==
  ASSUME NEW m
  PROVE  LET c == PowerOn(m)
         IN /\ ChipShape(c) /\ c.mode = "standby" /\ c.irq = {}
            /\ c.inbox = << >> /\ ~c.hasPendingTx
<1>1. << >> \in Payloads /\ << >> \in Seq(Seq(Bytes)) /\ 0 \in 0..MaxPayload
  BY EmptyPayload, BufLenAssumption DEF MaxPayload
<1>. DEFINE mem == [i \in Cells |-> 0]
<1>2. mem \in [Cells -> Bytes] /\ FALSE \in BOOLEAN
  BY BytesAssumption
<1>. HIDE DEF mem
<1>3. PowerOn(m) =
        [mode |-> "standby", irq |-> {}, irqMask |-> {},
         buffer |-> mem, rxLen |-> 0, txLen |-> 0,
         hasPendingTx |-> FALSE, pendingTx |-> << >>, inbox |-> << >>,
         modem |-> m, rxGain |-> "saving", fem |-> FALSE, femAtTx |-> "never",
         now |-> 0, channelBusy |-> FALSE, busySince |-> 0,
         preambleRaised |-> FALSE, headerRaised |-> FALSE,
         irqReads |-> 0, busyReads |-> 0, busyMs |-> 0,
         nextSpurious |-> 0, spuriousRaises |-> 0]
  BY DEF PowerOn, mem
<1>. QED
  BY ONLY <1>1, <1>2, <1>3 DEF ChipShape, Fields

LEMMA InitIInv == Init => IInv
<1>. SUFFICES ASSUME Init
              PROVE  IInv
  OBVIOUS
<1>1. /\ eng = [waiting |-> FALSE, acked |-> 0, waves |-> 0, given |-> 0,
                told |-> FALSE, busy |-> FALSE, fed |-> << >>]
      /\ toNode = << >> /\ toEngine = << >> /\ sim = 0 /\ aired = << >>
      /\ txn = [cmd |-> NoCommand, n |-> 0]
      /\ mcu = [selected |-> FALSE, reply |-> << >>, pin |-> FALSE]
      /\ fw = [pc |-> "drain", todo |-> << >>, state |-> "idle", ready |-> FALSE,
               len |-> 0, seen |-> {}, rest |-> TRUE]
      /\ hist = [sent |-> << >>, heard |-> << >>, fresh |-> << >>, up |-> {}]
  BY DEF Init, EngineInit, MeshCoreInit, BeginTransaction
<1>2. /\ ChipShape(chip) /\ chip.mode = "standby" /\ chip.irq = {}
      /\ chip.inbox = << >> /\ ~chip.hasPendingTx
  BY BootedChip, Zenon DEF Init
<1>3. /\ ~Holds(toNode, "Tick") /\ ~Holds(toNode, "Frame") /\ ~Holds(toNode, "TxDone")
      /\ ~Holds(toEngine, "Frame") /\ ~Holds(toEngine, "Ack")
      /\ Only(toNode, "TxDone") /\ Only(toEngine, "Frame")
      /\ Len(toNode) = 0 /\ Len(toEngine) = 0
  BY <1>1 DEF Holds, Only
<1>4. Shapes
  BY <1>1, <1>2 DEF Shapes, EngineFields, FwFields, HistFields
<1>5. Turns /\ Reads
  BY <1>1, <1>3 DEF Turns, Reads
<1>6. States /\ Stages /\ Listens
  BY <1>1 DEF States, Stages, Listens
<1>7. Airs
  BY <1>2 DEF Airs
<1>8. OneAtATime
  BY <1>1, <1>2, <1>3 DEF OneAtATime, OnAir
<1>9. Quiet
  BY <1>2, <1>3 DEF Quiet
<1>10. GoesOut
  BY <1>1, <1>2 DEF GoesOut, Out
<1>. QED
  BY <1>4, <1>5, <1>6, <1>7, <1>8, <1>9, <1>10 DEF IInv

LEMMA IInvStep ==
  ASSUME IInv, [Next]_vars
  PROVE  IInv'
<1>1. CASE Turn(EngineStep)
  BY <1>1, GiveFrameKeeps, TellTxDoneKeeps, TellChannelKeeps, TellOddKeeps,
     SendTickKeeps, HearNodeKeeps DEF Turn, EngineStep, serverVars
<1>2. CASE Firmware
  BY <1>2, FirmwareKeeps
<1>3. CASE Write \/ CsAssert \/ Xfer \/ CsRelease \/ ReadIrq \/ SetFem
  BY <1>3, WriteKeeps, CsAssertKeeps, XferKeeps, CsReleaseKeeps, ReadIrqKeeps, SetFemKeeps
<1>4. CASE TakeFrame \/ TakeTxDone \/ TakeChannel \/ TakeOdd \/ TakeTick
  BY <1>4, TakeFrameKeeps, TakeTxDoneKeeps, TakeChannelKeeps, TakeOddKeeps, TakeTickKeeps
<1>5. CASE UNCHANGED vars
  <2>. USE <1>5 DEF vars, serverVars, engineVars
  <2>1. Shapes' /\ Turns'
    BY DEF IInv, Shapes, Turns
  <2>2. Airs' /\ OneAtATime' /\ Quiet'
    BY DEF IInv, Airs, OneAtATime, Quiet, OnAir
  <2>. QED
    BY <2>1, <2>2, EngineLeaves DEF IInv
<1>. QED
  BY <1>1, <1>2, <1>3, <1>4, <1>5 DEF Next, Server

LEMMA Invariance == Spec => []IInv
<1>1. IInv /\ [Next]_vars => IInv'
  BY IInvStep
<1>. QED
  BY InitIInv, <1>1, PTL DEF Spec

-----------------------------------------------------------------------------
\* What follows.

\* Whenever no command is outstanding, the driver that waits for its send has a chip that
\* transmits or says it is done, the one that listens has a chip that listens, and a chip
\* that transmits has a frame to drain or a waveform on its way (serviceBridge() and
\* serviceQemu() in any order).
THEOREM DriverIsRight == Spec => []DriverMatchesChip
<1>1. IInv => DriverMatchesChip
  <2>. SUFFICES ASSUME IInv, fw.todo = << >>
                PROVE  /\ Sending => chip.mode = "tx" \/ "TxDone" \in chip.irq
                       /\ fw.state = "rx" /\ ~Sending => chip.mode = "rx"
                       /\ chip.mode = "tx" => chip.hasPendingTx \/ OnAir
    BY DEF DriverMatchesChip, Settled, OnAir
  <2>1. Sending => InTx
    <3>1. ASSUME fw.pc = "sent"
          PROVE  InTx
      <4>1. PICK k \in 1..6 : Sends(Last(hist.sent), k)
        BY <3>1 DEF IInv, Stages
      <4>2. k = 6
        BY <4>1, AllSent DEF Sends
      <4>. QED
        BY <4>1, <4>2 DEF Sends
    <3>2. ASSUME fw.state = "tx"
          PROVE  InTx
      BY <3>2 DEF IInv, Listens
    <3>. QED
      BY <3>1, <3>2 DEF Sending
  <2>2. fw.state = "rx" /\ ~Sending => chip.mode = "rx"
    BY DEF IInv, Listens, Sending
  <2>. QED
    BY <2>1, <2>2 DEF IInv, InTx, Airs
<1>. QED
  BY Invariance, <1>1, PTL

\* Listen-before-talk decides on what was up when the byte that carries it was clocked,
\* whatever was served since (transferByte()).
THEOREM ListensRight == Spec => []ListenTruthful
<1>1. IInv => ListenTruthful
  BY DEF IInv, Reads, ListenTruthful, At
<1>. QED
  BY Invariance, <1>1, PTL

\* Of a firmware that waits for the end of its transmissions every frame goes out to the
\* engine, once; and whole and in order, as long as nothing was received (drainTx()).
THEOREM EverythingGoesOut ==
  ASSUME ~GivesUp
  PROVE  Spec => []FramesOut
<1>1. IInv => FramesOut
  <2>. SUFFICES ASSUME IInv, fw.todo = << >>
                PROVE  /\ Len(hist.sent) = Len(aired) + Len(Pending)
                       /\ eng.fed = << >> => hist.sent = aired \o Pending
    BY DEF FramesOut, Settled
  <2>1. hist.sent \in Seq(OutFrames) /\ aired \in Seq(Payloads) /\ chip.pendingTx \in Payloads
    BY DEF IInv, Shapes, ChipShape
  <2>2. Out <=> chip.hasPendingTx
    BY DEF Out
  <2>3. Len(hist.sent) \in Nat
    BY <2>1
  <2>4. CASE chip.hasPendingTx
    <3>1. Pending = << chip.pendingTx >> /\ Len(Pending) = 1
      BY <2>4 DEF Pending
    <3>2. /\ hist.sent # << >> /\ Len(aired) = Len(hist.sent) - 1
          /\ eng.fed = << >> => aired = SubSeq(hist.sent, 1, Len(aired))
                                /\ chip.pendingTx = Last(hist.sent)
      BY <2>2, <2>4 DEF IInv, GoesOut
    <3>3. Append(SubSeq(hist.sent, 1, Len(hist.sent) - 1), Last(hist.sent)) = hist.sent
      BY <2>1, <3>2, FrontAndLast
    <3>4. aired \o << chip.pendingTx >> = Append(aired, chip.pendingTx)
      BY <2>1, JoinedTwo
    <3>. QED
      BY <2>3, <3>1, <3>2, <3>3, <3>4
  <2>5. CASE ~chip.hasPendingTx
    <3>1. Pending = << >> /\ Len(Pending) = 0
      BY <2>5 DEF Pending
    <3>2. /\ Len(aired) = Len(hist.sent)
          /\ eng.fed = << >> => aired = SubSeq(hist.sent, 1, Len(aired))
      BY <2>2, <2>5 DEF IInv, GoesOut
    <3>3. SubSeq(hist.sent, 1, Len(hist.sent)) = hist.sent
      BY <2>1, WholeSeq
    <3>4. aired \o << >> = aired
      BY <2>1, JoinedTwo
    <3>. QED
      BY <2>3, <3>1, <3>2, <3>3, <3>4
  <2>. QED
    BY <2>4, <2>5
<1>. QED
  BY Invariance, <1>1, PTL

=============================================================================
