----------------------------- MODULE RadioLibProofs -----------------------------
(***************************************************************************)
(* What RadioLib's driver and the virtual chip agree on.  The transports:  *)
(* both keep one chip, for every chip, every history of the simulation and *)
(* every set of commands without GetIrqStatus, the one getter that counts  *)
(* its reads.  The modem: the chip is set to what the driver believes, for *)
(* every set of settings asked for, in every order.                        *)
(***************************************************************************)
EXTENDS SpiPaths, ModemSettings, TLAPS

\* The driver sends anything but GetIrqStatus, at any of its lengths.
NoIrqReads == \A cmd \in Commands : cmd.op # "GetIrqStatus"

\* A getter other than GetIrqStatus leaves the chip alone, however much of it
\* has been clocked.
LEMMA GettersReadOnly ==
  ASSUME NEW c, NEW cmd, NEW n, cmd.op \in ReturnsData, cmd.op # "GetIrqStatus"
  PROVE  Effect(c, cmd, n) = c
PROOF BY DEF Effect, ReturnsData, RunCommand, Cut

\* A byte clocked changes nothing: a getter's because it only reads, another's
\* because it waits for the release.
LEMMA BytesChangeNothing ==
  ASSUME NEW c, NEW t, t.cmd.op # "GetIrqStatus"
  PROVE  ByteEffect(c, t) = c
PROOF BY GettersReadOnly DEF ByteEffect

\* The release of a whole command does what the buffer path did at once.
LEMMA ReleaseActs ==
  ASSUME NEW c, NEW t, t.cmd.op # "GetIrqStatus"
  PROVE  EndTransaction(c, t) = Transfer(c, t.cmd, t.n)
PROOF BY GettersReadOnly DEF EndTransaction, Transfer

-----------------------------------------------------------------------------
\* While a command is under way the streamed chip is the one the buffered chip
\* was before it; otherwise they are the same chip.
PathsInv ==
  /\ ~call.open => streamed = buffered
  /\ call.open => /\ buffered = Transfer(streamed, call.cmd, call.len)
                  /\ txn.cmd = call.cmd
                  /\ call.cmd.op # "GetIrqStatus"

\* Both chips are switched on alike.
LEMMA PathsInit == Init => PathsInv
PROOF BY DEF Init, PathsInv, Idle

\* Every step keeps them alike.
LEMMA PathsNext ==
  ASSUME NoIrqReads, PathsInv, [Next]_vars
  PROVE  PathsInv'
PROOF
<1>1. ASSUME SimTick \/ SimFrame \/ SimChannel \/ SimTxDone PROVE PathsInv'
  BY <1>1 DEF SimTick, SimFrame, SimChannel, SimTxDone, Simulate, PathsInv
<1>2. CASE Send
  <2>1. PICK cmd \in Commands : \E n \in Lengths(cmd) :
          /\ buffered' = Transfer(buffered, cmd, n)
          /\ call' = [cmd |-> cmd, len |-> n, open |-> TRUE,
                      answer |-> TransferReply(Transfer(buffered, cmd, n), cmd, n)]
          /\ txn' = BeginTransaction(cmd)
    BY <1>2 DEF Send
  <2>2. cmd.op # "GetIrqStatus"
    BY DEF NoIrqReads
  <2>3. streamed' = streamed /\ streamed = buffered
    BY <1>2 DEF Send, PathsInv
  <2>. QED BY <2>1, <2>2, <2>3 DEF PathsInv, BeginTransaction
<1>3. CASE Clock
  <2>1. Clocked(txn).cmd = txn.cmd
    BY DEF Clocked
  <2>2. streamed' = streamed
    BY <1>3, <2>1, BytesChangeNothing DEF Clock, PathsInv
  <2>. QED BY <1>3, <2>1, <2>2 DEF Clock, PathsInv
<1>4. CASE Release
  <2>1. streamed' = Transfer(streamed, call.cmd, call.len)
    BY <1>4, ReleaseActs DEF Release, PathsInv
  <2>2. ~call'.open /\ buffered' = buffered
    BY <1>4 DEF Release, Idle
  <2>. QED BY <1>4, <2>1, <2>2 DEF Release, PathsInv
<1>5. CASE UNCHANGED vars
  BY <1>5 DEF vars, PathsInv
<1>. QED BY <1>1, <1>2, <1>3, <1>4, <1>5 DEF Next

\* The two chips are the same chip between commands (endTransaction() and
\* spiTransfer(), VirtualSX1262.cpp 278-295), whatever the commands' lengths.
THEOREM ChipsAgreeHolds == ASSUME NoIrqReads PROVE Spec => []ChipsAgree
PROOF
<1>1. Init => PathsInv
  BY PathsInit
<1>2. PathsInv /\ [Next]_vars => PathsInv'
  BY PathsNext
<1>3. PathsInv => ChipsAgree
  BY DEF PathsInv, ChipsAgree
<1>. QED BY <1>1, <1>2, <1>3, PTL DEF Spec

\* A command is acted on once, at its release: no byte before it changes the
\* chip (transferByte(), VirtualSX1262.cpp 253-276).
THEOREM ActsAtReleaseHolds == ASSUME NoIrqReads PROVE Spec => ActsAtRelease
PROOF
<1>1. Init => PathsInv
  BY PathsInit
<1>2. PathsInv /\ [Next]_vars => PathsInv'
  BY PathsNext
<1>3. PathsInv /\ [Next]_vars
        => [call.open /\ streamed' # streamed => txn.n = call.len]_vars
  <2>1. ASSUME PathsInv, Next, call.open, streamed' # streamed
        PROVE  txn.n = call.len
    <3>1. CASE Clock
      <4>1. Clocked(txn).cmd = txn.cmd
        BY DEF Clocked
      <4>2. streamed' = streamed
        BY <2>1, <3>1, <4>1, BytesChangeNothing DEF Clock, PathsInv
      <4>. QED BY <2>1, <4>2
    <3>2. CASE Release
      BY <3>2 DEF Release
    <3>. QED BY <2>1, <3>1, <3>2
         DEF Next, SimTick, SimFrame, SimChannel, SimTxDone, Simulate, Send
  <2>. QED BY <2>1
<1>. QED BY <1>1, <1>2, <1>3, PTL DEF Spec, ActsAtRelease

-----------------------------------------------------------------------------
\* The driver besides does not send GetRssiInst, which ReturnsData leaves out.
NoRssiReads == \A cmd \in Commands : cmd.op # "GetRssiInst"

\* Byte k of the streamed reply to a command of the length the driver gives it
\* is byte k of the buffered reply, a getter's from the same chip.
LEMMA ReplyByByte ==
  ASSUME NEW c, NEW d, NEW cmd, NEW len \in Nat, NEW k \in 1..len, NEW t,
         t.cmd = cmd, t.n = k,
         cmd.op # "GetIrqStatus", cmd.op # "GetRssiInst",
         DataBytes(cmd.op) # {} => len = GetterLength(cmd.op),
         cmd.op \in ReturnsData => d = c
  PROVE  ByteReply(c, t) = Reply(d, cmd, len, k - 1)
PROOF
<1>1. CASE cmd.op = "GetRxBufferStatus"
  <2>1. DataBytes(cmd.op) = {<<2, 4>>, <<3, 5>>} /\ GetterLength(cmd.op) = 4
    BY <1>1 DEF DataBytes, GetterLength
  <2>2. len = 4 /\ d = c
    BY <1>1, <2>1 DEF ReturnsData
  <2>3. Data(c, cmd, 3) = Byte(0)
    BY <1>1 DEF Data
  <2>4. Padded(k) = 16
    BY <2>2 DEF Padded
  <2>5. k \in {1, 2, 3, 4}
    BY <2>2
  <2>6. ByteReply(c, t) = Reply(c, cmd, 16, k - 1)
    BY <1>1, <2>4 DEF ByteReply, ReturnsData
  <2>7. (\E x \in DataBytes(cmd.op) : x[1] = k - 1 /\ 16 >= x[2]) <=> k - 1 \in {2, 3}
    BY <2>1, <2>5
  <2>8. (\E x \in DataBytes(cmd.op) : x[1] = k - 1 /\ len >= x[2]) <=> k - 1 \in {2}
    BY <2>1, <2>2, <2>5
  <2>9. cmd.op # "ReadBuffer"
    BY <1>1
  <2>. QED BY <2>2, <2>3, <2>5, <2>6, <2>7, <2>8, <2>9 DEF Reply
<1>2. CASE cmd.op = "GetPacketStatus"
  <2>1. DataBytes(cmd.op) = {<<2, 3>>, <<3, 4>>, <<4, 5>>} /\ GetterLength(cmd.op) = 5
    BY <1>2 DEF DataBytes, GetterLength
  <2>2. len = 5 /\ d = c
    BY <1>2, <2>1 DEF ReturnsData
  <2>4. Padded(k) = 16
    BY <2>2 DEF Padded
  <2>5. k \in {1, 2, 3, 4, 5}
    BY <2>2
  <2>6. ByteReply(c, t) = Reply(c, cmd, 16, k - 1)
    BY <1>2, <2>4 DEF ByteReply, ReturnsData
  <2>7. (\E x \in DataBytes(cmd.op) : x[1] = k - 1 /\ 16 >= x[2]) <=> k - 1 \in {2, 3, 4}
    BY <2>1, <2>5
  <2>8. (\E x \in DataBytes(cmd.op) : x[1] = k - 1 /\ len >= x[2]) <=> k - 1 \in {2, 3, 4}
    BY <2>1, <2>2, <2>5
  <2>9. cmd.op # "ReadBuffer"
    BY <1>2
  <2>. QED BY <2>2, <2>5, <2>6, <2>7, <2>8, <2>9 DEF Reply
<1>3. CASE cmd.op = "GetPacketType"
  <2>1. DataBytes(cmd.op) = {<<2, 3>>} /\ GetterLength(cmd.op) = 3
    BY <1>3 DEF DataBytes, GetterLength
  <2>2. len = 3 /\ d = c
    BY <1>3, <2>1 DEF ReturnsData
  <2>4. Padded(k) = 16
    BY <2>2 DEF Padded
  <2>5. k \in {1, 2, 3}
    BY <2>2
  <2>6. ByteReply(c, t) = Reply(c, cmd, 16, k - 1)
    BY <1>3, <2>4 DEF ByteReply, ReturnsData
  <2>7. (\E x \in DataBytes(cmd.op) : x[1] = k - 1 /\ 16 >= x[2]) <=> k - 1 \in {2}
    BY <2>1, <2>5
  <2>8. (\E x \in DataBytes(cmd.op) : x[1] = k - 1 /\ len >= x[2]) <=> k - 1 \in {2}
    BY <2>1, <2>2, <2>5
  <2>9. cmd.op # "ReadBuffer"
    BY <1>3
  <2>. QED BY <2>2, <2>5, <2>6, <2>7, <2>8, <2>9 DEF Reply
<1>4. CASE cmd.op = "ReadBuffer"
  <2>1. DataBytes(cmd.op) = {}
    BY <1>4 DEF DataBytes
  <2>2. d = c
    BY <1>4 DEF ReturnsData
  <2>3. ByteReply(c, t) = Reply(c, cmd, Padded(k), k - 1)
    BY <1>4 DEF ByteReply, ReturnsData
  <2>. QED BY <1>4, <2>1, <2>2, <2>3 DEF Reply
<1>5. CASE cmd.op \notin ReturnsData
  <2>1. DataBytes(cmd.op) = {} /\ cmd.op # "ReadBuffer"
    BY <1>5 DEF DataBytes, ReturnsData
  <2>2. Reply(d, cmd, len, k - 1) = IF k - 1 = 1 THEN Status ELSE Byte(0)
    BY <2>1 DEF Reply
  <2>3. ByteReply(c, t) = IF k = 2 THEN Status ELSE Byte(0)
    BY <1>5 DEF ByteReply
  <2>. QED BY <2>2, <2>3
<1>. QED BY <1>1, <1>2, <1>3, <1>4, <1>5 DEF ReturnsData

\* The streamed reply so far is the beginning of the buffered one.
RepliesInv ==
  call.open =>
    /\ call.cmd.op # "GetRssiInst"
    /\ call.len \in Nat /\ txn.n \in 0..call.len
    /\ DataBytes(call.cmd.op) # {} => call.len = GetterLength(call.cmd.op)
    /\ call.answer = TransferReply(buffered, call.cmd, call.len)
    /\ got = [k \in 1..txn.n |-> call.answer[k]]

\* Every byte clocked extends the reply by the right one.
LEMMA RepliesNext ==
  ASSUME NoIrqReads, NoRssiReads, MaxLength \in Nat, PathsInv, RepliesInv, [Next]_vars
  PROVE  RepliesInv'
PROOF
<1>1. ASSUME SimTick \/ SimFrame \/ SimChannel \/ SimTxDone PROVE RepliesInv'
  BY <1>1 DEF SimTick, SimFrame, SimChannel, SimTxDone, Simulate, RepliesInv
<1>2. CASE Send
  <2>1. PICK cmd \in Commands : \E n \in Lengths(cmd) :
          /\ buffered' = Transfer(buffered, cmd, n)
          /\ call' = [cmd |-> cmd, len |-> n, open |-> TRUE,
                      answer |-> TransferReply(Transfer(buffered, cmd, n), cmd, n)]
          /\ txn' = BeginTransaction(cmd)
    BY <1>2 DEF Send
  <2>2. PICK n \in Lengths(cmd) :
          /\ buffered' = Transfer(buffered, cmd, n)
          /\ call' = [cmd |-> cmd, len |-> n, open |-> TRUE,
                      answer |-> TransferReply(Transfer(buffered, cmd, n), cmd, n)]
          /\ txn' = BeginTransaction(cmd)
    BY <2>1
  <2>3. cmd.op # "GetRssiInst" /\ cmd.op # "GetIrqStatus"
    BY DEF NoRssiReads, NoIrqReads
  <2>4. n \in Nat /\ (DataBytes(cmd.op) # {} => n = GetterLength(cmd.op))
    <3>1. CASE DataBytes(cmd.op) = {}
      BY <3>1 DEF Lengths
    <3>2. CASE DataBytes(cmd.op) # {}
      <4>1. GetterLength(cmd.op) \in Nat
        BY <2>3, <3>2 DEF DataBytes, GetterLength
      <4>. QED BY <3>2, <4>1 DEF Lengths
    <3>. QED BY <3>1, <3>2
  <2>5. got' = << >> /\ txn'.n = 0
    BY <1>2, <2>2 DEF Send, BeginTransaction
  <2>6. got' = [k \in 1..txn'.n |-> call'.answer[k]]
    BY <2>5
  <2>. QED BY <2>2, <2>3, <2>4, <2>5, <2>6 DEF RepliesInv
<1>3. CASE Clock
  <2>1. /\ call.open /\ txn.n \in Nat /\ call.len \in Nat /\ txn.n < call.len
        /\ call' = call /\ buffered' = buffered
        /\ txn' = Clocked(txn) /\ Clocked(txn).cmd = call.cmd
        /\ Clocked(txn).n = txn.n + 1
    BY <1>3 DEF Clock, Clocked, RepliesInv, PathsInv
  <2>2. streamed' = streamed
    BY <1>3, <2>1, BytesChangeNothing DEF Clock, PathsInv
  <2>3. call.cmd.op \in ReturnsData => buffered = streamed
    BY <2>1, GettersReadOnly DEF PathsInv, Transfer
  <2>4. ByteReply(streamed, Clocked(txn)) = Reply(buffered, call.cmd, call.len, txn.n)
    <3>1. txn.n + 1 \in 1..call.len
      BY <2>1
    <3>2. (txn.n + 1) - 1 = txn.n
      BY <2>1
    <3>. QED BY <2>1, <2>3, <3>1, <3>2, ReplyByByte DEF RepliesInv, PathsInv
  <2>5. call.answer[txn.n + 1] = Reply(buffered, call.cmd, call.len, txn.n)
    BY <2>1 DEF RepliesInv, TransferReply
  <2>6. got' = Append(got, call.answer[txn.n + 1])
    BY <1>3, <2>2, <2>4, <2>5 DEF Clock
  <2>7. got = [k \in 1..txn.n |-> call.answer[k]]
    BY <2>1 DEF RepliesInv
  <2>8. got' = [k \in 1..(txn.n + 1) |-> call.answer[k]]
    BY <2>1, <2>6, <2>7
  <2>. QED BY <2>1, <2>8 DEF RepliesInv
<1>4. CASE Release
  BY <1>4 DEF Release, Idle, RepliesInv
<1>5. CASE UNCHANGED vars
  BY <1>5 DEF vars, RepliesInv
<1>. QED BY <1>1, <1>2, <1>3, <1>4, <1>5 DEF Next

\* "The streaming path must answer exactly as the buffer path does"
\* (streaming_test.cpp, line 1), for every chip and every history, as long as
\* neither GetIrqStatus nor GetRssiInst is among the commands.
THEOREM RepliesAgreeHolds ==
  ASSUME NoIrqReads, NoRssiReads, MaxLength \in Nat PROVE Spec => []RepliesAgree
PROOF
<1>1. Init => PathsInv /\ RepliesInv
  BY PathsInit DEF Init, Idle, RepliesInv
<1>2. PathsInv /\ RepliesInv /\ [Next]_vars => PathsInv' /\ RepliesInv'
  BY PathsNext, RepliesNext
<1>3. RepliesInv => RepliesAgree
  <2>1. ASSUME RepliesInv, call.open, txn.n = call.len PROVE got = call.answer
    <3>1. call.answer = [k \in 1..call.len |-> Reply(buffered, call.cmd, call.len, k - 1)]
      BY <2>1 DEF RepliesInv, TransferReply
    <3>2. got = [k \in 1..call.len |-> call.answer[k]]
      BY <2>1 DEF RepliesInv
    <3>. QED BY <3>1, <3>2
  <2>. QED BY <2>1 DEF RepliesAgree
<1>. QED BY <1>1, <1>2, <1>3, PTL DEF Spec

-----------------------------------------------------------------------------
\* What the driver's members are between two calls.
Settings == [sf : SfRange, bw : Nat, code : Codes, cr : 1..4, ldro : BOOLEAN,
             preamble : Preambles]
ChipSettings == [sf : SfRange, bw : {Decodes(code) : code \in Codes}, cr : CrRange,
                 preamble : Words]

\* The bandwidth asked for is the one its code stands for, to a hundredth.
Close(bw, code) ==
  100 * (Decodes(code) - bw) <= bw /\ 100 * (bw - Decodes(code)) <= bw

\* The chip that has decoded everything the driver holds.  The driver's low data rate
\* optimisation is that of its other settings.
Decoded(d) == [sf |-> d.sf, bw |-> Decodes(d.code), cr |-> 4 + d.cr, preamble |-> d.preamble]

Matched(m) == \E d \in Settings :
                /\ Close(d.bw, d.code) /\ d.ldro = SlowSymbol(d.sf, d.bw)
                /\ m = [drv |-> d, chip |-> Decoded(d)]

\* A bandwidth that is accepted has a code of the chip's table.
LEMMA EncodesInCodes ==
  ASSUME NEW bw \in Nat, Accepted(bw)
  PROVE  Encodes[Half(bw)] \in Codes
PROOF
<1>. DEFINE h == Half(bw)
<1>1. h \in {3, 5, 7, 10, 15, 20, 31, 62, 125, 250}
  BY DEF Accepted, Encodes
<1>2. Encodes[h] \in {0, 8, 1, 9, 2, 10, 3, 4, 5, 6}
  <2>. HIDE DEF h
  <2>. QED  BY <1>1 DEF Encodes
<1>. QED  BY <1>2 DEF Codes

\* SetModulationParams carries the whole of the driver's modulation, so that the chip
\* needs nothing of its own but the preamble.
LEMMA ModulatedMatches ==
  ASSUME NEW d \in Settings, NEW c \in ChipSettings,
         c.preamble = d.preamble, Close(d.bw, d.code)
  PROVE  Matched(Modulated([drv |-> d, chip |-> c]))
PROOF
<1>. DEFINE e == [d EXCEPT !.ldro = SlowSymbol(d.sf, d.bw)]
<1>1. SlowSymbol(d.sf, d.bw) \in BOOLEAN
  BY DEF SlowSymbol
<1>2. e \in Settings /\ e.bw = d.bw /\ e.code = d.code /\ e.sf = d.sf /\ e.cr = d.cr
        /\ e.preamble = d.preamble /\ e.ldro = SlowSymbol(e.sf, e.bw)
  BY <1>1 DEF Settings
<1>3. ApplyModulation(c, e.sf, e.code, e.cr) = Decoded(e)
  <2>. HIDE DEF e
  <2>1. e.code \in Codes /\ e.cr # 0
    BY <1>2 DEF Settings
  <2>. QED  BY <1>2, <2>1 DEF ApplyModulation, Decoded
<1>4. Modulated([drv |-> d, chip |-> c]) = [drv |-> e, chip |-> Decoded(e)]
  BY <1>3 DEF Modulated
<1>. QED  BY <1>2, <1>4 DEF Matched

\* The chip of a driver's settings is a chip.
LEMMA DecodedType ==
  ASSUME NEW d \in Settings
  PROVE  Decoded(d) \in ChipSettings
PROOF
<1>1. Decodes(d.code) \in {Decodes(code) : code \in Codes}
  BY DEF Settings
<1>2. 4 + d.cr \in CrRange /\ d.preamble \in Words
  BY SettingsAssumption DEF Settings, CrRange
<1>. QED  BY <1>1, <1>2 DEF Decoded, ChipSettings, Settings

\* Each setter keeps the two alike: one that is refused by doing nothing.
LEMMA SetSfMatches ==
  ASSUME NEW m, NEW sf, Matched(m)
  PROVE  Matched(SetSf(m, sf))
PROOF
<1>1. CASE sf \notin SfRange
  BY <1>1 DEF SetSf
<1>2. CASE sf \in SfRange
  <2>1. PICK d \in Settings : Close(d.bw, d.code) /\ m = [drv |-> d, chip |-> Decoded(d)]
    BY DEF Matched
  <2>. DEFINE e == [d EXCEPT !.sf = sf]
  <2>2. e \in Settings /\ e.bw = d.bw /\ e.code = d.code /\ e.preamble = d.preamble
    BY <1>2 DEF Settings
  <2>3. [m EXCEPT !.drv.sf = sf] = [drv |-> e, chip |-> Decoded(d)]
    BY <2>1
  <2>4. Decoded(d) \in ChipSettings /\ Decoded(d).preamble = e.preamble
    BY <2>2, DecodedType DEF Decoded
  <2>5. Matched(Modulated([drv |-> e, chip |-> Decoded(d)]))
    <3>. HIDE DEF e
    <3>. QED  BY <2>1, <2>2, <2>4, ModulatedMatches
  <2>. QED  BY <1>2, <2>3, <2>5 DEF SetSf
<1>. QED  BY <1>1, <1>2

LEMMA SetBwMatches ==
  ASSUME NEW m, NEW bw \in Bws \cup {FirstBw}, Matched(m)
  PROVE  Matched(SetBw(m, bw))
PROOF
<1>1. CASE ~Accepted(bw)
  BY <1>1 DEF SetBw
<1>2. CASE Accepted(bw)
  <2>1. PICK d \in Settings : Close(d.bw, d.code) /\ m = [drv |-> d, chip |-> Decoded(d)]
    BY DEF Matched
  <2>. DEFINE code == Encodes[Half(bw)]
              e == [d EXCEPT !.bw = bw, !.code = code]
  <2>2. bw \in Nat
    BY SettingsAssumption
  <2>3. code \in Codes
    BY <1>2, <2>2, EncodesInCodes
  <2>4. Close(bw, code)
    BY <1>2, NominalBws DEF Close
  <2>5. [m EXCEPT !.drv = [@ EXCEPT !.bw = bw, !.code = code]] = [drv |-> e, chip |-> Decoded(d)]
    BY <2>1
  <2>. HIDE DEF code
  <2>6. e \in Settings /\ e.bw = bw /\ e.code = code /\ e.preamble = d.preamble
    BY <2>2, <2>3 DEF Settings
  <2>7. Decoded(d) \in ChipSettings /\ Decoded(d).preamble = e.preamble
    BY <2>6, DecodedType DEF Decoded
  <2>8. Matched(Modulated([drv |-> e, chip |-> Decoded(d)]))
    <3>. HIDE DEF e
    <3>. QED  BY <2>4, <2>6, <2>7, ModulatedMatches
  <2>. QED  BY <1>2, <2>5, <2>8 DEF SetBw, code
<1>. QED  BY <1>1, <1>2

LEMMA SetCrMatches ==
  ASSUME NEW m, NEW cr \in Crs \cup {FirstCr}, Matched(m)
  PROVE  Matched(SetCr(m, cr))
PROOF
<1>1. cr # 4
  BY SettingsAssumption DEF CrRange
<1>2. CASE cr \notin CrRange
  BY <1>1, <1>2 DEF SetCr
<1>3. CASE cr \in CrRange
  <2>1. PICK d \in Settings : Close(d.bw, d.code) /\ m = [drv |-> d, chip |-> Decoded(d)]
    BY DEF Matched
  <2>. DEFINE e == [d EXCEPT !.cr = cr - 4]
  <2>2. e \in Settings /\ e.bw = d.bw /\ e.code = d.code /\ e.preamble = d.preamble
    BY <1>3 DEF Settings, CrRange
  <2>3. [m EXCEPT !.drv.cr = cr - 4] = [drv |-> e, chip |-> Decoded(d)]
    BY <2>1
  <2>4. Decoded(d) \in ChipSettings /\ Decoded(d).preamble = e.preamble
    BY <2>2, DecodedType DEF Decoded
  <2>5. Matched(Modulated([drv |-> e, chip |-> Decoded(d)]))
    <3>. HIDE DEF e
    <3>. QED  BY <2>1, <2>2, <2>4, ModulatedMatches
  <2>. QED  BY <1>3, <2>3, <2>5 DEF SetCr
<1>. QED  BY <1>2, <1>3

LEMMA SetPreambleMatches ==
  ASSUME NEW m, NEW n \in Preambles, Matched(m)
  PROVE  Matched(SetPreamble(m, n))
PROOF
<1>1. PICK d \in Settings : /\ Close(d.bw, d.code) /\ d.ldro = SlowSymbol(d.sf, d.bw)
                            /\ m = [drv |-> d, chip |-> Decoded(d)]
  BY DEF Matched
<1>. DEFINE e == [d EXCEPT !.preamble = n]
<1>2. e \in Settings /\ Close(e.bw, e.code) /\ e.ldro = SlowSymbol(e.sf, e.bw)
  BY <1>1 DEF Settings
<1>3. SetPreamble(m, n) = [drv |-> e, chip |-> Decoded(e)]
  BY <1>1 DEF SetPreamble, Decoded, Settings
<1>. QED  BY <1>2, <1>3 DEF Matched

-----------------------------------------------------------------------------
\* Before begin the chip is as it was switched on; from then on it is the driver's.
ModemInv ==
  /\ up \in BOOLEAN
  /\ ~up => chip = ModemPowerOn
  /\ up => Matched(Both)

LEMMA PowerOnType == ModemPowerOn \in ChipSettings
PROOF
<1>1. 25000 \in {Decodes(code) : code \in Codes}
  <2>1. 5 \in Codes /\ Decodes(5) = 25000
    BY DEF Codes, Decodes
  <2>. QED  BY <2>1
<1>2. 10 \in SfRange /\ 5 \in CrRange /\ 16 \in Words
  BY DEF SfRange, CrRange, Words
<1>. QED  BY <1>1, <1>2 DEF ModemPowerOn, ChipSettings

\* begin() starts from a driver that has sent nothing; the first command matches the two.
LEMMA BeginMatches ==
  ASSUME NEW n \in Preambles
  PROVE  Matched(SetPreamble(SetCr([drv |-> Fresh(n), chip |-> ModemPowerOn], FirstCr), n))
PROOF
<1>. DEFINE d == [Fresh(n) EXCEPT !.cr = FirstCr - 4]
            c == [ModemPowerOn EXCEPT !.preamble = n]
            m == Modulated([drv |-> d, chip |-> ModemPowerOn])
<1>1. SetCr([drv |-> Fresh(n), chip |-> ModemPowerOn], FirstCr) = m
  BY SettingsAssumption DEF SetCr
<1>2. d \in Settings /\ d.bw = 50000 /\ d.code = 6 /\ d.preamble = n
  <2>1. FirstCr - 4 \in 1..4 /\ 9 \in SfRange /\ 6 \in Codes
    BY SettingsAssumption DEF SfRange, CrRange, Codes
  <2>2. Fresh(n) \in Settings
    BY <2>1 DEF Fresh, Settings
  <2>3. Fresh(n).bw = 50000 /\ Fresh(n).code = 6 /\ Fresh(n).preamble = n
    BY DEF Fresh
  <2>. QED  BY <2>1, <2>2, <2>3 DEF Settings
<1>3. Close(d.bw, d.code)
  <2>1. Decodes(6) = 50000
    BY DEF Decodes
  <2>. QED  BY <1>2, <2>1 DEF Close
<1>4. c \in ChipSettings
  BY PowerOnType, SettingsAssumption DEF ChipSettings
<1>5. Matched(Modulated([drv |-> d, chip |-> c]))
  <2>1. c.preamble = d.preamble
    BY <1>2, PowerOnType DEF ChipSettings
  <2>. HIDE DEF d, c
  <2>. QED  BY <1>2, <1>3, <1>4, <2>1, ModulatedMatches
<1>6. SetPreamble(m, n) =
        SetPreamble(Modulated([drv |-> d, chip |-> c]), n)
  <2>. HIDE DEF d
  <2>1. d.code \in Codes /\ d.cr # 0
    BY <1>2 DEF Settings
  <2>. QED  BY <2>1 DEF SetPreamble, Modulated, ApplyModulation, ModemPowerOn
<1>. QED  BY <1>1, <1>5, <1>6, SetPreambleMatches

LEMMA ModemInvInit == ModemInit => ModemInv
PROOF BY DEF ModemInit, ModemInv

LEMMA ModemInvStep == ModemInv /\ [ModemNext]_settings => ModemInv'
PROOF
<1>. SUFFICES ASSUME ModemInv, [ModemNext]_settings PROVE ModemInv'
  OBVIOUS
<1>1. CASE Begin
  <2>1. PICK n \in Preambles :
          LET m == SetPreamble(SetCr([Both EXCEPT !.drv = Fresh(n)], FirstCr), n)
          IN Become(SetBw(SetSf(m, FirstSf), FirstBw))
    BY <1>1 DEF Begin
  <2>2. [Both EXCEPT !.drv = Fresh(n)] = [drv |-> Fresh(n), chip |-> ModemPowerOn]
    BY <1>1 DEF Begin, Both, ModemInv
  <2>. DEFINE m == SetPreamble(SetCr([Both EXCEPT !.drv = Fresh(n)], FirstCr), n)
  <2>3. Matched(m)
    BY <2>2, BeginMatches
  <2>4. Become(SetBw(SetSf(m, FirstSf), FirstBw))
    BY <2>1
  <2>. HIDE DEF m
  <2>5. Matched(SetBw(SetSf(m, FirstSf), FirstBw))
    BY <2>3, SetSfMatches, SetBwMatches
  <2>. QED  BY <1>1, <2>4, <2>5 DEF Begin, Become, Both, Matched, ModemInv
<1>2. CASE SetParams
  <2>1. PICK sf \in Sfs, bw \in Bws, cr \in Crs :
          Become(SetCr(SetBw(SetSf(Both, sf), bw), cr))
    BY <1>2 DEF SetParams
  <2>2. Matched(Both)
    BY <1>2 DEF SetParams, ModemInv
  <2>3. Matched(SetCr(SetBw(SetSf(Both, sf), bw), cr))
    BY <2>2, SetSfMatches, SetBwMatches, SetCrMatches
  <2>. QED  BY <1>2, <2>1, <2>3 DEF SetParams, Become, Both, Matched, ModemInv
<1>3. CASE UpdatePreamble
  <2>1. PICK n \in Preambles : Become(SetPreamble(Both, n))
    BY <1>3 DEF UpdatePreamble
  <2>2. Matched(SetPreamble(Both, n))
    BY <1>3, SetPreambleMatches DEF UpdatePreamble, ModemInv
  <2>. QED  BY <1>3, <2>1, <2>2 DEF UpdatePreamble, Become, Both, Matched, ModemInv
<1>4. CASE UNCHANGED settings
  BY <1>4 DEF settings, ModemInv, Both
<1>. QED  BY <1>1, <1>2, <1>3, <1>4 DEF ModemNext

\* The invariant says what the runs check.
LEMMA ModemInvImplies == ModemInv => TypeOK /\ SettingsMatch
PROOF
<1>. SUFFICES ASSUME ModemInv PROVE TypeOK /\ SettingsMatch
  OBVIOUS
<1>1. CASE ~up
  <2>1. chip \in ChipSettings
    BY <1>1, PowerOnType DEF ModemInv
  <2>. QED  BY <1>1, <2>1 DEF TypeOK, SettingsMatch, ChipSettings, ModemInv
<1>2. CASE up
  <2>1. PICK d \in Settings : Close(d.bw, d.code) /\ drv = d /\ chip = Decoded(d)
    BY <1>2 DEF ModemInv, Matched, Both
  <2>2. chip \in ChipSettings
    BY <2>1, DecodedType
  <2>3. TypeOK
    BY <1>2, <2>1, <2>2 DEF TypeOK, Settings, ChipSettings
  <2>4. SettingsMatch
    BY <2>1 DEF SettingsMatch, Decoded, Close, Settings
  <2>. QED  BY <2>3, <2>4
<1>. QED  BY <1>1, <1>2 DEF ModemInv

\* The bandwidths at which airtimes are compared are exact in the chip's table.
LEMMA NominalDecoded ==
  ASSUME NEW code \in Codes, NEW bw \in AirBw, Close(bw, code)
  PROVE  Decodes(code) = bw
PROOF
<1>1. bw \in {6250, 12500, 25000, 50000}
  BY SettingsAssumption
<1>2. Decodes(code) \in {781, 1042, 1563, 2083, 3125, 4167, 6250, 12500, 25000, 50000}
  BY DEF Codes, Decodes
<1>. QED  BY <1>1, <1>2 DEF Close

\* Rounded where another is cut, the number of milliseconds is the same or one more.
LEMMA Rounding ==
  ASSUME NEW x \in Int
  PROVE  /\ (x \div 4) \div 1000 = x \div 4000
         /\ (x + 2000) \div 4000 - x \div 4000 \in {0, 1}
PROOF OBVIOUS

LEMMA CompareTypes ==
  ASSUME NEW d \in Settings, d.bw \in AirBw, NEW len \in Lens
  PROVE  /\ d.sf \in 5..12 /\ d.bw \in {6250, 12500, 25000, 50000} /\ d.cr \in 1..4
         /\ d.ldro \in BOOLEAN /\ d.preamble \in Nat /\ len \in Nat /\ d.code \in Codes
PROOF
<1>1. /\ d.sf \in 5..12 /\ d.cr \in 1..4 /\ d.ldro \in BOOLEAN /\ d.code \in Codes
      /\ d.preamble \in Preambles
  BY DEF Settings, SfRange
<1>2. /\ AirBw \subseteq {6250, 12500, 25000, 50000} /\ Preambles \subseteq Words
      /\ Lens \subseteq 0..255
  BY SettingsAssumption
<1>3. d.preamble \in Words
  BY ONLY <1>1, <1>2
<1>4. d.preamble \in Nat
  <2>1. \A n \in Words : n \in Nat
    BY DEF Words
  <2>. QED  BY <1>3, <2>1, Zenon
<1>5. len \in Nat
  BY ONLY <1>2, len \in Lens
<1>6. d.bw \in {6250, 12500, 25000, 50000}
  <2>. DEFINE Exact == {6250, 12500, 25000, 50000}
  <2>1. AirBw \subseteq Exact
    BY <1>2
  <2>. HIDE DEF Exact
  <2>2. d.bw \in Exact
    BY <2>1, Zenon
  <2>. QED  BY <2>2 DEF Exact
<1>. QED  BY <1>1, <1>4, <1>5, <1>6

\* The three formulas are one number, quarter symbols times a symbol's microseconds, which
\* each divides in its own way.
LEMMA SameAirtimes ==
  ASSUME NEW d \in Settings, d.bw \in AirBw, Close(d.bw, d.code),
         d.ldro = SlowSymbol(d.sf, d.bw), NEW len \in Lens
  PROVE  LET lib == LibAirtime(d, len) \div 1000
             c == Decoded(d)
         IN /\ c.sf >= 7 /\ ((c.sf >= 11) = SlowSymbol(c.sf, c.bw)) =>
                 ChipAirtime(c, len) - lib \in {0, 1}
            /\ d.preamble = PreambleFor(d.sf) => HostAirtime(d.sf, d.bw, d.cr, len) = lib
PROOF
<1>. DEFINE us == SymbolUs(d.sf, d.bw)
            short == d.sf \in {5, 6}
            bits == 8 * len + 36 - 4 * d.sf + (IF short THEN 0 ELSE 8)
            den == 4 * (d.sf - (IF d.ldro THEN 2 ELSE 0))
            coded == Ceil(IF bits < 0 THEN 0 ELSE bits, den)
            quarters == (d.preamble + 8) * 4 + (IF short THEN 25 ELSE 17)
                          + coded * (d.cr + 4) * 4
            x == us * quarters
<1>1. /\ d.sf \in 5..12 /\ d.bw \in {6250, 12500, 25000, 50000} /\ d.cr \in 1..4
      /\ d.ldro \in BOOLEAN /\ d.preamble \in Nat /\ len \in Nat /\ d.code \in Codes
  BY CompareTypes
<1>2. us \in Int
  <2>1. 2^d.sf \in Int
    <3>1. \A n \in 5..12 : 2^n \in Int
      BY SMT
    <3>. QED  BY <1>1, <3>1
  <2>. DEFINE w == 2^d.sf
  <2>. HIDE DEF w
  <2>2. w \in Int => (w * 100000) \div d.bw \in Int
    BY <1>1
  <2>. QED  BY <2>1, <2>2 DEF SymbolUs, w
<1>3. den \in {4 * n : n \in 3..12}
  BY <1>1
<1>4. bits \in Int
  BY <1>1
<1>5. coded \in Int
  <2>. HIDE DEF den, bits
  <2>. QED  BY <1>3, <1>4 DEF Ceil
<1>6. quarters \in Int
  <2>. HIDE DEF coded
  <2>. QED  BY <1>1, <1>5
<1>7. x \in Int
  <2>. HIDE DEF us, quarters
  <2>. QED  BY <1>2, <1>6
<1>8. LibAirtime(d, len) = x \div 4
  BY DEF LibAirtime
<1>9. d.preamble = PreambleFor(d.sf) => HostAirtime(d.sf, d.bw, d.cr, len) = x \div 4000
  <2>. SUFFICES ASSUME d.preamble = PreambleFor(d.sf)
                PROVE  HostAirtime(d.sf, d.bw, d.cr, len) = x \div 4000
    OBVIOUS
  <2>1. HostAirtime(d.sf, d.bw, d.cr, len) =
          (us * (4 * d.preamble + (IF short THEN 25 ELSE 17) + 32 + 4 * coded * (d.cr + 4)))
            \div 4000
    BY DEF HostAirtime
  <2>2. 4 * d.preamble + (IF short THEN 25 ELSE 17) + 32 + 4 * coded * (d.cr + 4) = quarters
    <3>. HIDE DEF coded
    <3>. QED  BY <1>1, <1>5
  <2>. HIDE DEF us, coded, quarters
  <2>. QED  BY <2>1, <2>2
<1>10. ASSUME d.sf >= 7, (d.sf >= 11) = SlowSymbol(d.sf, d.bw)
       PROVE  ChipAirtime(Decoded(d), len) = (x + 2000) \div 4000
  <2>. DEFINE num == 8 * len - 4 * d.sf + 44
              chipDen == 4 * (d.sf - (IF d.sf >= 11 THEN 2 ELSE 0))
              chipCoded == IF num > 0 THEN Ceil(num, chipDen) ELSE 0
  <2>1. ChipAirtime(Decoded(d), len) =
          (us * (4 * d.preamble + 49 + 4 * chipCoded * (4 + d.cr)) + 2000) \div 4000
    <3>1. Decodes(d.code) = d.bw
      BY <1>1, NominalDecoded
    <3>2. /\ Decoded(d).sf = d.sf /\ Decoded(d).bw = d.bw /\ Decoded(d).cr = 4 + d.cr
          /\ Decoded(d).preamble = d.preamble
      BY <3>1 DEF Decoded
    <3>. QED  BY <3>2 DEF ChipAirtime
  <2>2. chipDen = den /\ num = bits /\ ~short
    BY <1>1, <1>10
  <2>3. chipCoded = coded
    <3>1. \A n \in 3..12 : (0 + 4 * n - 1) \div (4 * n) = 0
      OBVIOUS
    <3>2. ~(bits > 0) => coded = 0
      <4>. HIDE DEF den, bits
      <4>. QED  BY <1>3, <1>4, <3>1 DEF Ceil
    <3>. HIDE DEF den, bits, num, chipDen
    <3>. QED  BY <1>4, <2>2, <3>2
  <2>4. 4 * d.preamble + 49 + 4 * chipCoded * (4 + d.cr) = quarters
    <3>. HIDE DEF coded, chipCoded
    <3>. QED  BY <1>1, <1>5, <2>2, <2>3
  <2>. HIDE DEF us, chipCoded, quarters
  <2>. QED  BY <2>1, <2>4
<1>11. Decoded(d).sf = d.sf /\ Decoded(d).bw = d.bw
  BY <1>1, NominalDecoded DEF Decoded
<1>12. /\ (x \div 4) \div 1000 = x \div 4000
       /\ (x + 2000) \div 4000 - x \div 4000 \in {0, 1}
  <2>. HIDE DEF x
  <2>. QED  BY <1>7, Rounding
<1>. HIDE DEF x
<1>. QED  BY <1>8, <1>9, <1>10, <1>11, <1>12

LEMMA ModemInvAirtimes == ModemInv => AirtimesAgree
PROOF
<1>. SUFFICES ASSUME ModemInv, up, drv.bw \in AirBw, NEW len \in Lens
              PROVE  LET lib == LibAirtime(drv, len) \div 1000
                     IN /\ chip.sf >= 7 /\ SameRule => ChipAirtime(chip, len) - lib \in {0, 1}
                        /\ drv.preamble = PreambleFor(drv.sf) =>
                             HostAirtime(drv.sf, drv.bw, drv.cr, len) = lib
  BY DEF AirtimesAgree
<1>1. PICK d \in Settings : /\ Close(d.bw, d.code) /\ d.ldro = SlowSymbol(d.sf, d.bw)
                            /\ drv = d /\ chip = Decoded(d)
  BY DEF ModemInv, Matched, Both
<1>. QED  BY <1>1, SameAirtimes DEF SameRule

\* The members and the chip's parameters keep their ranges (setSpreadingFactor and the
\* other setters, applyModulation).
THEOREM ModemTypeCorrect == ModemSpec => []TypeOK
PROOF
<1>. QED  BY ModemInvInit, ModemInvStep, ModemInvImplies, PTL DEF ModemSpec

\* Whatever the firmware asks for, and whatever of it RadioLib refuses, the chip is set to
\* what the driver believes (SX126x_config.cpp:44-137, VirtualSX1262.cpp:202-226).
THEOREM ModemSettingsMatch == ModemSpec => []SettingsMatch
PROOF
<1>. QED  BY ModemInvInit, ModemInvStep, ModemInvImplies, PTL DEF ModemSpec

\* What the chip, the driver and the stub's radio make of a frame's time on the air is the
\* same, the chip's rounded (VirtualSX1262.cpp:189-200, SX126x.cpp:788-819,
\* HostRadio.cpp:18-35), at whatever settings the node has come to, where their rules for
\* the low data rate are the same.
THEOREM ModemAirtimesAgree == ModemSpec => []AirtimesAgree
PROOF
<1>. QED  BY ModemInvInit, ModemInvStep, ModemInvAirtimes, PTL DEF ModemSpec
=============================================================================
