------------------------------- MODULE SpiStream -------------------------------
(***************************************************************************)
(* The two ways a command reaches the chip.  The in-process HAL hands over *)
(* a whole buffer, spiTransfer(); an emulated MCU clocks single bytes      *)
(* between two edges of the chip select, beginTransaction(),               *)
(* transferByte() and endTransaction().                                    *)
(*                                                                         *)
(* The bytes of a command are its Cmd record and a length: what the chip   *)
(* makes of a command that was cut short depends on the length alone, and  *)
(* a reply is a value for each byte clocked.                               *)
(***************************************************************************)
EXTENDS RadioLibDriver

Byte(v) == <<"byte", v>>
FlagByte(flags) == IF flags = {} THEN Byte(0) ELSE <<"flags", flags>>
Status == <<"status", 0>>

-----------------------------------------------------------------------------
\* runCommand() on the first n bytes of a command.

\* The shortest command that is acted on.
MinLength(op) ==
  CASE op = "SetDioIrqParams" -> 9 [] op = "SetPacketParams" -> 7
    [] op = "SetModulationParams" -> 4 [] op = "ClearIrqStatus" -> 3
    [] op = "WriteBuffer" -> 2 [] op = "WriteRxGain" -> 4
    [] OTHER -> 1

\* A buffer write that stops early writes the bytes that came.
Cut(cmd, n) ==
  IF cmd.op = "WriteBuffer"
  THEN LET at == cmd.arg[1]
           bytes == cmd.arg[2]
       IN [cmd EXCEPT !.arg =
             <<at, SubSeq(bytes, 1, IF n - 2 < Len(bytes) THEN n - 2 ELSE Len(bytes))>>]
  ELSE cmd

Effect(c, cmd, n) ==
  IF n >= MinLength(cmd.op) THEN RunCommand(c, Cut(cmd, n)) ELSE c

\* Where a getter's reply carries data: <<byte, shortest command that gets it>>.
DataBytes(op) ==
  CASE op = "GetIrqStatus" -> {<<2, 4>>, <<3, 5>>}
    [] op = "GetRxBufferStatus" -> {<<2, 4>>, <<3, 5>>}
    [] op = "GetPacketStatus" -> {<<2, 3>>, <<3, 4>>, <<4, 5>>}
    [] op \in {"GetRssiInst", "GetPacketType"} -> {<<2, 3>>}
    [] OTHER -> {}

Data(c, cmd, i) ==
  CASE cmd.op = "GetIrqStatus" ->
         FlagByte(c.irq \cap (IF i = 2 THEN HighByte ELSE LowByte))
    [] cmd.op = "GetRxBufferStatus" -> Byte(IF i = 2 THEN c.rxLen ELSE 0)
    [] cmd.op = "ReadBuffer" ->
         Byte(IF cmd.arg + i - 3 \in Cells THEN c.buffer[cmd.arg + i - 3] ELSE 0)
    [] cmd.op = "GetPacketType" -> Byte(1)
    [] OTHER -> <<"signal", i>>       \* the fixed RSSI and SNR

\* Byte i of the reply to the first n bytes, counted from 0.
Reply(c, cmd, n, i) ==
  IF \/ cmd.op = "ReadBuffer" /\ i >= 3
     \/ \E d \in DataBytes(cmd.op) : d[1] = i /\ n >= d[2]
  THEN Data(c, cmd, i)
  ELSE IF i = 1 THEN Status ELSE Byte(0)

-----------------------------------------------------------------------------
\* The buffer path: spiTransfer().
Transfer(c, cmd, n) == IF n = 0 THEN c ELSE Effect(c, cmd, n)
TransferReply(c, cmd, n) == [i \in 1..n |-> Reply(c, cmd, n, i - 1)]

-----------------------------------------------------------------------------
\* The streaming path.  A transaction is the command and the bytes clocked.

\* Mutant of ReturnsData: a command that acts is taken for a read.
ReturnsDataTx ==
  {"ReadBuffer", "GetIrqStatus", "GetRxBufferStatus", "GetPacketStatus",
   "GetPacketType", "SetPacketParams"}

\* The commands answered byte by byte and not acted on at the end.  GetRssiInst
\* is not among them.
ReturnsData ==
  {"ReadBuffer", "GetIrqStatus", "GetRxBufferStatus", "GetPacketStatus",
   "GetPacketType"}

PaddedUnpadded(n) == n     \* mutant of Padded: only the bytes received

\* A getter is evaluated against at least this many bytes.
Padded(n) == IF n > 16 THEN n ELSE 16

BeginTransaction(cmd) == [cmd |-> cmd, n |-> 0]
Clocked(txn) == [txn EXCEPT !.n = @ + 1]

\* transferByte(), on the transaction with the new byte in it: what it does to
\* the chip and what it answers.
ByteEffect(c, txn) ==
  IF txn.cmd.op \in ReturnsData THEN Effect(c, txn.cmd, Padded(txn.n)) ELSE c
ByteReply(c, txn) ==
  IF txn.cmd.op \in ReturnsData
  THEN Reply(c, txn.cmd, Padded(txn.n), txn.n - 1)
  ELSE IF txn.n = 2 THEN Status ELSE Byte(0)

\* Mutant of EndTransaction: the padding of the getters is applied to it too.
EndTransactionPadded(c, txn) ==
  IF txn.n = 0 \/ txn.cmd.op \in ReturnsData THEN c
  ELSE Effect(c, txn.cmd, Padded(txn.n))

EndTransaction(c, txn) ==
  IF txn.n = 0 \/ txn.cmd.op \in ReturnsData THEN c
  ELSE Effect(c, txn.cmd, txn.n)
=============================================================================
