---------------------------- MODULE RadioLibDriver ----------------------------
(***************************************************************************)
(* The command sequences the vendored RadioLib sends the chip for each of  *)
(* the calls MeshCore's driver makes, and runCommand()'s dispatch of one   *)
(* command.  A command is its opcode and its argument.  Left out are the   *)
(* commands that neither change the chip nor are read back here: the       *)
(* buffer bases (always 0, 0), the packet type and the sensitivity fix.    *)
(***************************************************************************)
EXTENDS VirtualSX1262

Cmd(op, arg) == [op |-> op, arg |-> arg]

\* RadioLib's default flags and DIO1 mask for reception, and its own for
\* transmission: the first set is what may be latched, the second what may
\* raise the pin.
RxIrqFlags == {"RxDone", "Timeout", "CrcErr", "Header", "HeaderErr"}
RxDio1 == {"RxDone"}
TxIrqFlags == {"TxDone", "Timeout"}
TxDio1 == {"TxDone"}

StartReceive ==
  << Cmd("SetStandby", 0), Cmd("SetDioIrqParams", <<RxIrqFlags, RxDio1>>),
     Cmd("ClearIrqStatus", Flags), Cmd("SetPacketParams", MaxPayload),
     Cmd("SetRx", 0) >>

\* No standby first: the chip may still be receiving while this is staged.
StartTransmit(f) ==
  << Cmd("SetPacketParams", Len(f)),
     Cmd("SetDioIrqParams", <<TxIrqFlags, TxDio1>>),
     Cmd("WriteBuffer", <<0, f>>), Cmd("ClearIrqStatus", Flags), Cmd("SetTx", 0) >>

FinishTransmit == << Cmd("ClearIrqStatus", Flags), Cmd("SetStandby", 0) >>

GetPacketLength == << Cmd("GetRxBufferStatus", 0) >>

ReadData ==
  << Cmd("GetIrqStatus", 0), Cmd("GetRxBufferStatus", 0),
     Cmd("ReadBuffer", 0), Cmd("ClearIrqStatus", Flags) >>

GetIrqFlags == << Cmd("GetIrqStatus", 0) >>

\* The length of a getter's transaction: opcode, status and the bytes it reads.
GetterLength(op) ==
  CASE op \in {"GetIrqStatus", "GetRxBufferStatus"} -> 4
    [] op = "GetPacketStatus" -> 5
    [] op \in {"GetRssiInst", "GetPacketType"} -> 3

\* runCommand() on a command that has arrived whole.
RunCommand(c, cmd) ==
  CASE cmd.op = "SetStandby" -> SetStandby(c)
    [] cmd.op = "SetRx" -> SetRx(c)
    [] cmd.op = "SetTx" -> SetTx(c)
    [] cmd.op = "SetCad" -> SetCad(c)
    [] cmd.op = "Calibrate" -> Calibrate(c)
    [] cmd.op = "SetModulationParams" -> SetModulationParams(c, cmd.arg)
    [] cmd.op = "SetPacketParams" -> SetPacketParams(c, cmd.arg)
    [] cmd.op = "WriteBuffer" -> WriteBuffer(c, cmd.arg[1], cmd.arg[2])
    [] cmd.op = "WriteRxGain" -> WriteRxGain(c, cmd.arg)
    [] cmd.op = "SetDioIrqParams" -> SetDioIrqParams(c, cmd.arg[1], cmd.arg[2])
    [] cmd.op = "ClearIrqStatus" -> ClearIrqStatus(c, cmd.arg)
    [] cmd.op = "GetIrqStatus" -> GetIrqStatus(c)
    [] OTHER -> c
=============================================================================
