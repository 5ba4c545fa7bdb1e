------------------------------- MODULE MCSpiPaths -------------------------------
(* SpiPaths with every command but the two whose paths do not agree,           *)
(* GetIrqStatus (its reply and its counters) and GetRssiInst (its reply).      *)
EXTENDS SpiPaths

MCModems == {"m"}
MCPreambleMs == [m \in Modems |-> 1]
MCHeaderMs == [m \in Modems |-> 2]
MCFrames == {<<1>>}

MCAgree ==
  {Cmd("SetStandby", 0), Cmd("SetRx", 0), Cmd("SetTx", 0), Cmd("SetCad", 0),
   Cmd("Calibrate", 0), Cmd("WriteRxGain", "boosted"),
   Cmd("SetModulationParams", "m"), Cmd("SetPacketParams", 2),
   Cmd("WriteBuffer", <<0, <<0, 1>>>>), Cmd("SetDioIrqParams", <<RxIrqFlags, RxDio1>>),
   Cmd("ClearIrqStatus", Flags), Cmd("ReadBuffer", 0), Cmd("ReadBuffer", 2),
   Cmd("GetRxBufferStatus", 0), Cmd("GetPacketStatus", 0), Cmd("GetPacketType", 0)}
=============================================================================
