----------------------------- MODULE MCChipAlone -----------------------------
(* ChipAlone on small instances: two modem settings that disagree about the  *)
(* detection times, a frame, and the masks the driver clears.               *)
EXTENDS ChipAlone

MCModems == {"fast", "slow"}
MCPreambleMs == [m \in Modems |-> IF m = "fast" THEN 1 ELSE 2]
MCHeaderMs == [m \in Modems |-> IF m = "fast" THEN 2 ELSE 3]
MCFrames == {<<1, 0>>}
MCClearMasks == {Flags, {"Preamble", "Header"}}
MCNoMask == {{}}
MCNothing == {<< >>}
=============================================================================
