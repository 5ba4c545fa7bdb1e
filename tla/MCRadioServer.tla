----------------------------- MODULE MCRadioServer -----------------------------
(* RadioServer with a buffer of three cells and a frame of two bytes.         *)
EXTENDS RadioServer

MCModems == {"m"}
MCPreambleMs == [m \in Modems |-> 1]
MCHeaderMs == [m \in Modems |-> 2]
MCFrames == {<<0, 1>>}
MCOneFrame == {<<1>>}
=============================================================================
