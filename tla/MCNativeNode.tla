----------------------------- MODULE MCNativeNode -----------------------------
(* NativeNode with a buffer of three cells, frames of one and two bytes, and  *)
(* a detector that needs one millisecond for a preamble and two for a header. *)
EXTENDS NativeNode

MCModems == {"m"}
MCPreambleMs == [m \in Modems |-> 1]
MCHeaderMs == [m \in Modems |-> 2]
MCFrames == {<<1>>, <<0, 1>>}
MCOneFrame == {<<1>>}
=============================================================================
