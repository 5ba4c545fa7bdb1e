----------------------------- MODULE MCServerWire -----------------------------
(* ServerWire with a length of two binary digits, and a tick whose time is   *)
(* missing.                                                                   *)
EXTENDS ServerWire

MCOthers == {Message(kTick, << >>)}
=============================================================================
