----------------------------- MODULE MCBridgeWire -----------------------------
(* BridgeWire with a length of two binary digits: a message of up to three     *)
(* bytes fits.  One is typed, or a tick comes whose time is missing.           *)
EXTENDS BridgeWire

MCOthers == {Message(kConsoleIn, <<1, 2>>), Message(kTick, << >>)}
MCPasses == {[print |-> << >>, packet |-> << >>], [print |-> <<1>>, packet |-> <<1>>]}

\* These nodes do not print too much.
ASSUME MCPrintsFit == Fits(1)
=============================================================================
