-------------------------------- MODULE Channel --------------------------------
(***************************************************************************)
(* One direction of a socket as its two ends would like it: messages       *)
(* arrive whole, once and in the order they were sent.  NativeNode and     *)
(* RadioServer use their sockets as such; BridgeWire implements it with    *)
(* bytes.                                                                  *)
(***************************************************************************)
EXTENDS Naturals, Sequences

VARIABLES sent, got    \* messages sent so far, and those received

vars == <<sent, got>>

Init == sent = << >> /\ got = << >>

Send == /\ Len(sent') = Len(sent) + 1
        /\ SubSeq(sent', 1, Len(sent)) = sent
        /\ UNCHANGED got

Receive == /\ Len(got) < Len(sent)
           /\ got' = Append(got, sent[Len(got) + 1])
           /\ UNCHANGED sent

Next == Send \/ Receive

Spec == Init /\ [][Next]_vars
=============================================================================
