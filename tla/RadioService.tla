----------------------------- MODULE RadioService -----------------------------
(***************************************************************************)
(* What a simulated node's radio promises, whatever carries it out.  To    *)
(* the firmware: a frame accepted for sending goes on the air once, whole  *)
(* and in order, and no second one is accepted until the first is done;    *)
(* every frame the air delivers is heard once, whole and in order.         *)
(***************************************************************************)
EXTENDS Naturals, Sequences

CONSTANT Frames

VARIABLES
  sent,     \* frames the firmware handed its radio
  aired,    \* frames the engine was given to put on the air
  sending,  \* the firmware is waiting for its transmission to end
  fed,      \* frames the engine delivered to this node
  heard     \* frames the firmware collected

vars == <<sent, aired, sending, fed, heard>>

Init == /\ sent = << >> /\ aired = << >> /\ sending = FALSE
        /\ fed = << >> /\ heard = << >>

Send == /\ ~sending
        /\ \E f \in Frames : sent' = Append(sent, f)
        /\ sending' = TRUE
        /\ UNCHANGED <<aired, fed, heard>>

Air == /\ Len(aired) < Len(sent)
       /\ aired' = Append(aired, sent[Len(aired) + 1])
       /\ UNCHANGED <<sent, sending, fed, heard>>

\* The end of a transmission, answered or given up on, never before the frame
\* has gone out.
EndSend == /\ sending /\ Len(aired) = Len(sent)
           /\ sending' = FALSE
           /\ UNCHANGED <<sent, aired, fed, heard>>

Feed == /\ \E f \in Frames : fed' = Append(fed, f)
        /\ UNCHANGED <<sent, aired, sending, heard>>

Hear == /\ Len(heard) < Len(fed)
        /\ heard' = Append(heard, fed[Len(heard) + 1])
        /\ UNCHANGED <<sent, aired, sending, fed>>

Next == Send \/ Air \/ EndSend \/ Feed \/ Hear

Spec == Init /\ [][Next]_vars
=============================================================================
