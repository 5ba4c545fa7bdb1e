-------------------------------- MODULE MeshCore --------------------------------
(***************************************************************************)
(* MeshCore's dispatcher and its RadioLib wrapper (external, not in this   *)
(* repository), one decision at a time: loop() ends a transmission that is *)
(* done, collects a frame, sees to it that the radio listens, and listens  *)
(* before it talks.  A decision leaves in fw.todo the commands RadioLib    *)
(* sends for it; the module that composes this one carries them out.       *)
(***************************************************************************)
EXTENDS RadioLibDriver

CONSTANTS
  OutFrames,  \* frames the firmware may send
  GivesUp,    \* whether the firmware may give up on a transmission
  MaxSent     \* bound: frames the firmware sends

ASSUME MeshCoreAssumption ==
  OutFrames \subseteq Payloads \ {<< >>} /\ GivesUp \in BOOLEAN /\ MaxSent \in Nat

VARIABLES
  fw,   \* where loop() is, the commands to send, the wrapper's state and flag
  hist  \* history: the frames sent, those read (heard) and those of them the
        \* chip had newly received (fresh), and the busy flags up when the
        \* register was last read (up)

MeshCoreInit ==
  /\ fw = [pc |-> "drain", todo |-> << >>, state |-> "idle", ready |-> FALSE,
           len |-> 0, seen |-> {}, rest |-> TRUE]
  /\ hist = [sent |-> << >>, heard |-> << >>, fresh |-> << >>, up |-> {}]

At(pc) == fw.pc = pc /\ fw.todo = << >>

\* Nothing being sent: on to reception.
NotSending == /\ At("top") /\ fw.state # "tx"
              /\ fw' = [fw EXCEPT !.pc = "recv"] /\ UNCHANGED hist

\* isSendComplete(), then onSendFinished(); or the send has taken too long.
SendOver ==
  /\ At("top") /\ fw.state = "tx" /\ (fw.ready \/ GivesUp)
  /\ fw' = [fw EXCEPT !.pc = "recv", !.todo = FinishTransmit,
                      !.state = "idle", !.ready = FALSE, !.rest = TRUE]
  /\ UNCHANGED hist

StillSending == /\ At("top") /\ fw.state = "tx" /\ ~fw.ready
                /\ fw' = [fw EXCEPT !.pc = "drain"] /\ UNCHANGED hist

\* recvRaw().
Collect == /\ At("recv") /\ fw.ready
           /\ fw' = [fw EXCEPT !.pc = "len", !.todo = GetPacketLength]
           /\ UNCHANGED hist
NothingToCollect == /\ At("recv") /\ ~fw.ready
                    /\ fw' = [fw EXCEPT !.pc = "listen"] /\ UNCHANGED hist

ReadPacket == /\ At("len")
              /\ fw' = [fw EXCEPT !.pc = "listen", !.state = "idle", !.ready = FALSE,
                                  !.todo = IF fw.len > 0 THEN ReadData ELSE << >>]
              /\ UNCHANGED hist

\* startRecv() unless it listens already; the state is set when it returns, and
\* setting it drops an interrupt that came meanwhile.
Listen == /\ At("listen")
          /\ fw' = IF fw.state = "rx" /\ ~fw.ready
                   THEN [fw EXCEPT !.pc = "choose"]
                   ELSE [fw EXCEPT !.pc = "started", !.todo = StartReceive]
          /\ UNCHANGED hist
Started == /\ At("started")
           /\ fw' = [fw EXCEPT !.pc = "choose", !.state = "rx", !.ready = FALSE]
           /\ UNCHANGED hist

\* checkSend(): nothing to send, or the pause after the last one; or listen
\* before talk.
NothingToSend == /\ At("choose")
                 /\ fw' = [fw EXCEPT !.pc = "drain", !.rest = FALSE]
                 /\ UNCHANGED hist
ListenFirst == /\ At("choose") /\ ~fw.rest /\ Len(hist.sent) < MaxSent
               /\ fw' = [fw EXCEPT !.pc = "lbt", !.todo = GetIrqFlags]
               /\ UNCHANGED hist

\* isReceiving() looked at the reply; if it saw a flag the send waits.
Decide ==
  /\ At("lbt")
  /\ IF fw.seen # {}
     THEN fw' = [fw EXCEPT !.pc = "drain"] /\ UNCHANGED hist
     ELSE \E f \in OutFrames :
            /\ fw' = [fw EXCEPT !.pc = "sent", !.todo = StartTransmit(f)]
            /\ hist' = [hist EXCEPT !.sent = Append(@, f)]
Sent == /\ At("sent")
        /\ fw' = [fw EXCEPT !.pc = "drain", !.state = "tx", !.ready = FALSE]
        /\ UNCHANGED hist

\* From the decision to send until the transmission's end.
Sending == fw.state = "tx" \/ fw.pc = "sent"

Dispatcher == \/ NotSending \/ SendOver \/ StillSending
              \/ Collect \/ NothingToCollect \/ ReadPacket \/ Listen \/ Started
              \/ NothingToSend \/ ListenFirst \/ Decide \/ Sent
=============================================================================
