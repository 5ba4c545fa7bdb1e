-------------------------------- MODULE SpiPaths --------------------------------
(***************************************************************************)
(* The claim of streaming_test.cpp, over every history of a chip and not   *)
(* only for one just switched on: two chips that live through the same     *)
(* simulation and are sent the same commands, one through the buffer path  *)
(* and one a byte at a time, give the same replies and stay the same chip. *)
(***************************************************************************)
EXTENDS SpiStream

CONSTANTS
  Commands,     \* commands the driver sends
  MaxLength,    \* bound: bytes of a command that is no getter, cut or whole
  Frames,       \* frames the simulator delivers
  MaxMs,        \* bound: the chips' clock
  MaxCommands   \* bound: commands sent

VARIABLES
  buffered, streamed,  \* the two chips
  txn,                 \* the streamed chip's transaction
  call,                \* the command under way, its length and buffered reply
  got,                 \* the streamed reply so far
  count                \* commands sent

vars == <<buffered, streamed, txn, call, got, count>>

Idle == [cmd |-> Cmd("none", 0), len |-> 0, answer |-> << >>, open |-> FALSE]

Init == /\ buffered \in {PowerOn(m) : m \in Modems}
        /\ streamed = buffered
        /\ txn = BeginTransaction(Idle.cmd) /\ call = Idle /\ got = << >> /\ count = 0

\* The simulator calls both chips, between commands.
Simulate(Do(_)) ==
  /\ ~call.open
  /\ buffered' = Do(buffered) /\ streamed' = Do(streamed)
  /\ UNCHANGED <<txn, call, got, count>>

SimTick == /\ buffered.now < MaxMs
           /\ Simulate(LAMBDA c : Tick(c, c.now + 1))
SimFrame == /\ Len(buffered.inbox) = 0
            /\ \E f \in Frames : Simulate(LAMBDA c : QueueFrame(c, f))
SimChannel == \E busy \in BOOLEAN : Simulate(LAMBDA c : SetChannelBusy(c, busy))
SimTxDone == Simulate(TransmitFinished)

\* A getter has the length the driver gives it; any other command may be cut.
Lengths(cmd) == IF DataBytes(cmd.op) = {} THEN 0..MaxLength ELSE {GetterLength(cmd.op)}

\* A command: the buffered chip at once, the streamed one from here on.
Send ==
  /\ ~call.open /\ count < MaxCommands
  /\ count' = count + 1
  /\ \E cmd \in Commands : \E n \in Lengths(cmd) :
       /\ buffered' = Transfer(buffered, cmd, n)
       /\ call' = [cmd |-> cmd, len |-> n, open |-> TRUE,
                   answer |-> TransferReply(Transfer(buffered, cmd, n), cmd, n)]
       /\ txn' = BeginTransaction(cmd)
  /\ got' = << >>
  /\ UNCHANGED streamed

Clock ==
  /\ call.open /\ txn.n < call.len
  /\ txn' = Clocked(txn)
  /\ streamed' = ByteEffect(streamed, Clocked(txn))
  /\ got' = Append(got, ByteReply(streamed', Clocked(txn)))
  /\ UNCHANGED <<buffered, call, count>>

Release ==
  /\ call.open /\ txn.n = call.len
  /\ streamed' = EndTransaction(streamed, txn)
  /\ call' = Idle /\ txn' = BeginTransaction(Idle.cmd) /\ got' = << >>
  /\ UNCHANGED <<buffered, count>>

Next == SimTick \/ SimFrame \/ SimChannel \/ SimTxDone \/ Send \/ Clock \/ Release

Spec == Init /\ [][Next]_vars

-----------------------------------------------------------------------------
\* "The streaming path must answer exactly as the buffer path does"
\* (streaming_test.cpp, line 1): every byte of every reply.
RepliesAgree == call.open /\ txn.n = call.len => got = call.answer

\* The two chips are the same chip whenever no command is under way, though the
\* streamed one saw the getters at every byte and the others at the end.
ChipsAgree == ~call.open => streamed = buffered

\* A command is "acted on once at the end" (VirtualSX1262.h, lines 164-171): the
\* bytes before that change nothing, so a command abandoned or cut by another
\* actor's turn is never half done.
ActsAtRelease == [][call.open /\ streamed' # streamed => txn.n = call.len]_vars
=============================================================================
