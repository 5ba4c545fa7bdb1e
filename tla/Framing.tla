-------------------------------- MODULE Framing --------------------------------
(***************************************************************************)
(* Messages as bytes, and sockets that hold a few of them: the framing     *)
(* bridge/main.cpp and bridge/radioserver.cpp share with the engine        *)
(* (readAll, writeAll, writeMsg).  A four-byte number is one byte.         *)
(***************************************************************************)
EXTENDS Integers, Gathering

CONSTANTS
  Base,        \* values of a length byte; 256 in the code
  SockCap      \* bytes a socket holds in one direction

ASSUME FramingAssumption == Base \in Nat /\ Base > 1 /\ SockCap \in Nat \ {0}

kFrame == 1
kTick == 2
kAck == 3
kConsoleIn == 6
kConsoleOut == 7
kRadioStats == 9

Message(kind, payload) == [kind |-> kind, payload |-> payload]

\* The header's length has two bytes, and what does not fit is dropped.
Encode(m) ==
  LET n == Len(m.payload)
  IN << m.kind, (n \div Base) % Base, n % Base >> \o m.payload

\* A reader: the bytes of the message so far and how many readAll() still wants.
Reader == [got |-> << >>, need |-> 3]

\* Mutant of Took: a short read is taken for a whole one.
TookShort(r, bytes) == [got |-> r.got \o bytes, need |-> 0]
Took(r, bytes) == [got |-> r.got \o bytes, need |-> r.need - Len(bytes)]

\* With the header read the payload is asked for, and with that it is whole.
Length(r) == r.got[2] * Base + r.got[3]
AtPayload(r) == r.need = 0 /\ Len(r.got) = 3 /\ Length(r) > 0
Whole(r) == r.need = 0 /\ ~AtPayload(r)
Decoded(r) == Message(r.got[1], SubSeq(r.got, 4, Len(r.got)))

Least(a, b) == IF a < b THEN a ELSE b

\* read() returns any part of what is wanted; a blocking write() puts its bytes
\* into the socket as there is room, and returns when all are in.
Reads(r, sock) == 1..Least(r.need, Len(sock))
Writes(out, sock) == 1..Least(Len(out), SockCap - Len(sock))
First(s, k) == SubSeq(s, 1, k)
Rest(s, k) == SubSeq(s, k + 1, Len(s))

\* What the messages of a kind among ms carry, put together.
Payloads(ms, kind) ==
  LET Of(m) == IF m.kind = kind THEN m.payload ELSE << >>
  IN Gathered(ms, Of)
=============================================================================
