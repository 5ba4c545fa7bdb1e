------------------------------- MODULE WireProofs -------------------------------
(***************************************************************************)
(* The sockets of the radio server and of the native node: that bytes cut  *)
(* anywhere are the messages that were sent, that requests and answers, and*)
(* ticks and their acknowledgements, never get out of step, and that the   *)
(* acknowledgement comes last, for every base, socket size, set of messages*)
(* and of tags.                                                            *)
(***************************************************************************)
EXTENDS ServerWire, BridgeWire, SequenceLemmas, TLAPS

\* Messages whose length fits the header.
Messages ==
  {m \in [kind : Nat, payload : Seq(Nat)] : Len(m.payload) < Base * Base}

Readers == [got : Seq(Nat), need : Nat]

-----------------------------------------------------------------------------
\* One direction of a socket, as a layout of everything that was ever sent: where in
\* the bytes T the encoding of each message begins.

Size(m) == 3 + Len(m.payload)

Layout(T, cut, sent) ==
  /\ cut[0] = 0 /\ cut[Len(sent)] = Len(T)
  /\ \A j \in 1..Len(sent) :
       /\ cut[j] <= Len(T) /\ cut[j] = cut[j - 1] + Size(sent[j])
       /\ \A i \in 1..Size(sent[j]) : T[cut[j - 1] + i] = Encode(sent[j])[i]

\* What has been taken of the message being read, what is in the socket, and what the
\* writer still holds.
Stream(r, sock, out) == r.got \o (sock \o out)

\* The stream is what comes in T after the messages that were got; if the writer has
\* hung up (c), the end of it may be missing.
At_(T, from, c, s) ==
  /\ from + Len(s) <= Len(T)
  /\ c \/ from + Len(s) = Len(T)
  /\ \A i \in 1..Len(s) : s[i] = T[from + i]

\* The reader is within a header, or within the payload the header announced.
Partial(r) ==
  \/ Len(r.got) <= 3 /\ r.need + Len(r.got) = 3
  \/ Len(r.got) >= 3 /\ Length(r) > 0 /\ r.need + Len(r.got) = 3 + Length(r)

Flow(sent, got, r, sock, out, c) ==
  /\ Len(got) <= Len(sent) /\ Partial(r)
  /\ \E T \in Seq(Nat) : \E cut \in [0..Len(sent) -> Nat] :
       Layout(T, cut, sent) /\ At_(T, cut[Len(got)], c, Stream(r, sock, out))

\* A number as two digits.
LEMMA TwoDigits ==
  ASSUME NEW n \in Nat, NEW b \in Nat, b > 1, n < b * b
  PROVE  /\ n \div b \in 0..(b - 1) /\ n % b \in 0..(b - 1)
         /\ (n \div b) * b + (n % b) = n /\ (n \div b) % b = n \div b
PROOF
<1>1. n \div b \in Nat /\ n % b \in 0..(b - 1)
  OBVIOUS
<1>2. n % b = n - b * (n \div b)
  OBVIOUS
<1>3. ASSUME NEW q \in Nat, NEW r \in 0..(b - 1), r = n - b * q
      PROVE  q < b /\ q * b + r = n
  BY <1>3
<1>4. n \div b < b /\ (n \div b) * b + (n % b) = n
  <2>. DEFINE q == n \div b
              r == n % b
  <2>1. q \in Nat /\ r \in 0..(b - 1) /\ r = n - b * q
    BY <1>1, <1>2
  <2>. HIDE DEF q, r
  <2>2. q < b /\ q * b + r = n
    BY <1>3, <2>1
  <2>. QED  BY <2>2 DEF q, r
<1>5. \A q \in 0..(b - 1) : q % b = q
  OBVIOUS
<1>. QED  BY <1>1, <1>4, <1>5

\* The bytes of two sequences put together, the first of length n.
LEMMA Joined ==
  ASSUME NEW s \in Seq(Nat), NEW t \in Seq(Nat), NEW n \in Nat, Len(s) = n
  PROVE  /\ s \o t \in Seq(Nat) /\ Len(s \o t) = n + Len(t)
         /\ \A i \in 1..n : (s \o t)[i] = s[i]
         /\ \A i \in 1..Len(t) : (s \o t)[n + i] = t[i]
PROOF
<1>1. Len(t) \in Nat
  OBVIOUS
<1>2. /\ s \o t \in Seq(Nat) /\ Len(s \o t) = n + Len(t)
      /\ \A i \in 1..(n + Len(t)) : (s \o t)[i] = IF i <= n THEN s[i] ELSE t[i - n]
  BY ConcatProperties
<1>3. \A i \in 1..n : (s \o t)[i] = s[i]
  BY <1>1, <1>2
<1>4. ASSUME NEW i \in 1..Len(t)
      PROVE  (s \o t)[n + i] = t[i]
  <2>1. n + i \in 1..(n + Len(t)) /\ ~(n + i <= n) /\ n + i - n = i
    BY <1>1
  <2>. QED  BY <1>2, <2>1
<1>. QED  BY <1>2, <1>3, <1>4

\* What is taken of some bytes and what is left make them up.
LEMMA Cut ==
  ASSUME NEW A, NEW s \in Seq(A), NEW k \in Nat, k <= Len(s)
  PROVE  /\ First(s, k) \in Seq(A) /\ Rest(s, k) \in Seq(A)
         /\ Len(First(s, k)) = k /\ First(s, k) \o Rest(s, k) = s
PROOF
<1>1. /\ SubSeq(s, 1, k) \in Seq(A) /\ SubSeq(s, k + 1, Len(s)) \in Seq(A)
      /\ Len(SubSeq(s, 1, k)) = k
  OBVIOUS
<1>2. SubSeq(s, 1, k) \o SubSeq(s, k + 1, Len(s)) = SubSeq(s, 1, Len(s))
  <2>1. 1 \in 1..(Len(s) + 1) /\ k \in (1 - 1)..Len(s) /\ Len(s) \in k..Len(s)
    OBVIOUS
  <2>. QED  BY <2>1, ConcatAdjacentSubSeq
<1>3. SubSeq(s, 1, Len(s)) = s
  BY SubSeqFull
<1>. QED  BY <1>1, <1>2, <1>3 DEF First, Rest

\* The bytes of a message: its header's three and its payload's.
LEMMA EncodeBytes ==
  ASSUME NEW m \in Messages
  PROVE  /\ Encode(m) \in Seq(Nat) /\ Len(Encode(m)) = Size(m)
         /\ Encode(m)[1] = m.kind
         /\ Encode(m)[2] * Base + Encode(m)[3] = Len(m.payload)
         /\ \A i \in 1..Len(m.payload) : Encode(m)[3 + i] = m.payload[i]
PROOF
<1>. DEFINE n == Len(m.payload)
            hi == (n \div Base) % Base
            lo == n % Base
            h == << m.kind, hi, lo >>
<1>1. m.payload \in Seq(Nat) /\ m.kind \in Nat /\ n \in Nat /\ n < Base * Base
  BY DEF Messages
<1>2. hi \in Nat /\ lo \in Nat /\ hi * Base + lo = n
  <2>1. Base \in Nat /\ Base > 1
    BY FramingAssumption
  <2>2. ASSUME NEW k \in Nat, k < Base * Base
        PROVE  (k \div Base) % Base \in Nat /\ k % Base \in Nat
                 /\ ((k \div Base) % Base) * Base + (k % Base) = k
    <3>1. k \div Base \in 0..(Base - 1) /\ k % Base \in 0..(Base - 1)
            /\ (k \div Base) * Base + (k % Base) = k /\ (k \div Base) % Base = k \div Base
      BY <2>1, <2>2, TwoDigits
    <3>. QED  BY <2>1, <3>1
  <2>. QED  BY <1>1, <2>2
<1>3. Encode(m) = h \o m.payload
  BY DEF Encode
<1>. HIDE DEF n, hi, lo
<1>4. h \in Seq(Nat) /\ Len(h) = 3 /\ h[1] = m.kind /\ h[2] = hi /\ h[3] = lo
  BY <1>1, <1>2
<1>. HIDE DEF h
<1>5. /\ Encode(m) \in Seq(Nat) /\ Len(Encode(m)) = 3 + Len(m.payload)
      /\ \A i \in 1..3 : Encode(m)[i] = h[i]
      /\ \A i \in 1..Len(m.payload) : Encode(m)[3 + i] = m.payload[i]
  <2>1. /\ h \o m.payload \in Seq(Nat) /\ Len(h \o m.payload) = 3 + Len(m.payload)
        /\ \A i \in 1..3 : (h \o m.payload)[i] = h[i]
        /\ \A i \in 1..Len(m.payload) : (h \o m.payload)[3 + i] = m.payload[i]
    <3>. DEFINE p == m.payload
    <3>1. p \in Seq(Nat)
      BY <1>1
    <3>. HIDE DEF p
    <3>2. \A k \in Nat : Len(h) = k =>
            /\ h \o p \in Seq(Nat) /\ Len(h \o p) = k + Len(p)
            /\ \A i \in 1..k : (h \o p)[i] = h[i]
            /\ \A i \in 1..Len(p) : (h \o p)[k + i] = p[i]
      BY <1>4, <3>1, Joined
    <3>. QED  BY <1>4, <3>2 DEF p
  <2>. QED  BY <1>3, <2>1
<1>6. Encode(m)[1] = h[1] /\ Encode(m)[2] = h[2] /\ Encode(m)[3] = h[3]
  BY <1>5
<1>. QED  BY <1>2, <1>4, <1>5, <1>6 DEF Size, n

\* What a stream is made of is a sequence of bytes.
LEMMA StreamType ==
  ASSUME NEW r \in Readers, NEW sock \in Seq(Nat), NEW out \in Seq(Nat)
  PROVE  /\ Stream(r, sock, out) \in Seq(Nat)
         /\ Len(Stream(r, sock, out)) = Len(r.got) + (Len(sock) + Len(out))
         /\ \A i \in 1..Len(r.got) : Stream(r, sock, out)[i] = r.got[i]
PROOF
<1>1. r.got \in Seq(Nat) /\ sock \o out \in Seq(Nat) /\ Len(sock \o out) = Len(sock) + Len(out)
  BY DEF Readers
<1>2. Len(r.got) \in Nat /\ Len(sock) \in Nat /\ Len(out) \in Nat
  BY <1>1
<1>. DEFINE rest == sock \o out
<1>3. Stream(r, sock, out) = r.got \o rest
  BY DEF Stream
<1>. HIDE DEF rest
<1>4. /\ r.got \o rest \in Seq(Nat) /\ Len(r.got \o rest) = Len(r.got) + Len(rest)
      /\ \A i \in 1..Len(r.got) : (r.got \o rest)[i] = r.got[i]
  <2>1. r.got \in Seq(Nat) /\ rest \in Seq(Nat)
    BY <1>1 DEF rest
  <2>. QED  BY <1>2, <2>1, Joined
<1>5. Len(rest) = Len(sock) + Len(out)
  BY <1>1 DEF rest
<1>. QED  BY <1>3, <1>4, <1>5

\* A socket begins with nothing in it.
LEMMA FlowStart == Flow(<< >>, << >>, Reader, << >>, << >>, FALSE)
PROOF
<1>. DEFINE cut == [j \in 0..0 |-> 0]
<1>1. cut \in [0..0 -> Nat] /\ << >> \in Seq(Nat) /\ Len(<< >>) = 0
  OBVIOUS
<1>2. Layout(<< >>, cut, << >>)
  BY DEF Layout
<1>3. Stream(Reader, << >>, << >>) = << >>
  BY DEF Stream, Reader
<1>4. At_(<< >>, cut[Len(<< >>)], FALSE, Stream(Reader, << >>, << >>))
  BY <1>3 DEF At_
<1>5. Partial(Reader)
  BY DEF Partial, Reader
<1>. HIDE DEF cut
<1>. QED  BY <1>1, <1>2, <1>4, <1>5 DEF Flow

\* Writing and reading any part moves bytes along the stream and changes none.
LEMMA FlowMove ==
  ASSUME NEW sent, NEW got, NEW c, NEW r, NEW sock, NEW out, NEW r2, NEW sock2, NEW out2,
         Flow(sent, got, r, sock, out, c), Partial(r2),
         Stream(r2, sock2, out2) = Stream(r, sock, out)
  PROVE  Flow(sent, got, r2, sock2, out2, c)
  BY DEF Flow

\* The bytes the writer holds are the end of the stream.
LEMMA StreamEnds ==
  ASSUME NEW r \in Readers, NEW sock \in Seq(Nat), NEW out \in Seq(Nat)
  PROVE  /\ Stream(r, sock, << >>) \in Seq(Nat)
         /\ Stream(r, sock, out) = Stream(r, sock, << >>) \o out
PROOF
<1>1. ASSUME NEW g \in Seq(Nat)
      PROVE  g \o (sock \o << >>) \in Seq(Nat) /\ g \o (sock \o out) = (g \o (sock \o << >>)) \o out
  <2>1. sock \o << >> = sock
    OBVIOUS
  <2>2. g \o sock \in Seq(Nat)
    OBVIOUS
  <2>3. g \o (sock \o out) = (g \o sock) \o out
    OBVIOUS
  <2>. QED  BY <2>1, <2>2, <2>3
<1>2. r.got \in Seq(Nat)
  BY DEF Readers
<1>. QED  BY <1>1, <1>2 DEF Stream

\* What the writer holds when it hangs up is lost, and nothing else.
LEMMA FlowCut ==
  ASSUME NEW sent, NEW got, NEW c \in BOOLEAN, NEW r \in Readers, NEW sock \in Seq(Nat), NEW out \in Seq(Nat),
         sent \in Seq(Messages), got \in Seq(Messages),
         Flow(sent, got, r, sock, out, c)
  PROVE  Flow(sent, got, r, sock, << >>, TRUE)
PROOF
<1>1. PICK T \in Seq(Nat) : \E cut \in [0..Len(sent) -> Nat] :
        Layout(T, cut, sent) /\ At_(T, cut[Len(got)], c, Stream(r, sock, out))
  BY DEF Flow
<1>2. PICK cut \in [0..Len(sent) -> Nat] :
        Layout(T, cut, sent) /\ At_(T, cut[Len(got)], c, Stream(r, sock, out))
  BY <1>1
<1>. DEFINE s == Stream(r, sock, out)
            t == Stream(r, sock, << >>)
<1>3. s = t \o out /\ t \in Seq(Nat)
  BY StreamEnds
<1>. HIDE DEF s, t
<1>4. /\ Len(s) = Len(t) + Len(out) /\ Len(t) \in Nat /\ Len(out) \in Nat
      /\ \A i \in 1..Len(t) : s[i] = t[i]
  BY <1>3, ConcatProperties
<1>5. cut[Len(got)] \in Nat /\ Len(T) \in Nat
  BY DEF Flow
<1>6. At_(T, cut[Len(got)], TRUE, t)
  <2>. DEFINE from == cut[Len(got)]
  <2>1. from \in Nat /\ At_(T, from, c, s)
    BY <1>2, <1>5 DEF s
  <2>. HIDE DEF from
  <2>2. At_(T, from, TRUE, t)
    <3>1. from + Len(s) <= Len(T) /\ \A i \in 1..Len(s) : s[i] = T[from + i]
      BY <2>1 DEF At_
    <3>2. Len(s) \in Nat /\ Len(t) <= Len(s) /\ \A i \in 1..Len(t) : i \in 1..Len(s)
      BY <1>4
    <3>3. from + Len(t) <= Len(T)
      BY <1>4, <1>5, <2>1, <3>1, <3>2
    <3>4. \A i \in 1..Len(t) : t[i] = T[from + i]
      BY <1>4, <3>1, <3>2
    <3>. QED  BY <3>3, <3>4 DEF At_
  <2>. QED  BY <2>2 DEF from
<1>. QED  BY <1>2, <1>6 DEF Flow, t

\* A reader that takes what the socket has is still within the same header or payload.
LEMMA FlowRead ==
  ASSUME NEW sent, NEW got, NEW c, NEW r \in Readers, NEW sock \in Seq(Nat),
         NEW out \in Seq(Nat), NEW k \in Reads(r, sock), Flow(sent, got, r, sock, out, c)
  PROVE  /\ Took(r, First(sock, k)) \in Readers /\ Rest(sock, k) \in Seq(Nat)
         /\ Flow(sent, got, Took(r, First(sock, k)), Rest(sock, k), out, c)
PROOF
<1>. DEFINE a == First(sock, k)
            b == Rest(sock, k)
            r2 == Took(r, a)
<1>1. r.got \in Seq(Nat) /\ r.need \in Nat /\ k \in Nat /\ k <= r.need /\ k <= Len(sock)
  BY DEF Readers, Reads, Least
<1>2. a \in Seq(Nat) /\ b \in Seq(Nat) /\ Len(a) = k /\ a \o b = sock
  BY <1>1, Cut
<1>3. r2.got = r.got \o a /\ r2.need = r.need - k /\ r2 \in Readers
  <2>1. r2 = [got |-> r.got \o a, need |-> r.need - Len(a)]
    BY DEF Took
  <2>. HIDE DEF a, r2
  <2>2. r.got \o a \in Seq(Nat) /\ r.need - Len(a) \in Nat
    BY <1>1, <1>2
  <2>. QED  BY <1>2, <2>1, <2>2 DEF Readers
<1>. HIDE DEF a, b, r2
<1>4. Stream(r2, b, out) = Stream(r, sock, out)
  <2>1. ASSUME NEW g \in Seq(Nat)
        PROVE  (g \o a) \o (b \o out) = g \o (sock \o out)
    <3>1. g \in Seq(Nat) /\ a \in Seq(Nat) /\ b \in Seq(Nat) /\ out \in Seq(Nat)
            /\ b \o out \in Seq(Nat)
      BY <1>2
    <3>2. (g \o a) \o (b \o out) = g \o (a \o (b \o out))
      BY ONLY <3>1, SMTT(60)
    <3>3. (a \o b) \o out = a \o (b \o out)
      BY ONLY <3>1, SMTT(60)
    <3>. QED  BY <1>2, <3>2, <3>3
  <2>. QED  BY <1>1, <1>3, <2>1 DEF Stream
<1>5. Partial(r2)
  <2>1. Len(r2.got) = Len(r.got) + k /\ \A i \in 1..Len(r.got) : r2.got[i] = r.got[i]
    <3>1. ASSUME NEW g \in Seq(Nat)
          PROVE  Len(g \o a) = Len(g) + k /\ \A i \in 1..Len(g) : (g \o a)[i] = g[i]
      <4>1. Len(g) \in Nat
        OBVIOUS
      <4>. QED  BY <1>2, <4>1, Joined
    <3>. QED  BY <1>1, <1>3, <3>1
  <2>2. Partial(r)
    BY DEF Flow
  <2>3. CASE Len(r.got) <= 3 /\ r.need + Len(r.got) = 3
    <3>1. Len(r2.got) <= 3 /\ r2.need + Len(r2.got) = 3
      BY <1>1, <1>3, <2>1, <2>3
    <3>. QED  BY <3>1 DEF Partial
  <2>4. CASE Len(r.got) >= 3 /\ Length(r) > 0 /\ r.need + Len(r.got) = 3 + Length(r)
    <3>1. r2.got[2] = r.got[2] /\ r2.got[3] = r.got[3]
      BY <1>1, <2>1, <2>4
    <3>2. Length(r2) = Length(r)
      BY <3>1 DEF Length
    <3>3. Len(r2.got) >= 3 /\ r2.need + Len(r2.got) = r.need + Len(r.got)
      <4>. DEFINE a1 == Len(r.got)
                  b1 == Len(r2.got)
                  n1 == r.need
      <4>1. a1 \in Nat /\ n1 \in Nat /\ k <= n1 /\ a1 >= 3 /\ b1 = a1 + k /\ r2.need = n1 - k
        BY <1>1, <1>3, <2>1, <2>4
      <4>. HIDE DEF a1, b1, n1
      <4>2. b1 >= 3 /\ (n1 - k) + b1 = n1 + a1
        BY ONLY <1>1, <4>1
      <4>. QED  BY <4>1, <4>2 DEF a1, b1, n1
    <3>. QED  BY <2>4, <3>2, <3>3 DEF Partial
  <2>. QED  BY <2>2, <2>3, <2>4 DEF Partial
<1>. QED  BY <1>2, <1>3, <1>4, <1>5, FlowMove DEF a, b, r2

\* A writer puts the next of what it holds into the socket.
LEMMA FlowWrite ==
  ASSUME NEW sent, NEW got, NEW c, NEW r \in Readers, NEW sock \in Seq(Nat),
         NEW out \in Seq(Nat), NEW k \in Writes(out, sock), Flow(sent, got, r, sock, out, c)
  PROVE  /\ sock \o First(out, k) \in Seq(Nat) /\ Rest(out, k) \in Seq(Nat)
         /\ Flow(sent, got, r, sock \o First(out, k), Rest(out, k), c)
PROOF
<1>. DEFINE a == First(out, k)
            b == Rest(out, k)
<1>1. k \in Nat /\ k <= Len(out)
  BY FramingAssumption DEF Writes, Least
<1>2. a \in Seq(Nat) /\ b \in Seq(Nat) /\ Len(a) = k /\ a \o b = out
  BY <1>1, Cut
<1>. HIDE DEF a, b
<1>3. (sock \o a) \o b = sock \o out /\ sock \o a \in Seq(Nat)
  <2>1. sock \in Seq(Nat) /\ a \in Seq(Nat) /\ b \in Seq(Nat)
    BY <1>2
  <2>2. (sock \o a) \o b = sock \o (a \o b)
    BY ONLY <2>1, SMTT(60)
  <2>. QED  BY <1>2, <2>2
<1>4. Stream(r, sock \o a, b) = Stream(r, sock, out)
  BY <1>3 DEF Stream
<1>5. Partial(r)
  BY DEF Flow
<1>. QED  BY <1>2, <1>3, <1>4, <1>5, FlowMove DEF a, b

\* With the header whole, the payload it announces is asked for.
LEMMA FlowAsks ==
  ASSUME NEW sent, NEW got, NEW c, NEW r \in Readers, NEW sock, NEW out,
         Flow(sent, got, r, sock, out, c), AtPayload(r)
  PROVE  /\ [r EXCEPT !.need = Length(r)] \in Readers
         /\ Flow(sent, got, [r EXCEPT !.need = Length(r)], sock, out, c)
PROOF
<1>. DEFINE r2 == [r EXCEPT !.need = Length(r)]
<1>1. r.got \in Seq(Nat) /\ r2.got = r.got /\ r2.need = Length(r)
  BY DEF Readers
<1>2. Len(r.got) = 3 /\ Length(r) > 0
  BY DEF AtPayload
<1>3. Length(r) \in Nat /\ Length(r2) = Length(r)
  <2>1. \A i \in 1..Len(r.got) : r.got[i] \in Nat
    BY <1>1
  <2>2. r.got[2] \in Nat /\ r.got[3] \in Nat
    BY <1>2, <2>1
  <2>3. \A x, y \in Nat : x * Base + y \in Nat
    BY FramingAssumption
  <2>4. Length(r2) = Length(r)
    BY <1>1 DEF Length
  <2>. QED  BY <2>2, <2>3, <2>4 DEF Length
<1>4. r2 \in Readers
  BY <1>1, <1>3 DEF Readers
<1>. HIDE DEF r2
<1>5. Partial(r2)
  BY <1>1, <1>2, <1>3 DEF Partial
<1>6. Stream(r2, sock, out) = Stream(r, sock, out)
  BY <1>1 DEF Stream
<1>. QED  BY <1>4, <1>5, <1>6, FlowMove DEF r2

\* What is written next goes at the end of the stream.
LEMMA FlowSend ==
  ASSUME NEW sent \in Seq(Messages), NEW got \in Seq(Messages), NEW m \in Messages,
         NEW r \in Readers, NEW sock \in Seq(Nat), Flow(sent, got, r, sock, << >>, FALSE)
  PROVE  Flow(Append(sent, m), got, r, sock, Encode(m), FALSE)
PROOF
<1>1. PICK T \in Seq(Nat) : \E cut \in [0..Len(sent) -> Nat] :
        Layout(T, cut, sent) /\ At_(T, cut[Len(got)], FALSE, Stream(r, sock, << >>))
  BY DEF Flow
<1>2. PICK cut \in [0..Len(sent) -> Nat] :
        Layout(T, cut, sent) /\ At_(T, cut[Len(got)], FALSE, Stream(r, sock, << >>))
  BY <1>1
<1>. DEFINE n == Len(sent)
            e == Encode(m)
            U == T \o e
            cut2 == [j \in 0..(n + 1) |-> IF j <= n THEN cut[j] ELSE Len(T) + Size(m)]
            s == Stream(r, sock, << >>)
            t == Stream(r, sock, e)
            sent2 == Append(sent, m)
<1>3. e \in Seq(Nat) /\ Len(e) = Size(m) /\ Size(m) \in Nat /\ n \in Nat /\ Len(T) \in Nat
        /\ Len(got) \in Nat
  <2>1. Len(m.payload) \in Nat
    BY DEF Messages
  <2>2. e \in Seq(Nat) /\ Len(e) = Size(m) /\ Size(m) \in Nat
    BY <2>1, EncodeBytes DEF Size
  <2>. QED  BY <2>2
<1>4. s \in Seq(Nat) /\ t = s \o e
  BY <1>3, StreamEnds
<1>5. /\ U \in Seq(Nat) /\ Len(U) = Len(T) + Size(m)
      /\ \A i \in 1..Len(T) : U[i] = T[i]
      /\ \A i \in 1..Size(m) : U[Len(T) + i] = e[i]
  BY <1>3, Joined
<1>6. Len(got) <= n /\ Partial(r)
  BY DEF Flow
<1>7. sent2 \in Seq(Messages) /\ Len(sent2) = n + 1 /\ sent2[n + 1] = m
        /\ \A j \in 1..n : sent2[j] = sent[j]
  BY <1>3
<1>8. cut2 \in [0..(n + 1) -> Nat] /\ cut2[n + 1] = Len(T) + Size(m)
        /\ \A j \in 0..n : cut2[j] = cut[j] /\ cut[j] \in Nat
  <2>1. Len(T) + Size(m) \in Nat
    BY <1>3
  <2>2. 0..n \subseteq 0..(n + 1) /\ n + 1 \in 0..(n + 1) /\ ~(n + 1 <= n)
    BY <1>3
  <2>3. \A j \in 0..(n + 1) : j <= n <=> j \in 0..n
    BY <1>3
  <2>. HIDE DEF n
  <2>. QED  BY <2>1, <2>2, <2>3 DEF n
<1>. HIDE DEF e, U, cut2, s, t, sent2
<1>9. Layout(U, cut2, sent2)
  <2>1. cut[0] = 0 /\ cut[n] = Len(T)
    BY <1>2 DEF Layout
  <2>2. ASSUME NEW j \in 1..n
        PROVE  /\ cut2[j] <= Len(U) /\ cut2[j] = cut2[j - 1] + Size(sent2[j])
               /\ \A i \in 1..Size(sent2[j]) : U[cut2[j - 1] + i] = Encode(sent2[j])[i]
    <3>1. /\ cut[j] <= Len(T) /\ cut[j] = cut[j - 1] + Size(sent[j])
          /\ \A i \in 1..Size(sent[j]) : T[cut[j - 1] + i] = Encode(sent[j])[i]
      BY <1>2 DEF Layout
    <3>2. cut2[j] = cut[j] /\ cut2[j - 1] = cut[j - 1] /\ sent2[j] = sent[j]
            /\ cut[j] \in Nat /\ cut[j - 1] \in Nat
      BY <1>3, <1>7, <1>8
    <3>3. Size(sent[j]) \in Nat
      BY DEF Size, Messages
    <3>4. cut[j] <= Len(U)
      BY <1>3, <1>5, <3>1, <3>2
    <3>5. ASSUME NEW i \in 1..Size(sent[j])
          PROVE  U[cut[j - 1] + i] = Encode(sent[j])[i]
      <4>. DEFINE a == cut[j - 1]
                  b == cut[j]
                  z == Size(sent[j])
                  h == Len(T)
      <4>1. a \in Nat /\ b = a + z /\ z \in Nat /\ h \in Nat /\ b <= h /\ i \in 1..z
        BY <1>3, <3>1, <3>2, <3>3
      <4>. HIDE DEF a, b, z, h
      <4>2. a + i \in 1..h
        BY <4>1
      <4>. QED  BY <1>5, <3>1, <4>2 DEF a, h
    <3>. QED  BY <3>1, <3>2, <3>4, <3>5
  <2>3. /\ cut2[n + 1] <= Len(U) /\ cut2[n + 1] = cut2[n] + Size(sent2[n + 1])
        /\ \A i \in 1..Size(sent2[n + 1]) : U[cut2[n] + i] = Encode(sent2[n + 1])[i]
    <3>1. n \in 0..n /\ cut2[n] = Len(T)
      <4>1. n \in 0..n
        BY <1>3
      <4>. QED  BY <1>8, <2>1, <4>1
    <3>. QED  BY <1>3, <1>5, <1>7, <1>8, <3>1 DEF e
  <2>4. ASSUME NEW j \in 1..(n + 1)
        PROVE  /\ cut2[j] <= Len(U) /\ cut2[j] = cut2[j - 1] + Size(sent2[j])
               /\ \A i \in 1..Size(sent2[j]) : U[cut2[j - 1] + i] = Encode(sent2[j])[i]
    <3>1. CASE j \in 1..n
      BY <2>2, <3>1
    <3>2. CASE j = n + 1
      <4>1. j - 1 = n
        BY <1>3, <3>2
      <4>. QED  BY <2>3, <3>2, <4>1
    <3>3. j \in 1..n \/ j = n + 1
      <4>1. n \in Nat
        BY <1>3
      <4>. HIDE DEF n
      <4>. QED  BY <4>1
    <3>. QED  BY <3>1, <3>2, <3>3
  <2>5. cut2[0] = 0 /\ cut2[n + 1] = Len(U)
    <3>1. 0 \in 0..n
      BY <1>3
    <3>2. cut2[0] = 0
      BY <1>8, <2>1, <3>1
    <3>3. cut2[n + 1] = Len(T) + Size(m) /\ Len(U) = Len(T) + Size(m)
      BY <1>5, <1>8
    <3>. QED  BY <3>2, <3>3
  <2>. QED  BY <1>7, <2>4, <2>5 DEF Layout
<1>10. At_(U, cut2[Len(got)], FALSE, t)
  <2>. DEFINE from == cut[Len(got)]
  <2>1. from \in Nat /\ cut2[Len(got)] = from
    BY <1>3, <1>6, <1>8
  <2>2. from + Len(s) = Len(T) /\ \A i \in 1..Len(s) : s[i] = T[from + i]
    BY <1>2 DEF At_, s
  <2>. HIDE DEF from
  <2>3. Len(s) \in Nat /\ Len(t) = Len(s) + Size(m)
          /\ (\A i \in 1..Len(s) : t[i] = s[i]) /\ \A i \in 1..Size(m) : t[Len(s) + i] = e[i]
    <3>1. Len(s) \in Nat
      BY <1>4
    <3>. QED  BY <1>3, <1>4, <3>1, Joined
  <2>4. from + Len(t) = Len(U)
    <3>. DEFINE a == Len(s)
                b == Size(m)
                h == Len(T)
    <3>1. a \in Nat /\ b \in Nat /\ h \in Nat /\ from + a = h /\ Len(t) = a + b /\ Len(U) = h + b
      BY <1>3, <1>5, <2>2, <2>3
    <3>. HIDE DEF a, b, h
    <3>. QED  BY <2>1, <3>1
  <2>5. ASSUME NEW i \in 1..Len(t)
        PROVE  t[i] = U[from + i]
    <3>1. CASE i <= Len(s)
      <4>1. i \in 1..Len(s) /\ from + i \in 1..Len(T)
        <5>. DEFINE a == Len(s)
                    b == Size(m)
                    h == Len(T)
        <5>1. a \in Nat /\ b \in Nat /\ h \in Nat /\ from + a = h /\ i \in 1..(a + b) /\ i <= a
          BY <1>3, <2>2, <2>3, <3>1
        <5>. HIDE DEF a, b, h
        <5>2. i \in 1..a /\ from + i \in 1..h
          BY <2>1, <5>1
        <5>. QED  BY <5>2 DEF a, b, h
      <4>. QED  BY <1>5, <2>2, <2>3, <4>1
    <3>2. CASE i > Len(s)
      <4>. DEFINE k == i - Len(s)
      <4>1. k \in 1..Size(m) /\ i = Len(s) + k /\ from + i = Len(T) + k
        <5>. DEFINE a == Len(s)
                    b == Size(m)
                    h == Len(T)
        <5>1. a \in Nat /\ b \in Nat /\ h \in Nat /\ from + a = h /\ i \in 1..(a + b) /\ i > a
          BY <1>3, <2>2, <2>3, <3>2
        <5>. HIDE DEF a, b, h
        <5>2. i - a \in 1..b /\ i = a + (i - a) /\ from + i = h + (i - a)
          BY <2>1, <5>1
        <5>. QED  BY <5>2 DEF a, b, h
      <4>. HIDE DEF k
      <4>. QED  BY <1>5, <2>3, <4>1
    <3>. QED  BY <2>3, <3>1, <3>2
  <2>. QED  BY <2>1, <2>4, <2>5, <1>3, <1>5 DEF At_
<1>11. Len(got) <= Len(sent2)
  BY <1>3, <1>6, <1>7
<1>. QED
  <2>1. cut2 \in [0..Len(sent2) -> Nat]
    BY <1>7, <1>8
  <2>. QED  BY <1>5, <1>6, <1>9, <1>10, <1>11, <2>1 DEF Flow, t, e, sent2

\* What a reader has when it is whole: a header and the payload it announces.
LEMMA WholeLength ==
  ASSUME NEW r \in Readers, Partial(r), Whole(r)
  PROVE  Length(r) \in Nat /\ Len(r.got) = 3 + Length(r)
PROOF
<1>1. r.got \in Seq(Nat) /\ r.need = 0 /\ ~AtPayload(r)
  BY DEF Readers, Whole
<1>2. Len(r.got) \in Nat /\ Len(r.got) >= 3
  <2>. DEFINE z == Len(r.got)
  <2>1. z \in Nat /\ ((z <= 3 /\ r.need + z = 3) \/ z >= 3)
    BY <1>1 DEF Partial
  <2>. HIDE DEF z
  <2>2. z >= 3
    BY <1>1, <2>1
  <2>. QED  BY <2>1, <2>2 DEF z
<1>3. Length(r) \in Nat
  <2>1. r.got[2] \in Nat /\ r.got[3] \in Nat
    BY <1>1, <1>2
  <2>2. \A x, y \in Nat : x * Base + y \in Nat
    BY FramingAssumption
  <2>. QED  BY <2>1, <2>2 DEF Length
<1>. QED  BY <1>1, <1>2, <1>3 DEF Partial, AtPayload

\* A whole message is the next of those that were sent.
LEMMA FlowDecode ==
  ASSUME NEW sent \in Seq(Messages), NEW got \in Seq(Messages), NEW c, NEW r \in Readers,
         NEW sock \in Seq(Nat), NEW out \in Seq(Nat), Flow(sent, got, r, sock, out, c), Whole(r)
  PROVE  /\ Len(got) < Len(sent) /\ Decoded(r) = sent[Len(got) + 1] /\ Decoded(r) \in Messages
         /\ Flow(sent, Append(got, Decoded(r)), Reader, sock, out, c)
PROOF
<1>1. PICK T \in Seq(Nat) : \E cut \in [0..Len(sent) -> Nat] :
        Layout(T, cut, sent) /\ At_(T, cut[Len(got)], c, Stream(r, sock, out))
  BY DEF Flow
<1>2. PICK cut \in [0..Len(sent) -> Nat] :
        Layout(T, cut, sent) /\ At_(T, cut[Len(got)], c, Stream(r, sock, out))
  BY <1>1
<1>. DEFINE k == Len(got)
            from == cut[k]
            z == Len(r.got)
            rest == sock \o out
            s == Stream(r, sock, out)
            m == sent[k + 1]
<1>3. Partial(r) /\ k <= Len(sent) /\ k \in Nat /\ Len(sent) \in Nat
  BY DEF Flow
<1>4. Length(r) \in Nat /\ z = 3 + Length(r) /\ z \in Nat /\ r.got \in Seq(Nat)
  <2>1. r.got \in Seq(Nat)
    BY DEF Readers
  <2>2. Length(r) \in Nat /\ z = 3 + Length(r)
    BY <1>3, WholeLength
  <2>. QED  BY <2>1, <2>2
<1>5. /\ rest \in Seq(Nat) /\ Len(rest) \in Nat /\ Len(s) = z + Len(rest)
      /\ \A i \in 1..z : s[i] = r.got[i]
      /\ \A i \in 1..Len(rest) : s[z + i] = rest[i]
  <2>1. rest \in Seq(Nat) /\ Len(rest) \in Nat
    OBVIOUS
  <2>2. s = r.got \o rest
    BY DEF Stream
  <2>. HIDE DEF rest, s
  <2>3. ASSUME NEW g \in Seq(Nat)
        PROVE  /\ Len(g \o rest) = Len(g) + Len(rest)
               /\ \A i \in 1..Len(g) : (g \o rest)[i] = g[i]
               /\ \A i \in 1..Len(rest) : (g \o rest)[Len(g) + i] = rest[i]
    <3>1. Len(g) \in Nat
      OBVIOUS
    <3>. QED  BY <2>1, <3>1, Joined
  <2>. QED  BY <1>4, <2>1, <2>2, <2>3
<1>6. from \in Nat /\ Len(T) \in Nat /\ from + Len(s) <= Len(T)
        /\ (c \/ from + Len(s) = Len(T)) /\ \A i \in 1..Len(s) : s[i] = T[from + i]
  BY <1>2, <1>3 DEF At_
<1>. HIDE DEF rest, s
<1>7. k < Len(sent)
  <2>1. cut[Len(sent)] = Len(T)
    BY <1>2 DEF Layout
  <2>2. from < Len(T)
    <3>. DEFINE a == Len(s)
                h == Len(T)
                y == Len(rest)
    <3>1. a = z + y /\ from + a <= h /\ a \in Nat /\ h \in Nat /\ y \in Nat /\ z >= 3 /\ z \in Nat
      BY <1>4, <1>5, <1>6
    <3>2. from \in Nat
      BY <1>6
    <3>. HIDE DEF k, from, z, a, h, y
    <3>. QED  BY <3>1, <3>2 DEF h
  <2>. QED  BY <1>3, <2>1, <2>2
<1>8. m \in Messages /\ k + 1 \in 1..Len(sent) /\ (k + 1) - 1 = k
  BY <1>3, <1>7
<1>9. m.payload \in Seq(Nat) /\ Len(m.payload) \in Nat /\ Size(m) = 3 + Len(m.payload)
  BY <1>8 DEF Messages, Size
<1>. HIDE DEF k, m
<1>10. /\ cut[k + 1] <= Len(T) /\ cut[k + 1] = from + Size(m)
       /\ \A i \in 1..Size(m) : T[from + i] = Encode(m)[i]
  BY <1>2, <1>8 DEF Layout, m
<1>11. \A i \in 1..z : r.got[i] = T[from + i]
  <2>. HIDE DEF from, z
  <2>1. 1..z \subseteq 1..Len(s)
    BY <1>4, <1>5
  <2>. QED  BY <1>5, <1>6, <2>1
<1>. HIDE DEF from, z
<1>12. /\ r.got[1] = m.kind /\ z = Size(m)
       /\ \A i \in 1..Len(m.payload) : r.got[3 + i] = m.payload[i]
  <2>1. {1, 2, 3} \subseteq 1..z /\ {1, 2, 3} \subseteq 1..Size(m)
    BY <1>4, <1>9
  <2>2. \A i \in {1, 2, 3} : r.got[i] = Encode(m)[i]
    BY <1>10, <1>11, <2>1
  <2>3. /\ Encode(m)[1] = m.kind
        /\ Encode(m)[2] * Base + Encode(m)[3] = Len(m.payload)
        /\ \A i \in 1..Len(m.payload) : Encode(m)[3 + i] = m.payload[i]
    BY <1>8, EncodeBytes
  <2>4. Length(r) = Len(m.payload)
    BY <2>2, <2>3 DEF Length
  <2>5. z = Size(m)
    BY <1>4, <1>9, <2>4
  <2>6. ASSUME NEW i \in 1..Len(m.payload)
        PROVE  r.got[3 + i] = m.payload[i]
    <3>1. 3 + i \in 1..z
      BY <1>9, <2>5
    <3>. QED  BY <1>10, <1>11, <2>3, <2>5, <3>1
  <2>. QED  BY <2>2, <2>3, <2>5, <2>6
<1>13. SubSeq(r.got, 4, z) = m.payload
  <2>. DEFINE p == m.payload
              g == r.got
              q == SubSeq(g, 4, z)
  <2>1. g \in Seq(Nat) /\ p \in Seq(Nat) /\ z = 3 + Len(p) /\ Len(p) \in Nat /\ Len(g) = z
          /\ \A i \in 1..Len(p) : g[3 + i] = p[i]
    BY <1>4, <1>9, <1>12 DEF z
  <2>. HIDE DEF p, g
  <2>2. \A i \in 4..z : g[i] \in Nat
    BY <2>1
  <2>3. z \in Int /\ (z - 4) + 1 = Len(p) /\ (4 <= z <=> Len(p) # 0)
    BY <2>1
  <2>4. q \in Seq(Nat) /\ Len(q) = Len(p) /\ \A i \in 1..Len(p) : q[i] = g[3 + i]
    <3>1. /\ q \in Seq(Nat) /\ Len(q) = IF 4 <= z THEN (z - 4) + 1 ELSE 0
          /\ \A i \in 1..((z - 4) + 1) : q[i] = g[4 + i - 1]
      BY <2>2, <2>3, SubSeqProperties
    <3>2. \A i \in 1..Len(p) : 4 + i - 1 = 3 + i
      BY <2>1
    <3>. QED  BY <2>1, <2>3, <3>1, <3>2
  <2>. HIDE DEF q
  <2>5. q = p
    BY <2>1, <2>4, SeqEqual
  <2>. QED  BY <2>5 DEF p, g, q
<1>14. Decoded(r) = m
  <2>1. m = [kind |-> m.kind, payload |-> m.payload]
    BY <1>8 DEF Messages
  <2>. QED  BY <1>12, <1>13, <2>1 DEF Decoded, Message, z
<1>15. At_(T, cut[k + 1], c, Stream(Reader, sock, out))
  <2>1. Stream(Reader, sock, out) = rest
    <3>1. << >> \o rest = rest
      BY <1>5
    <3>. QED  BY <3>1 DEF Stream, Reader, rest
  <2>2. cut[k + 1] = from + z
    BY <1>10, <1>12
  <2>3. (from + z) + Len(rest) = from + Len(s)
    BY <1>4, <1>5, <1>6
  <2>4. ASSUME NEW i \in 1..Len(rest)
        PROVE  rest[i] = T[(from + z) + i]
    <3>1. z + i \in 1..Len(s) /\ from + (z + i) = (from + z) + i
      <4>. DEFINE y == Len(rest)
      <4>1. Len(s) = z + y /\ y \in Nat /\ z \in Nat /\ from \in Nat /\ i \in 1..y
        BY <1>4, <1>5, <1>6
      <4>. HIDE DEF y
      <4>. QED  BY <4>1
    <3>. QED  BY <1>5, <1>6, <3>1
  <2>. QED  BY <1>6, <2>1, <2>2, <2>3, <2>4 DEF At_
<1>16. Partial(Reader)
  BY DEF Partial, Reader
<1>17. Len(Append(got, m)) = k + 1
  BY <1>8 DEF k
<1>. QED
  <2>1. k + 1 <= Len(sent)
    BY <1>8
  <2>2. Flow(sent, Append(got, m), Reader, sock, out, c)
    BY <1>2, <1>15, <1>16, <1>17, <2>1 DEF Flow
  <2>. QED  BY <1>7, <1>8, <1>14, <2>2 DEF k, m

-----------------------------------------------------------------------------
\* The other socket, by its tags and second bytes: s is what the server has yet to
\* read.  A second byte follows the tag it belongs to, unless the emulator has gone,
\* and the server waits for one only when it comes next.

Letters == Asked \cup Tags \cup {"byte"}

Aligned(s, operand, closed, odd) ==
  /\ operand => IF s = << >> THEN closed ELSE s[1] = "byte"
  /\ \A i \in 1..Len(s) :
       /\ s[i] \in TwoBytes => IF i < Len(s) THEN s[i + 1] = "byte" ELSE closed
       /\ s[i] = "byte" => IF i = 1 THEN operand ELSE s[i - 1] \in TwoBytes
       /\ s[i] \notin Tags \cup {"byte"} => odd

\* At most one request is on its way, in hand or answered and not yet read, and it is
\* the one the emulator waits for.
Awaited(s, wants, answers, pending, tag) ==
  /\ pending => tag = wants /\ answers = << >> /\ Awaits(tag)
  /\ \A i \in 1..Len(s) : Awaits(s[i]) =>
       /\ s[i] = wants /\ answers = << >> /\ ~pending
       /\ \A j \in 1..Len(s) : Awaits(s[j]) => j = i
  /\ Len(answers) <= 1
  /\ \A i \in 1..Len(answers) : answers[i] = wants /\ Awaits(answers[i])

\* The server takes the next of what is to come: if that is a tag of two bytes, its
\* second byte comes next.
LEMMA AlignedTail ==
  ASSUME NEW s \in Seq(Letters), s # << >>, NEW operand \in BOOLEAN, NEW closed \in BOOLEAN,
         NEW odd \in BOOLEAN, Aligned(s, operand, closed, odd)
  PROVE  Aligned(Tail(s), Head(s) \in TwoBytes, closed, odd)
PROOF
<1>. DEFINE t == Tail(s)
            n == Len(s)
<1>1. /\ t \in Seq(Letters) /\ n \in Nat \ {0} /\ Len(t) = n - 1 /\ s[1] = Head(s)
      /\ \A i \in 1..(n - 1) : t[i] = s[i + 1]
  BY HeadTailProperties
<1>2. ASSUME NEW i \in 1..n
      PROVE  /\ s[i] \in TwoBytes => IF i < n THEN s[i + 1] = "byte" ELSE closed
             /\ s[i] = "byte" => IF i = 1 THEN operand ELSE s[i - 1] \in TwoBytes
             /\ s[i] \notin Tags \cup {"byte"} => odd
  BY DEF Aligned
<1>. HIDE DEF t, n
<1>3. Head(s) \in TwoBytes => IF t = << >> THEN closed ELSE t[1] = "byte"
  <2>1. CASE n = 1
    <3>1. t = << >>
      BY <1>1, <2>1
    <3>. QED  BY <1>1, <1>2, <2>1, <3>1
  <2>2. CASE n > 1
    <3>1. t # << >> /\ t[1] = s[2]
      BY <1>1, <2>2
    <3>2. s[1] \in TwoBytes => s[2] = "byte"
      BY <1>1, <1>2, <2>2
    <3>. QED  BY <1>1, <3>1, <3>2
  <2>. QED  BY <1>1, <2>1, <2>2
<1>4. ASSUME NEW i \in 1..Len(t)
      PROVE  /\ t[i] \in TwoBytes => IF i < Len(t) THEN t[i + 1] = "byte" ELSE closed
             /\ t[i] = "byte" => IF i = 1 THEN Head(s) \in TwoBytes ELSE t[i - 1] \in TwoBytes
             /\ t[i] \notin Tags \cup {"byte"} => odd
  <2>1. i + 1 \in 1..n /\ t[i] = s[i + 1] /\ (i < Len(t) <=> i + 1 < n) /\ (i + 1) - 1 = i
          /\ i + 1 # 1
    BY <1>1
  <2>2. i < Len(t) => t[i + 1] = s[(i + 1) + 1]
    BY <1>1, <2>1
  <2>3. i # 1 => t[i - 1] = s[i]
    BY <1>1, <2>1
  <2>. QED  BY <1>1, <1>2, <2>1, <2>2, <2>3
<1>. QED  BY <1>3, <1>4 DEF Aligned, t

\* What the emulator asks comes after all that, a whole request.
LEMMA AlignedRequest ==
  ASSUME NEW s \in Seq(Letters), NEW operand \in BOOLEAN, NEW odd \in BOOLEAN,
         NEW tag \in Asked, Aligned(s, operand, FALSE, odd)
  PROVE  Aligned(s \o Request(tag), operand, FALSE, odd \/ tag \notin Tags)
PROOF
<1>. DEFINE n == Len(s)
            q == Request(tag)
            w == Len(q)
            t == s \o q
<1>1. /\ q \in Seq(Letters) /\ q[1] = tag /\ w \in {1, 2}
      /\ tag \in TwoBytes => w = 2
      /\ w = 2 => q[2] = "byte" /\ tag \in TwoBytes
  <2>1. CASE tag \in TwoBytes
    BY <2>1 DEF Request, TwoBytes, Letters
  <2>2. CASE tag \notin TwoBytes
    BY <2>2 DEF Request, TwoBytes, Letters
  <2>. QED  BY <2>1, <2>2
<1>2. n \in Nat /\ tag # "byte"
  BY AskedAssumption
<1>3. ASSUME NEW i \in 1..n
      PROVE  /\ s[i] \in TwoBytes => IF i < n THEN s[i + 1] = "byte" ELSE FALSE
             /\ s[i] = "byte" => IF i = 1 THEN operand ELSE s[i - 1] \in TwoBytes
             /\ s[i] \notin Tags \cup {"byte"} => odd
  BY DEF Aligned
<1>4. operand => s # << >> /\ s[1] = "byte"
  BY DEF Aligned
<1>. HIDE DEF q, w
<1>5. /\ t \in Seq(Letters) /\ Len(t) = n + w
      /\ \A i \in 1..n : t[i] = s[i]
      /\ t[n + 1] = tag /\ (w = 2 => t[n + 2] = "byte")
  <2>1. t \in Seq(Letters) /\ Len(t) = n + w
          /\ \A i \in 1..(n + w) : t[i] = IF i <= n THEN s[i] ELSE q[i - n]
    BY <1>1, ConcatProperties DEF w
  <2>2. \A i \in 1..n : i \in 1..(n + w) /\ i <= n
    BY <1>1, <1>2
  <2>3. n + 1 \in 1..(n + w) /\ ~(n + 1 <= n) /\ (n + 1) - n = 1
    BY <1>1, <1>2
  <2>4. w = 2 => n + 2 \in 1..(n + w) /\ ~(n + 2 <= n) /\ (n + 2) - n = 2
    BY <1>1, <1>2
  <2>. HIDE DEF t, n
  <2>. QED  BY <1>1, <2>1, <2>2, <2>3, <2>4
<1>6. operand => IF t = << >> THEN FALSE ELSE t[1] = "byte"
  <2>1. operand => 1 \in 1..n
    BY <1>2, <1>4
  <2>2. t # << >>
    BY <1>1, <1>2, <1>5
  <2>. HIDE DEF t
  <2>. QED  BY <1>4, <1>5, <2>1, <2>2
<1>. HIDE DEF t, n
<1>7. ASSUME NEW i \in 1..Len(t)
      PROVE  /\ t[i] \in TwoBytes => IF i < Len(t) THEN t[i + 1] = "byte" ELSE FALSE
             /\ t[i] = "byte" => IF i = 1 THEN operand ELSE t[i - 1] \in TwoBytes
             /\ t[i] \notin Tags \cup {"byte"} => odd \/ tag \notin Tags
  <2>1. CASE i \in 1..n
    <3>1. t[i] = s[i] /\ i < Len(t)
      BY <1>1, <1>2, <1>5, <2>1
    <3>2. s[i] \in TwoBytes => i + 1 \in 1..n
      BY <1>2, <1>3, <2>1
    <3>3. i # 1 => i - 1 \in 1..n
      BY <1>2, <2>1
    <3>. QED  BY <1>3, <1>5, <2>1, <3>1, <3>2, <3>3
  <2>2. CASE i = n + 1
    <3>1. tag \in TwoBytes => i < Len(t) /\ t[i + 1] = "byte"
      BY <1>1, <1>2, <1>5, <2>2
    <3>. QED  BY <1>2, <1>5, <2>2, <3>1
  <2>3. CASE i = n + 2
    <3>1. w = 2 /\ i # 1 /\ i - 1 = n + 1
      BY <1>1, <1>2, <1>5, <2>3
    <3>2. t[i] = "byte" /\ t[i - 1] \in TwoBytes
      BY <1>1, <1>5, <2>3, <3>1
    <3>. QED  BY <3>1, <3>2 DEF TwoBytes
  <2>. QED  BY <1>1, <1>2, <1>5, <2>1, <2>2, <2>3
<1>. QED  BY <1>6, <1>7 DEF Aligned, t, q

\* What the emulator still held when it quits is not missed.
LEMMA AlignedCut ==
  ASSUME NEW s \in Seq(Letters), NEW t \in Seq(Letters), NEW operand \in BOOLEAN,
         NEW odd \in BOOLEAN, Aligned(s \o t, operand, FALSE, odd)
  PROVE  Aligned(s, operand, TRUE, odd)
PROOF
<1>. DEFINE n == Len(s)
            u == s \o t
<1>1. /\ n \in Nat /\ Len(t) \in Nat /\ u \in Seq(Letters) /\ Len(u) = n + Len(t)
      /\ \A i \in 1..n : u[i] = s[i]
  OBVIOUS
<1>2. \A i \in 1..n : i \in 1..Len(u) /\ (i < n => i < Len(u) /\ i + 1 \in 1..n)
                       /\ (i # 1 => i - 1 \in 1..n)
  BY <1>1
<1>3. s # << >> => 1 \in 1..n /\ u # << >>
  BY <1>1
<1>4. /\ operand => IF u = << >> THEN FALSE ELSE u[1] = "byte"
      /\ \A i \in 1..Len(u) :
           /\ u[i] \in TwoBytes => IF i < Len(u) THEN u[i + 1] = "byte" ELSE FALSE
           /\ u[i] = "byte" => IF i = 1 THEN operand ELSE u[i - 1] \in TwoBytes
           /\ u[i] \notin Tags \cup {"byte"} => odd
  BY DEF Aligned
<1>. HIDE DEF n, u
<1>5. operand => IF s = << >> THEN TRUE ELSE s[1] = "byte"
  BY <1>1, <1>3, <1>4
<1>6. ASSUME NEW i \in 1..n
      PROVE  /\ s[i] \in TwoBytes => IF i < n THEN s[i + 1] = "byte" ELSE TRUE
             /\ s[i] = "byte" => IF i = 1 THEN operand ELSE s[i - 1] \in TwoBytes
             /\ s[i] \notin Tags \cup {"byte"} => odd
  BY <1>1, <1>2, <1>4
<1>. QED  BY <1>5, <1>6 DEF Aligned, n

\* The server takes the next of what is to come: a request that has an answer is then
\* in hand.
LEMMA AwaitedTag ==
  ASSUME NEW s \in Seq(Letters), s # << >>, NEW wants, NEW answers, NEW tag,
         Awaited(s, wants, answers, FALSE, tag)
  PROVE  Awaited(Tail(s), wants, answers, Awaits(Head(s)), Head(s))
PROOF
<1>. DEFINE t == Tail(s)
            n == Len(s)
<1>1. /\ t \in Seq(Letters) /\ n \in Nat \ {0} /\ Len(t) = n - 1 /\ s[1] = Head(s)
      /\ \A i \in 1..(n - 1) : t[i] = s[i + 1]
  BY HeadTailProperties
<1>2. ASSUME NEW i \in 1..n, Awaits(s[i])
      PROVE  s[i] = wants /\ answers = << >> /\ \A j \in 1..n : Awaits(s[j]) => j = i
  BY <1>2 DEF Awaited
<1>. HIDE DEF t, n
<1>3. Awaits(Head(s)) => Head(s) = wants /\ answers = << >>
  BY <1>1, <1>2
<1>4. ASSUME NEW i \in 1..Len(t), Awaits(t[i])
      PROVE  /\ t[i] = wants /\ answers = << >> /\ ~Awaits(Head(s))
             /\ \A j \in 1..Len(t) : Awaits(t[j]) => j = i
  <2>1. i + 1 \in 1..n /\ t[i] = s[i + 1] /\ i + 1 # 1 /\ 1 \in 1..n
    BY <1>1
  <2>2. t[i] = wants /\ answers = << >> /\ \A j \in 1..n : Awaits(s[j]) => j = i + 1
    BY <1>2, <1>4, <2>1
  <2>3. ~Awaits(Head(s))
    BY <1>1, <2>1, <2>2
  <2>4. ASSUME NEW j \in 1..Len(t), Awaits(t[j])
        PROVE  j = i
    <3>1. j + 1 \in 1..n /\ t[j] = s[j + 1]
      BY <1>1
    <3>2. j + 1 = i + 1
      BY <2>2, <2>4, <3>1
    <3>. QED  BY <1>1, <3>2
  <2>. QED  BY <2>2, <2>3, <2>4
<1>. QED  BY <1>3, <1>4 DEF Awaited, t

\* It takes a second byte, which waits for nothing.
LEMMA AwaitedByte ==
  ASSUME NEW s \in Seq(Letters), s # << >>, NEW wants, NEW answers, NEW tag,
         NEW pending \in BOOLEAN, Awaited(s, wants, answers, pending, tag)
  PROVE  Awaited(Tail(s), wants, answers, pending, tag)
PROOF
<1>. DEFINE t == Tail(s)
            n == Len(s)
<1>1. /\ n \in Nat \ {0} /\ Len(t) = n - 1
      /\ \A i \in 1..(n - 1) : t[i] = s[i + 1]
  BY HeadTailProperties
<1>2. ASSUME NEW i \in 1..n, Awaits(s[i])
      PROVE  s[i] = wants /\ answers = << >> /\ ~pending /\ \A j \in 1..n : Awaits(s[j]) => j = i
  BY <1>2 DEF Awaited
<1>. HIDE DEF t, n
<1>3. ASSUME NEW i \in 1..Len(t), Awaits(t[i])
      PROVE  /\ t[i] = wants /\ answers = << >> /\ ~pending
             /\ \A j \in 1..Len(t) : Awaits(t[j]) => j = i
  <2>1. i + 1 \in 1..n /\ t[i] = s[i + 1]
    BY <1>1
  <2>2. t[i] = wants /\ answers = << >> /\ ~pending /\ \A j \in 1..n : Awaits(s[j]) => j = i + 1
    BY <1>2, <1>3, <2>1
  <2>3. ASSUME NEW j \in 1..Len(t), Awaits(t[j])
        PROVE  j = i
    <3>1. j + 1 \in 1..n /\ t[j] = s[j + 1]
      BY <1>1
    <3>2. j + 1 = i + 1
      BY <2>2, <2>3, <3>1
    <3>. QED  BY <1>1, <3>2
  <2>. QED  BY <2>2, <2>3
<1>. QED  BY <1>3 DEF Awaited, t

\* A request is one tag, and a second byte for some.
LEMMA RequestLetters ==
  ASSUME NEW tag \in Asked
  PROVE  Request(tag) \in Seq(Letters) /\ tag \in Letters
PROOF
<1>1. CASE tag \in TwoBytes
  BY <1>1 DEF Request, TwoBytes, Letters
<1>2. CASE tag \notin TwoBytes
  BY <1>2 DEF Request, TwoBytes, Letters
<1>. QED  BY <1>1, <1>2

\* Nothing is awaited when the emulator asks, and then what it asks is, if it has an
\* answer.
LEMMA AwaitedRequest ==
  ASSUME NEW s \in Seq(Letters), NEW answers \in Seq(Letters), NEW pending \in BOOLEAN, NEW tag,
         NEW asked \in Asked, Awaited(s, "none", answers, pending, tag)
  PROVE  Awaited(s \o Request(asked), IF Awaits(asked) THEN asked ELSE "none",
                 answers, pending, tag)
PROOF
<1>. DEFINE n == Len(s)
            q == Request(asked)
            w == Len(q)
            t == s \o q
            wants == IF Awaits(asked) THEN asked ELSE "none"
<1>1. ~pending /\ answers = << >> /\ \A i \in 1..n : ~Awaits(s[i])
  <2>1. ~Awaits("none")
    BY DEF Awaits
  <2>2. ~pending /\ \A i \in 1..n : ~Awaits(s[i])
    BY <2>1 DEF Awaited
  <2>3. Len(answers) \in Nat /\ \A i \in 1..Len(answers) : FALSE
    BY <2>1 DEF Awaited
  <2>4. ~(1 \in 1..Len(answers))
    BY <2>3
  <2>5. Len(answers) = 0
    BY <2>3, <2>4
  <2>. QED  BY <2>2, <2>5
<1>2. /\ q \in Seq(Letters) /\ q[1] = asked /\ w \in {1, 2}
      /\ w = 2 => q[2] = "byte"
  <2>1. CASE asked \in TwoBytes
    BY <2>1 DEF Request, TwoBytes, Letters
  <2>2. CASE asked \notin TwoBytes
    BY <2>2 DEF Request, TwoBytes, Letters
  <2>. QED  BY <2>1, <2>2
<1>3. n \in Nat
  OBVIOUS
<1>. HIDE DEF q, w
<1>4. /\ t \in Seq(Letters) /\ Len(t) = n + w
      /\ \A i \in 1..(n + w) : t[i] = IF i <= n THEN s[i] ELSE q[i - n]
  BY <1>2, ConcatProperties DEF w
<1>. HIDE DEF t, n
<1>5. ASSUME NEW i \in 1..Len(t), Awaits(t[i])
      PROVE  i = n + 1 /\ t[i] = asked
  <2>1. CASE i \in 1..n
    BY <1>1, <1>2, <1>3, <1>4, <1>5, <2>1
  <2>2. CASE i = n + 1
    <3>1. ~(i <= n) /\ i - n = 1
      BY <1>3, <2>2
    <3>. QED  BY <1>2, <1>4, <2>2, <3>1
  <2>3. CASE i = n + 2
    <3>1. ~(i <= n) /\ i - n = 2 /\ w = 2
      BY <1>2, <1>3, <1>4, <2>3
    <3>2. t[i] = "byte"
      BY <1>2, <1>4, <3>1
    <3>. QED  BY <1>5, <3>2 DEF Awaits
  <2>. QED  BY <1>2, <1>3, <1>4, <2>1, <2>2, <2>3
<1>6. ASSUME NEW i \in 1..Len(t), Awaits(t[i])
      PROVE  /\ t[i] = wants /\ answers = << >> /\ ~pending
             /\ \A j \in 1..Len(t) : Awaits(t[j]) => j = i
  BY <1>1, <1>5, <1>6
<1>7. Len(answers) <= 1 /\ \A i \in 1..Len(answers) : FALSE
  BY <1>1
<1>. QED  BY <1>1, <1>6, <1>7 DEF Awaited, t, q

\* What the emulator still held when it quits is not awaited.
LEMMA AwaitedCut ==
  ASSUME NEW s \in Seq(Letters), NEW t \in Seq(Letters), NEW wants, NEW answers,
         NEW pending \in BOOLEAN, NEW tag, Awaited(s \o t, wants, answers, pending, tag)
  PROVE  Awaited(s, wants, answers, pending, tag)
PROOF
<1>. DEFINE n == Len(s)
            u == s \o t
<1>1. /\ n \in Nat /\ Len(t) \in Nat /\ Len(u) = n + Len(t)
      /\ \A i \in 1..n : u[i] = s[i]
  OBVIOUS
<1>2. \A i \in 1..n : i \in 1..Len(u)
  BY <1>1
<1>3. \A i \in 1..Len(u) : Awaits(u[i]) =>
        /\ u[i] = wants /\ answers = << >> /\ ~pending
        /\ \A j \in 1..Len(u) : Awaits(u[j]) => j = i
  BY DEF Awaited
<1>. HIDE DEF n, u
<1>4. \A i \in 1..n : Awaits(s[i]) =>
        /\ s[i] = wants /\ answers = << >> /\ ~pending
        /\ \A j \in 1..n : Awaits(s[j]) => j = i
  BY <1>1, <1>2, <1>3
<1>. QED  BY <1>4 DEF Awaited, n

\* The answer to what is in hand is the one that is waited for.
LEMMA AwaitedAnswer ==
  ASSUME NEW s \in Seq(Letters), NEW wants, NEW answers \in Seq(Letters), NEW tag \in Letters,
         NEW next, Awaited(s, wants, answers, TRUE, tag)
  PROVE  Awaited(s, wants, Append(answers, tag), FALSE, next)
PROOF
<1>1. tag = wants /\ answers = << >> /\ Awaits(tag) /\ \A i \in 1..Len(s) : ~Awaits(s[i])
  BY DEF Awaited
<1>2. Len(Append(answers, tag)) = 1 /\ Append(answers, tag)[1] = tag
  BY <1>1
<1>. QED  BY <1>1, <1>2 DEF Awaited

\* The emulator reads its answer, and waits for nothing.
LEMMA AwaitedRead ==
  ASSUME NEW s \in Seq(Letters), NEW wants, NEW answers \in Seq(Letters), answers # << >>,
         NEW pending \in BOOLEAN, NEW tag, Awaited(s, wants, answers, pending, tag)
  PROVE  Awaited(s, "none", Tail(answers), pending, tag)
PROOF
<1>1. ~pending /\ (\A i \in 1..Len(s) : ~Awaits(s[i])) /\ Len(answers) <= 1
  BY DEF Awaited
<1>2. Len(Tail(answers)) = 0
  <2>. DEFINE n == Len(answers)
              k == Len(Tail(answers))
  <2>1. n \in Nat \ {0} /\ k = n - 1
    BY EmptySeq, HeadTailProperties
  <2>2. n <= 1
    BY <1>1
  <2>. HIDE DEF n, k
  <2>3. k = 0
    BY <2>1, <2>2
  <2>. QED  BY <2>3 DEF k
<1>. QED  BY <1>1, <1>2 DEF Awaited

-----------------------------------------------------------------------------
\* The invariant: what everything is, that the requests are in step, and that each
\* direction of the engine's socket is a stream of messages.

Pcs == {"accept", "poll", "tag", "operand", "answer", "engine", "closed"}

Typed ==
  /\ engine \in [out : Seq(Nat), in : Readers, sim : Nat, waiting : BOOLEAN, others : Nat,
                 closed : BOOLEAN]
  /\ up \in Seq(Nat) /\ down \in Seq(Nat)
  /\ past \in [upSent : Seq(Messages), upGot : Seq(Messages),
               downSent : Seq(Messages), downGot : Seq(Messages)]
  /\ server \in [pc : Pcs, due : BOOLEAN, tag : Letters \cup {"none"}, packet : {<< >>, << 1 >>},
                 in : Readers, out : Seq(Nat), todo : Seq(Messages)]
  /\ emulator \in [up : BOOLEAN, closed : BOOLEAN, out : Seq(Letters),
                   wants : Letters \cup {"none"}, odd : BOOLEAN]
  /\ mcuUp \in Seq(Letters) /\ mcuDown \in Seq(Letters)

ToCome == mcuUp \o emulator.out
Pending == At("answer") \/ (At("operand") /\ Awaits(server.tag))

Requests ==
  /\ Aligned(ToCome, At("operand"), emulator.closed, emulator.odd)
  /\ Awaited(ToCome, emulator.wants, mcuDown, Pending, server.tag)
  /\ At("operand") => server.tag \in TwoBytes
  /\ emulator.closed => emulator.out = << >>
  /\ EndsOnlyWithPeers

UpFlow == Flow(past.upSent, past.upGot, server.in, up, engine.out, engine.closed)
DownFlow ==
  ~engine.closed => Flow(past.downSent, past.downGot, engine.in, down, server.out, FALSE)

IInv == Typed /\ Requests /\ UpFlow /\ DownFlow

\* It holds at the start.
LEMMA InitIInv == Init => IInv
PROOF
<1>. SUFFICES ASSUME Init PROVE IInv
  OBVIOUS
<1>1. Reader \in Readers /\ << >> \in Seq(Nat) /\ << >> \in Seq(Messages) /\ << >> \in Seq(Letters)
  BY DEF Reader, Readers
<1>2. Typed
  <2>. HIDE DEF Reader, Readers, Messages, Letters
  <2>. QED  BY <1>1 DEF Init, EngineInit, Typed, Pcs
<1>3. UpFlow /\ DownFlow
  BY FlowStart DEF Init, EngineInit, UpFlow, DownFlow
<1>4. Requests
  <2>1. mcuUp = << >> /\ mcuDown = << >> /\ emulator.out = << >> /\ emulator.wants = "none"
          /\ ~emulator.closed /\ server.pc = "accept" /\ server.tag = "none"
    BY DEF Init
  <2>2. ToCome = << >> /\ ~At("operand") /\ ~Pending /\ ~At("closed")
    BY <2>1 DEF ToCome, Pending, At
  <2>3. Aligned(ToCome, At("operand"), emulator.closed, emulator.odd)
    BY <2>2 DEF Aligned
  <2>4. Awaited(ToCome, emulator.wants, mcuDown, Pending, server.tag)
    BY <2>1, <2>2 DEF Awaited
  <2>. QED  BY <2>1, <2>2, <2>3, <2>4 DEF Requests, EndsOnlyWithPeers
<1>. QED  BY <1>2, <1>3, <1>4 DEF IInv

\* Steps that leave the emulator's socket alone, and the server where it is with it.
LEMMA RequestsFrame ==
  ASSUME Requests, emulatorVars' = emulatorVars, server'.tag = server.tag,
         At("operand")' <=> At("operand"), At("answer")' <=> At("answer"),
         At("closed")' => engine'.closed \/ emulator.closed \/ emulator.odd
  PROVE  Requests'
PROOF
<1>1. ToCome' = ToCome /\ (Pending' <=> Pending) /\ emulator' = emulator /\ mcuDown' = mcuDown
  BY DEF ToCome, Pending, emulatorVars
<1>2. Aligned(ToCome, At("operand"), emulator.closed, emulator.odd)'
  BY <1>1 DEF Requests, Aligned
<1>3. Awaited(ToCome, emulator.wants, mcuDown, Pending, server.tag)'
  BY <1>1 DEF Requests, Awaited
<1>. QED  BY <1>1, <1>2, <1>3 DEF Requests, EndsOnlyWithPeers

\* Steps that leave the engine's socket and what the server does with it alone.
LEMMA FlowFrame ==
  ASSUME UpFlow, DownFlow, engineVars' = engineVars, server'.in = server.in,
         server'.out = server.out
  PROVE  UpFlow' /\ DownFlow'
  BY DEF UpFlow, DownFlow, engineVars

\* Where the server goes on its own, nothing of the requests moves.
LEMMA ServerAloneKeeps ==
  ASSUME IInv, Accept \/ Poll
  PROVE  IInv'
PROOF
<1>1. Typed /\ Requests /\ UpFlow /\ DownFlow
  BY DEF IInv
<1>2. /\ engineVars' = engineVars /\ emulatorVars' = emulatorVars /\ server'.in = server.in
      /\ server'.out = server.out /\ server'.tag = server.tag
      /\ server.pc \in {"accept", "poll"} /\ server'.pc \in {"poll", "tag", "engine"}
  BY <1>1 DEF Accept, Poll, Typed, At, Goes
<1>3. Requests'
  BY <1>1, <1>2, RequestsFrame DEF At
<1>4. UpFlow' /\ DownFlow'
  BY <1>1, <1>2, FlowFrame
<1>5. Typed'
  <2>1. server' \in [pc : Pcs, due : BOOLEAN, tag : Letters \cup {"none"}, packet : {<< >>, << 1 >>},
                     in : Readers, out : Seq(Nat), todo : Seq(Messages)]
    <3>. HIDE DEF Readers, Messages, Letters
    <3>1. EmulatorReady \in BOOLEAN /\ (EmulatorReady /\ EngineReady) \in BOOLEAN
      BY <1>1 DEF EmulatorReady, EngineReady, Typed
    <3>2. CASE Accept
      BY <1>1, <3>2 DEF Accept, Typed, Goes, Pcs
    <3>3. CASE Poll
      BY <1>1, <3>1, <3>3 DEF Poll, Typed, Pcs
    <3>. QED  BY <3>2, <3>3
  <2>. QED  BY <1>1, <1>2, <2>1 DEF Typed, engineVars, emulatorVars
<1>. QED  BY <1>3, <1>4, <1>5 DEF IInv

\* A tag is read: the request is in hand, or its second byte comes next, or the server
\* does not know it and ends.
LEMMA ReadTagKeeps ==
  ASSUME IInv, ReadTag
  PROVE  IInv'
PROOF
<1>. DEFINE tag == Head(mcuUp)
            rest == Tail(mcuUp) \o emulator.out
<1>1. Typed /\ Requests /\ UpFlow /\ DownFlow
  BY DEF IInv
<1>2. /\ mcuUp # << >> /\ mcuUp' = Tail(mcuUp) /\ UNCHANGED <<engineVars, emulator, mcuDown>>
      /\ At("tag")
      /\ \/ tag \notin Tags /\ Ends
         \/ tag \in TwoBytes /\ server' = [server EXCEPT !.pc = "operand", !.tag = tag]
         \/ tag \in Tags \ TwoBytes /\ \E p \in Packets(tag) : server' = Served(tag, p)
  BY DEF ReadTag, Takes
<1>3. mcuUp \in Seq(Letters) /\ emulator.out \in Seq(Letters) /\ emulator.closed \in BOOLEAN
        /\ emulator.odd \in BOOLEAN
  BY <1>1 DEF Typed
<1>4. /\ ToCome \in Seq(Letters) /\ ToCome # << >> /\ Head(ToCome) = tag /\ tag \in Letters
      /\ Tail(mcuUp) \in Seq(Letters) /\ rest = Tail(ToCome) /\ ToCome' = rest
  BY <1>2, <1>3, TailJoined DEF ToCome
<1>5. /\ At("operand") = FALSE /\ Pending = FALSE
      /\ Aligned(ToCome, FALSE, emulator.closed, emulator.odd)
      /\ Awaited(ToCome, emulator.wants, mcuDown, FALSE, server.tag)
  BY <1>1, <1>2 DEF Requests, At, Pending
<1>6. tag # "byte" /\ (tag \notin Tags => emulator.odd)
  <2>1. 1 \in 1..Len(ToCome) /\ ToCome[1] = tag
    BY <1>4
  <2>. QED  BY <1>5, <2>1 DEF Aligned
<1>. HIDE DEF tag, rest
<1>7. Aligned(rest, tag \in TwoBytes, emulator.closed, emulator.odd)
  BY <1>3, <1>4, <1>5, AlignedTail
<1>8. Awaited(rest, emulator.wants, mcuDown, Awaits(tag), tag)
  BY <1>4, <1>5, AwaitedTag
<1>9. UNCHANGED <<engineVars, emulator, mcuDown>> /\ ToCome' = rest
  BY <1>2, <1>4
<1>10. CASE tag \notin Tags /\ Ends
  <2>1. server' = [server EXCEPT !.pc = "closed"] /\ tag \notin TwoBytes /\ ~Awaits(tag)
    BY <1>10 DEF Ends, Goes, TwoBytes, Tags, Awaits
  <2>2. server'.pc = "closed" /\ server'.in = server.in /\ server'.out = server.out
    BY <1>1, <2>1 DEF Typed
  <2>3. Typed'
    <3>. HIDE DEF Readers, Messages, Letters
    <3>. QED  BY <1>1, <1>4, <1>9, <2>1, <1>2 DEF Typed, engineVars, Pcs
  <2>4. At("operand")' = FALSE /\ Pending' = FALSE
    BY <2>2 DEF At, Pending
  <2>5. Aligned(ToCome, At("operand"), emulator.closed, emulator.odd)'
    BY <1>7, <1>9, <2>1, <2>4 DEF Aligned
  <2>6. Awaited(ToCome, emulator.wants, mcuDown, Pending, server.tag)'
    BY <1>8, <1>9, <2>1, <2>4 DEF Awaited
  <2>7. Requests'
    BY <1>1, <1>6, <1>9, <1>10, <2>4, <2>5, <2>6 DEF Requests, EndsOnlyWithPeers
  <2>. QED  BY <1>1, <1>9, <2>2, <2>3, <2>7, FlowFrame DEF IInv
<1>11. CASE tag \in TwoBytes /\ server' = [server EXCEPT !.pc = "operand", !.tag = tag]
  <2>1. server'.pc = "operand" /\ server'.tag = tag /\ server'.in = server.in
          /\ server'.out = server.out
    BY <1>1, <1>11 DEF Typed
  <2>2. Typed'
    <3>. HIDE DEF Readers, Messages, Letters
    <3>. QED  BY <1>1, <1>4, <1>9, <1>11, <1>2 DEF Typed, engineVars, Pcs
  <2>3. At("operand")' = TRUE /\ (Pending' <=> Awaits(tag)) /\ ~At("closed")'
    BY <2>1 DEF At, Pending
  <2>4. Aligned(ToCome, At("operand"), emulator.closed, emulator.odd)'
    BY <1>7, <1>9, <1>11, <2>3 DEF Aligned
  <2>5. Awaited(ToCome, emulator.wants, mcuDown, Pending, server.tag)'
    BY <1>8, <1>9, <2>1, <2>3 DEF Awaited
  <2>6. Requests'
    BY <1>1, <1>9, <1>11, <2>1, <2>3, <2>4, <2>5 DEF Requests, EndsOnlyWithPeers
  <2>. QED  BY <1>1, <1>9, <2>1, <2>2, <2>6, FlowFrame DEF IInv
<1>12. ASSUME NEW p \in Packets(tag), tag \in Tags \ TwoBytes, server' = Served(tag, p)
       PROVE  IInv'
  <2>1. p \in {<< >>, << 1 >>}
    BY <1>1 DEF Packets, Typed
  <2>2. /\ server'.in = server.in /\ server'.out = server.out
        /\ tag \in Answered => server'.pc = "answer" /\ server'.tag = tag
        /\ tag \notin Answered => server'.pc \in {"engine", "poll"}
    BY <1>1, <1>12 DEF Typed, Served, AfterEmulator
  <2>3. Typed'
    <3>. HIDE DEF Readers, Messages, Letters
    <3>1. server' \in [pc : Pcs, due : BOOLEAN, tag : Letters \cup {"none"},
                       packet : {<< >>, << 1 >>}, in : Readers, out : Seq(Nat),
                       todo : Seq(Messages)]
      BY <1>1, <1>4, <1>12, <2>1 DEF Typed, Served, AfterEmulator, Pcs
    <3>. QED  BY <1>1, <1>2, <1>4, <1>9, <3>1 DEF Typed, engineVars
  <2>4. tag \in Answered <=> Awaits(tag)
    BY DEF Answered, Awaits
  <2>5. At("operand")' = FALSE /\ (Pending' <=> Awaits(tag)) /\ ~At("closed")'
    BY <2>2, <2>4 DEF At, Pending
  <2>6. Aligned(ToCome, At("operand"), emulator.closed, emulator.odd)'
    BY <1>7, <1>9, <1>12, <2>5 DEF Aligned
  <2>7. Awaited(ToCome, emulator.wants, mcuDown, Pending, server.tag)'
    BY <1>8, <1>9, <2>2, <2>4, <2>5 DEF Awaited
  <2>8. Requests'
    BY <1>1, <1>9, <2>5, <2>6, <2>7 DEF Requests, EndsOnlyWithPeers
  <2>. QED  BY <1>1, <1>9, <2>2, <2>3, <2>8, FlowFrame DEF IInv
<1>. QED  BY <1>2, <1>10, <1>11, <1>12 DEF tag

\* The second byte is read, and what had an answer is in hand.
LEMMA ReadOperandKeeps ==
  ASSUME IInv, ReadOperand
  PROVE  IInv'
PROOF
<1>. DEFINE tag == server.tag
            rest == Tail(mcuUp) \o emulator.out
<1>1. Typed /\ Requests /\ UpFlow /\ DownFlow
  BY DEF IInv
<1>2. /\ mcuUp # << >> /\ mcuUp' = Tail(mcuUp) /\ UNCHANGED <<engineVars, emulator, mcuDown>>
      /\ At("operand") /\ server' = Served(tag, server.packet)
  BY DEF ReadOperand, Takes
<1>3. mcuUp \in Seq(Letters) /\ emulator.out \in Seq(Letters) /\ emulator.closed \in BOOLEAN
        /\ emulator.odd \in BOOLEAN
  BY <1>1 DEF Typed
<1>4. /\ ToCome \in Seq(Letters) /\ ToCome # << >> /\ Head(ToCome) = ToCome[1]
      /\ Tail(mcuUp) \in Seq(Letters) /\ rest = Tail(ToCome) /\ ToCome' = rest
  BY <1>2, <1>3, TailJoined DEF ToCome
<1>5. /\ At("operand") = TRUE /\ (Pending <=> Awaits(tag)) /\ tag \in TwoBytes /\ tag \in Letters
      /\ Aligned(ToCome, TRUE, emulator.closed, emulator.odd)
      /\ Awaited(ToCome, emulator.wants, mcuDown, Awaits(tag), tag)
  <2>1. (Pending <=> Awaits(tag)) /\ tag \in TwoBytes
    BY <1>1, <1>2 DEF Requests, At, Pending
  <2>2. tag \in Letters
    BY <2>1 DEF TwoBytes, Tags, Letters
  <2>3. Aligned(ToCome, TRUE, emulator.closed, emulator.odd)
    BY <1>1, <1>2 DEF Requests, Aligned
  <2>4. Awaited(ToCome, emulator.wants, mcuDown, Awaits(tag), tag)
    BY <1>1, <2>1 DEF Requests, Awaited
  <2>. QED  BY <1>2, <2>1, <2>2, <2>3, <2>4 DEF At
<1>6. Head(ToCome) \notin TwoBytes
  BY <1>4, <1>5 DEF Aligned, TwoBytes
<1>. HIDE DEF tag, rest
<1>7. Aligned(rest, FALSE, emulator.closed, emulator.odd)
  <2>1. Aligned(rest, Head(ToCome) \in TwoBytes, emulator.closed, emulator.odd)
    BY <1>3, <1>4, <1>5, AlignedTail
  <2>. QED  BY <1>6, <2>1 DEF Aligned
<1>8. Awaited(rest, emulator.wants, mcuDown, Awaits(tag), tag)
  <2>1. Awaits(tag) \in BOOLEAN
    BY DEF Awaits
  <2>. QED  BY <1>4, <1>5, <2>1, AwaitedByte
<1>9. UNCHANGED <<engineVars, emulator, mcuDown>> /\ ToCome' = rest
  BY <1>2, <1>4
<1>10. /\ server'.in = server.in /\ server'.out = server.out
       /\ tag \in Answered => server'.pc = "answer" /\ server'.tag = tag
       /\ tag \notin Answered => server'.pc \in {"engine", "poll"}
  BY <1>1, <1>2 DEF Typed, Served, AfterEmulator, tag
<1>11. Typed'
  <2>. HIDE DEF Readers, Messages, Letters
  <2>1. server' \in [pc : Pcs, due : BOOLEAN, tag : Letters \cup {"none"},
                     packet : {<< >>, << 1 >>}, in : Readers, out : Seq(Nat),
                     todo : Seq(Messages)]
    BY <1>1, <1>2, <1>5 DEF Typed, Served, AfterEmulator, Pcs, tag
  <2>. QED  BY <1>1, <1>2, <1>4, <1>9, <2>1 DEF Typed, engineVars
<1>12. tag \in Answered <=> Awaits(tag)
  BY DEF Answered, Awaits
<1>13. At("operand")' = FALSE /\ (Pending' <=> Awaits(tag)) /\ ~At("closed")'
  BY <1>10, <1>12 DEF At, Pending
<1>14. Aligned(ToCome, At("operand"), emulator.closed, emulator.odd)'
  BY <1>7, <1>9, <1>13 DEF Aligned
<1>15. Awaited(ToCome, emulator.wants, mcuDown, Pending, server.tag)'
  BY <1>8, <1>9, <1>10, <1>12, <1>13 DEF Awaited
<1>16. Requests'
  BY <1>1, <1>9, <1>13, <1>14, <1>15 DEF Requests, EndsOnlyWithPeers
<1>. QED  BY <1>1, <1>9, <1>10, <1>11, <1>16, FlowFrame DEF IInv

\* The answer is written; with the emulator gone the server ends instead.
LEMMA AnswerKeeps ==
  ASSUME IInv, Answer \/ EmulatorGone
  PROVE  IInv'
PROOF
<1>1. Typed /\ Requests /\ UpFlow /\ DownFlow
  BY DEF IInv
<1>2. UNCHANGED <<engineVars, emulator, mcuUp>> /\ ToCome' = ToCome
        /\ server'.in = server.in /\ server'.out = server.out
  BY <1>1 DEF Answer, EmulatorGone, emulatorVars, ToCome, Ends, Goes, Typed
<1>3. ToCome \in Seq(Letters)
  BY <1>1 DEF Typed, ToCome
<1>4. UpFlow' /\ DownFlow'
  BY <1>1, <1>2, FlowFrame
<1>5. CASE Answer
  <2>1. /\ At("answer") /\ mcuDown' = Append(mcuDown, server.tag)
        /\ server' = [server EXCEPT !.pc = AfterEmulator, !.due = FALSE, !.tag = "none"]
    BY <1>5 DEF Answer
  <2>2. At("operand") = FALSE /\ Pending = TRUE
    BY <2>1 DEF At, Pending
  <2>3. Awaited(ToCome, emulator.wants, mcuDown, TRUE, server.tag)
          /\ Aligned(ToCome, FALSE, emulator.closed, emulator.odd)
    BY <1>1, <2>2 DEF Requests, Awaited, Aligned
  <2>4. server.tag \in Letters /\ mcuDown \in Seq(Letters)
    BY <1>1, <2>3 DEF Awaited, Awaits, Letters, Tags, Typed
  <2>5. Awaited(ToCome, emulator.wants, Append(mcuDown, server.tag), FALSE, server'.tag)
    BY <1>3, <2>3, <2>4, AwaitedAnswer
  <2>6. server'.pc \in {"engine", "poll"}
    BY <1>1, <2>1 DEF Typed, AfterEmulator
  <2>7. At("operand")' = FALSE /\ Pending' = FALSE /\ ~At("closed")'
    BY <2>6 DEF At, Pending
  <2>8. Aligned(ToCome, At("operand"), emulator.closed, emulator.odd)'
    BY <1>2, <2>3, <2>7 DEF Aligned
  <2>9. Awaited(ToCome, emulator.wants, mcuDown, Pending, server.tag)'
    BY <1>2, <2>1, <2>5, <2>7 DEF Awaited
  <2>10. Requests'
    BY <1>1, <1>2, <2>7, <2>8, <2>9 DEF Requests, EndsOnlyWithPeers
  <2>11. Typed'
    <3>. HIDE DEF Readers, Messages, Letters
    <3>1. server' \in [pc : Pcs, due : BOOLEAN, tag : Letters \cup {"none"},
                       packet : {<< >>, << 1 >>}, in : Readers, out : Seq(Nat),
                       todo : Seq(Messages)]
      BY <1>1, <2>1 DEF Typed, AfterEmulator, Pcs
    <3>2. mcuDown' \in Seq(Letters)
      BY <2>1, <2>4
    <3>. QED  BY <1>1, <1>2, <3>1, <3>2 DEF Typed, engineVars
  <2>. QED  BY <1>4, <2>10, <2>11 DEF IInv
<1>6. CASE EmulatorGone
  <2>1. /\ emulator.closed /\ server' = [server EXCEPT !.pc = "closed"]
        /\ UNCHANGED <<engineVars, emulatorVars>>
        /\ \/ At("tag") \/ (At("operand") /\ mcuUp = << >>) \/ At("answer")
    BY <1>6 DEF EmulatorGone, Ends, Goes
  <2>2. server'.pc = "closed" /\ server'.tag = server.tag
    BY <1>1, <2>1 DEF Typed
  <2>3. At("operand")' = FALSE /\ Pending' = FALSE
    BY <2>2 DEF At, Pending
  <2>4. Aligned(ToCome, FALSE, emulator.closed, emulator.odd)
    <3>1. CASE At("operand")
      <4>1. emulator.out = << >> /\ mcuUp = << >>
        BY <1>1, <2>1, <3>1 DEF Requests, At
      <4>2. ToCome = << >>
        BY <4>1 DEF ToCome
      <4>. QED  BY <4>2 DEF Aligned
    <3>2. CASE ~At("operand")
      BY <1>1, <3>2 DEF Requests, Aligned
    <3>. QED  BY <3>1, <3>2
  <2>5. Aligned(ToCome, At("operand"), emulator.closed, emulator.odd)'
    BY <1>2, <2>3, <2>4 DEF Aligned
  <2>6. Awaited(ToCome, emulator.wants, mcuDown, Pending, server.tag)'
    BY <1>1, <1>2, <2>1, <2>3 DEF Awaited, Requests, emulatorVars
  <2>7. Requests'
    BY <1>1, <1>2, <2>1, <2>3, <2>5, <2>6 DEF Requests, EndsOnlyWithPeers
  <2>8. Typed'
    <3>. HIDE DEF Readers, Messages, Letters
    <3>. QED  BY <1>1, <2>1 DEF Typed, engineVars, emulatorVars, Pcs
  <2>. QED  BY <1>4, <2>7, <2>8 DEF IInv
<1>. QED  BY <1>5, <1>6

\* The emulator connects, asks, writes, reads and quits.
LEMMA EmulatorKeeps ==
  ASSUME IInv, Emulator
  PROVE  IInv'
PROOF
<1>1. Typed /\ Requests /\ UpFlow /\ DownFlow
  BY DEF IInv
<1>2. UNCHANGED <<engineVars, server>>
  BY DEF Emulator, Connects, Asks, EmulatorWrites, EmulatorReads, EmulatorQuits
<1>3. UpFlow' /\ DownFlow'
  BY <1>1, <1>2, FlowFrame
<1>4. /\ mcuUp \in Seq(Letters) /\ mcuDown \in Seq(Letters) /\ emulator.out \in Seq(Letters)
      /\ emulator.closed \in BOOLEAN /\ emulator.odd \in BOOLEAN /\ ToCome \in Seq(Letters)
      /\ emulator.wants \in Letters \cup {"none"}
      /\ At("operand") \in BOOLEAN /\ Pending \in BOOLEAN
  BY <1>1 DEF Typed, ToCome, At, Pending, Awaits
<1>5. At("operand")' = At("operand") /\ Pending' = Pending /\ At("closed")' = At("closed")
        /\ server'.tag = server.tag
  BY <1>2 DEF At, Pending
<1>6. SUFFICES /\ mcuUp' \in Seq(Letters) /\ mcuDown' \in Seq(Letters)
               /\ emulator' \in [up : BOOLEAN, closed : BOOLEAN, out : Seq(Letters),
                                 wants : Letters \cup {"none"}, odd : BOOLEAN]
               /\ Requests'
  <2>. HIDE DEF Readers, Messages, Letters
  <2>. QED  BY <1>1, <1>2, <1>3, <1>6 DEF IInv, Typed, engineVars
<1>. HIDE DEF Letters
<1>7. CASE Connects
  <2>1. emulator' = [emulator EXCEPT !.up = TRUE] /\ mcuUp' = mcuUp /\ mcuDown' = mcuDown
    BY <1>7 DEF Connects
  <2>2. emulator'.out = emulator.out /\ emulator'.closed = emulator.closed
          /\ emulator'.odd = emulator.odd /\ emulator'.wants = emulator.wants
    BY <1>1, <2>1 DEF Typed
  <2>3. ToCome' = ToCome
    BY <2>1, <2>2 DEF ToCome
  <2>4. Requests'
    BY <1>1, <1>2, <1>5, <2>1, <2>2, <2>3 DEF Requests, Aligned, Awaited, EndsOnlyWithPeers, engineVars
  <2>. QED  BY <1>1, <1>4, <2>1, <2>4 DEF Typed
<1>8. CASE Asks
  <2>1. /\ ~emulator.closed /\ emulator.out = << >> /\ emulator.wants = "none"
        /\ mcuUp' = mcuUp /\ mcuDown' = mcuDown
    BY <1>8 DEF Asks
  <2>2. PICK tag \in Asked :
          emulator' = [emulator EXCEPT !.out = Request(tag), !.odd = @ \/ tag \notin Tags,
                                       !.wants = IF Awaits(tag) THEN tag ELSE "none"]
    BY <1>8 DEF Asks
  <2>3. Request(tag) \in Seq(Letters) /\ tag \in Letters
    BY RequestLetters
  <2>. DEFINE wants == IF Awaits(tag) THEN tag ELSE "none"
  <2>4. emulator'.out = Request(tag) /\ emulator'.closed = emulator.closed
          /\ emulator'.odd = (emulator.odd \/ tag \notin Tags) /\ emulator'.wants = wants
          /\ emulator' \in [up : BOOLEAN, closed : BOOLEAN, out : Seq(Letters),
                            wants : Letters \cup {"none"}, odd : BOOLEAN]
    BY <1>1, <2>2, <2>3 DEF Typed
  <2>5. ToCome = mcuUp /\ ToCome' = mcuUp \o Request(tag)
    BY <1>4, <2>1, <2>4 DEF ToCome
  <2>6. Aligned(mcuUp, At("operand"), FALSE, emulator.odd)
          /\ Awaited(mcuUp, "none", mcuDown, Pending, server.tag)
    BY <1>1, <2>1, <2>5 DEF Requests, Aligned
  <2>7. Aligned(mcuUp \o Request(tag), At("operand"), FALSE, emulator.odd \/ tag \notin Tags)
    BY <1>4, <2>6, AlignedRequest
  <2>8. Awaited(mcuUp \o Request(tag), wants, mcuDown, Pending, server.tag)
    BY <1>4, <2>6, AwaitedRequest
  <2>. HIDE DEF wants
  <2>9. Aligned(ToCome, At("operand"), emulator.closed, emulator.odd)'
    BY <1>5, <2>1, <2>4, <2>5, <2>7 DEF Aligned
  <2>10. Awaited(ToCome, emulator.wants, mcuDown, Pending, server.tag)'
    BY <1>5, <2>1, <2>4, <2>5, <2>8 DEF Awaited
  <2>11. Requests'
    BY <1>1, <1>2, <1>5, <2>1, <2>4, <2>9, <2>10 DEF Requests, EndsOnlyWithPeers, engineVars
  <2>. QED  BY <1>4, <2>1, <2>4, <2>11
<1>9. CASE EmulatorWrites
  <2>1. PICK k \in Writes(emulator.out, mcuUp) :
          /\ mcuUp' = mcuUp \o First(emulator.out, k)
          /\ emulator' = [emulator EXCEPT !.out = Rest(@, k)]
    BY <1>9 DEF EmulatorWrites
  <2>2. ~emulator.closed /\ mcuDown' = mcuDown
    BY <1>9 DEF EmulatorWrites
  <2>. DEFINE a == First(emulator.out, k)
              b == Rest(emulator.out, k)
  <2>3. k \in Nat /\ k <= Len(emulator.out)
    BY <1>4, FramingAssumption DEF Writes, Least
  <2>4. a \in Seq(Letters) /\ b \in Seq(Letters) /\ a \o b = emulator.out
    BY <1>4, <2>3, Cut
  <2>. HIDE DEF a, b
  <2>5. (mcuUp \o a) \o b = ToCome /\ mcuUp \o a \in Seq(Letters)
    <3>1. mcuUp \in Seq(Letters) /\ a \in Seq(Letters) /\ b \in Seq(Letters)
      BY <1>4, <2>4
    <3>2. (mcuUp \o a) \o b = mcuUp \o (a \o b) /\ mcuUp \o a \in Seq(Letters)
      BY ONLY <3>1, SMTT(60)
    <3>. QED  BY <2>4, <3>2 DEF ToCome
  <2>6. emulator'.out = b /\ emulator'.closed = emulator.closed
          /\ emulator'.odd = emulator.odd /\ emulator'.wants = emulator.wants
          /\ emulator' \in [up : BOOLEAN, closed : BOOLEAN, out : Seq(Letters),
                            wants : Letters \cup {"none"}, odd : BOOLEAN]
    BY <1>1, <2>1, <2>4 DEF Typed, b
  <2>7. ToCome' = ToCome
    BY <2>1, <2>5, <2>6 DEF ToCome, a
  <2>8. Requests'
    BY <1>1, <1>2, <1>5, <2>2, <2>6, <2>7 DEF Requests, Aligned, Awaited, EndsOnlyWithPeers, engineVars
  <2>. QED  BY <1>4, <2>1, <2>2, <2>5, <2>6, <2>8 DEF a
<1>10. CASE EmulatorReads
  <2>1. /\ mcuDown # << >> /\ mcuDown' = Tail(mcuDown) /\ mcuUp' = mcuUp
        /\ emulator' = [emulator EXCEPT !.wants = "none"]
    BY <1>10 DEF EmulatorReads
  <2>2. emulator'.out = emulator.out /\ emulator'.closed = emulator.closed
          /\ emulator'.odd = emulator.odd /\ emulator'.wants = "none"
          /\ emulator' \in [up : BOOLEAN, closed : BOOLEAN, out : Seq(Letters),
                            wants : Letters \cup {"none"}, odd : BOOLEAN]
    BY <1>1, <2>1 DEF Typed
  <2>3. ToCome' = ToCome
    BY <2>1, <2>2 DEF ToCome
  <2>4. Awaited(ToCome, emulator.wants, mcuDown, Pending, server.tag)
    BY <1>1 DEF Requests
  <2>5. Awaited(ToCome, "none", Tail(mcuDown), Pending, server.tag)
    BY <1>4, <2>1, <2>4, AwaitedRead
  <2>6. Tail(mcuDown) \in Seq(Letters)
    BY <1>4, <2>1, HeadTailProperties
  <2>7. Awaited(ToCome, emulator.wants, mcuDown, Pending, server.tag)'
    BY <1>5, <2>1, <2>2, <2>3, <2>5 DEF Awaited
  <2>8. Requests'
    BY <1>1, <1>2, <1>5, <2>2, <2>3, <2>7 DEF Requests, Aligned, EndsOnlyWithPeers, engineVars
  <2>. QED  BY <1>4, <2>1, <2>2, <2>6, <2>8
<1>11. CASE EmulatorQuits
  <2>1. /\ ~emulator.closed /\ mcuDown' = mcuDown /\ mcuUp' = mcuUp
        /\ emulator' = [emulator EXCEPT !.closed = TRUE, !.out = << >>]
    BY <1>11 DEF EmulatorQuits
  <2>2. emulator'.out = << >> /\ emulator'.closed = TRUE
          /\ emulator'.odd = emulator.odd /\ emulator'.wants = emulator.wants
          /\ emulator' \in [up : BOOLEAN, closed : BOOLEAN, out : Seq(Letters),
                            wants : Letters \cup {"none"}, odd : BOOLEAN]
    <3>1. << >> \in Seq(Letters)
      BY EmptySeq
    <3>. QED  BY <1>1, <2>1, <3>1 DEF Typed
  <2>3. ToCome' = mcuUp
    BY <1>4, <2>1, <2>2 DEF ToCome
  <2>4. Aligned(mcuUp \o emulator.out, At("operand"), emulator.closed, emulator.odd)
          /\ Awaited(mcuUp \o emulator.out, emulator.wants, mcuDown, Pending, server.tag)
    BY <1>1 DEF Requests, ToCome
  <2>5. Aligned(mcuUp, At("operand"), TRUE, emulator.odd)
    <3>1. Aligned(mcuUp \o emulator.out, At("operand"), FALSE, emulator.odd)
      BY <2>1, <2>4 DEF Aligned
    <3>. QED  BY <1>4, <3>1, AlignedCut
  <2>6. Awaited(mcuUp, emulator.wants, mcuDown, Pending, server.tag)
    BY <1>4, <2>4, AwaitedCut
  <2>7. Aligned(ToCome, At("operand"), emulator.closed, emulator.odd)'
    BY <1>5, <2>2, <2>3, <2>5 DEF Aligned
  <2>8. Awaited(ToCome, emulator.wants, mcuDown, Pending, server.tag)'
    BY <1>5, <2>1, <2>2, <2>3, <2>6 DEF Awaited
  <2>9. Requests'
    BY <1>1, <1>2, <1>5, <2>2, <2>7, <2>8 DEF Requests, EndsOnlyWithPeers, engineVars
  <2>. QED  BY <1>4, <2>1, <2>2, <2>9
<1>. QED  BY <1>7, <1>8, <1>9, <1>10, <1>11 DEF Emulator

-----------------------------------------------------------------------------
\* The server's half of the engine's socket.

\* Short payloads fit any header.
LEMMA ShortFits ==
  ASSUME NEW kind \in Nat, NEW payload \in Seq(Nat), Len(payload) <= 1
  PROVE  Message(kind, payload) \in Messages
PROOF
<1>1. 1 < Base * Base
  <2>1. Base \in Nat /\ Base > 1
    BY FramingAssumption
  <2>2. \A b \in Nat : b > 1 => 1 < b * b
    OBVIOUS
  <2>. QED  BY <2>1, <2>2
<1>2. Len(payload) \in Nat /\ Base * Base \in Nat
  BY FramingAssumption
<1>3. Len(payload) < Base * Base
  BY <1>1, <1>2
<1>. QED  BY <1>3 DEF Messages, Message

\* While it is busy with the engine nothing of the requests moves, and if it ends the
\* engine has gone.
LEMMA BusyKeepsRequests ==
  ASSUME IInv, ServerReads \/ ServerAsksPayload \/ EngineGone \/ Handle \/ WriteMsg
                 \/ ServerWrites \/ WriteFails
  PROVE  Requests' /\ emulatorVars' = emulatorVars /\ engine' = engine
PROOF
<1>1. Typed /\ Requests
  BY DEF IInv
<1>2. emulatorVars' = emulatorVars /\ engine' = engine
  BY DEF ServerReads, ServerAsksPayload, EngineGone, Handle, WriteMsg, ServerWrites, WriteFails,
         engineVars
<1>3. server.pc = "engine"
  BY DEF ServerReads, ServerAsksPayload, EngineGone, Handle, WriteMsg, ServerWrites, WriteFails,
         Free, At
<1>4. server'.tag = server.tag /\ server'.pc \in {"engine", "poll", "closed"}
        /\ (server'.pc = "closed" => engine.closed)
  <2>. HIDE DEF Readers, Messages, Letters
  <2>1. CASE ServerReads
    BY <1>1, <1>3, <2>1 DEF ServerReads, Typed
  <2>2. CASE ServerAsksPayload
    BY <1>1, <1>3, <2>2 DEF ServerAsksPayload, Typed
  <2>3. CASE EngineGone
    BY <1>1, <1>3, <2>3 DEF EngineGone, EngineAway, Ends, Goes, Typed
  <2>4. CASE Handle
    BY <1>1, <1>3, <2>4 DEF Handle, Typed
  <2>5. CASE WriteMsg
    BY <1>1, <1>3, <2>5 DEF WriteMsg, Typed
  <2>6. CASE ServerWrites
    BY <1>1, <1>3, <2>6 DEF ServerWrites, Wrote, Typed
  <2>7. CASE WriteFails
    BY <1>1, <1>3, <2>7 DEF WriteFails, Wrote, Typed
  <2>. QED  BY <2>1, <2>2, <2>3, <2>4, <2>5, <2>6, <2>7
<1>5. Requests'
  BY <1>1, <1>2, <1>3, <1>4, RequestsFrame DEF At
<1>. QED  BY <1>2, <1>5

\* It reads a message.
LEMMA ReadingKeeps ==
  ASSUME IInv, ServerReads \/ ServerAsksPayload \/ EngineGone
  PROVE  IInv'
PROOF
<1>1. Typed /\ UpFlow /\ DownFlow
  BY DEF IInv
<1>2. Requests' /\ emulatorVars' = emulatorVars /\ engine' = engine
  BY BusyKeepsRequests
<1>3. /\ server.in \in Readers /\ up \in Seq(Nat) /\ engine.out \in Seq(Nat)
      /\ Flow(past.upSent, past.upGot, server.in, up, engine.out, engine.closed)
  BY <1>1 DEF Typed, UpFlow
<1>4. SUFFICES ASSUME NEW r \in Readers, NEW sock \in Seq(Nat), up' = sock,
                      server' = [server EXCEPT !.in = r] \/ (r = server.in /\ Ends),
                      down' = down, past' = past,
                      Flow(past.upSent, past.upGot, r, sock, engine.out, engine.closed)
               PROVE  IInv'
  <2>1. CASE ServerReads
    <3>1. PICK k \in Reads(server.in, up) :
            /\ server' = [server EXCEPT !.in = Took(@, First(up, k))]
            /\ up' = Rest(up, k)
      BY <2>1 DEF ServerReads
    <3>2. server' = [server EXCEPT !.in = Took(server.in, First(up, k))]
      BY <1>1, <3>1 DEF Typed
    <3>3. /\ Took(server.in, First(up, k)) \in Readers /\ Rest(up, k) \in Seq(Nat)
          /\ Flow(past.upSent, past.upGot, Took(server.in, First(up, k)), Rest(up, k), engine.out,
                  engine.closed)
      BY <1>3, FlowRead
    <3>. QED  BY <1>4, <2>1, <3>1, <3>2, <3>3 DEF ServerReads
  <2>2. CASE ServerAsksPayload
    <3>1. AtPayload(server.in) /\ UNCHANGED engineVars
            /\ server' = [server EXCEPT !.in.need = Length(server.in)]
      BY <2>2 DEF ServerAsksPayload
    <3>. DEFINE r == [server.in EXCEPT !.need = Length(server.in)]
    <3>2. server' = [server EXCEPT !.in = r]
      BY <1>1, <3>1 DEF Typed
    <3>3. r \in Readers /\ Flow(past.upSent, past.upGot, r, up, engine.out, engine.closed)
      BY <1>3, <3>1, FlowAsks
    <3>. HIDE DEF r
    <3>. QED  BY <1>3, <1>4, <3>1, <3>2, <3>3 DEF engineVars
  <2>3. CASE EngineGone
    BY <1>3, <1>4, <2>3 DEF EngineGone, engineVars
  <2>. QED  BY <2>1, <2>2, <2>3
<1>. HIDE DEF Readers, Messages, Letters
<1>5. /\ server'.in = r /\ server'.out = server.out
      /\ server' \in [pc : Pcs, due : BOOLEAN, tag : Letters \cup {"none"}, packet : {<< >>, << 1 >>},
                      in : Readers, out : Seq(Nat), todo : Seq(Messages)]
  BY <1>1, <1>4 DEF Typed, Ends, Goes, Pcs
<1>6. Typed'
  BY <1>1, <1>2, <1>4, <1>5 DEF Typed, emulatorVars
<1>7. UpFlow' /\ DownFlow'
  BY <1>1, <1>2, <1>4, <1>5 DEF UpFlow, DownFlow
<1>. QED  BY <1>2, <1>6, <1>7 DEF IInv

\* It acts on a message: what it got is what the engine sent.
LEMMA HandleKeeps ==
  ASSUME IInv, Handle
  PROVE  /\ IInv'
         /\ past' = [past EXCEPT !.upGot = Append(@, past.upSent[Len(past.upGot) + 1])]
         /\ Len(past.upGot) < Len(past.upSent)
PROOF
<1>. DEFINE m == Decoded(server.in)
<1>1. Typed /\ UpFlow /\ DownFlow
  BY DEF IInv
<1>2. Requests' /\ emulatorVars' = emulatorVars /\ engine' = engine
  BY BusyKeepsRequests
<1>3. /\ Whole(server.in) /\ UNCHANGED <<engine, up, down, emulatorVars>>
      /\ server' = IF IsTick(m)
                    THEN [server EXCEPT !.in = Reader, !.packet = << >>, !.todo = Replies(m.payload)]
                    ELSE [server EXCEPT !.in = Reader, !.pc = "poll"]
      /\ past' = [past EXCEPT !.upGot = Append(@, m)]
  BY DEF Handle
<1>4. /\ Len(past.upGot) < Len(past.upSent) /\ m = past.upSent[Len(past.upGot) + 1]
      /\ m \in Messages
      /\ Flow(past.upSent, Append(past.upGot, m), Reader, up, engine.out, engine.closed)
  BY <1>1, <1>3, FlowDecode DEF Typed, UpFlow
<1>. HIDE DEF m
<1>5. Reader \in Readers
  BY EmptySeq DEF Reader, Readers
<1>6. IsTick(m) => Replies(m.payload) \in Seq(Messages)
  <2>. SUFFICES ASSUME IsTick(m) PROVE Replies(m.payload) \in Seq(Messages)
    OBVIOUS
  <2>1. m.payload \in Seq(Nat) /\ Len(m.payload) <= 1
    BY <1>4 DEF Messages, IsTick
  <2>2. Message(kAck, m.payload) \in Messages
    BY <2>1, ShortFits DEF kAck
  <2>3. Message(kRadioStats, << 0 >>) \in Messages
    <3>1. << 0 >> \in Seq(Nat) /\ Len(<< 0 >>) <= 1 /\ kRadioStats \in Nat
      BY DEF kRadioStats
    <3>. QED  BY <3>1, ShortFits
  <2>4. Message(kFrame, server.packet) \in Messages
    <3>1. server.packet \in Seq(Nat) /\ Len(server.packet) <= 1 /\ kFrame \in Nat
      <4>1. server.packet \in {<< >>, << 1 >>}
        BY <1>1 DEF Typed
      <4>2. << >> \in Seq(Nat) /\ Len(<< >>) = 0 /\ << 1 >> \in Seq(Nat) /\ Len(<< 1 >>) = 1
        OBVIOUS
      <4>3. CASE server.packet = << >>
        BY <4>2, <4>3 DEF kFrame
      <4>4. CASE server.packet = << 1 >>
        BY <4>2, <4>4 DEF kFrame
      <4>. QED  BY <4>1, <4>3, <4>4
    <3>. QED  BY <3>1, ShortFits
  <2>. HIDE DEF Messages, Message
  <2>. QED  BY <2>2, <2>3, <2>4 DEF Replies
<1>7. Typed'
  <2>. HIDE DEF Readers, Messages, Letters, Reader
  <2>1. server' \in [pc : Pcs, due : BOOLEAN, tag : Letters \cup {"none"}, packet : {<< >>, << 1 >>},
                     in : Readers, out : Seq(Nat), todo : Seq(Messages)]
    <3>1. CASE IsTick(m)
      BY <1>1, <1>3, <1>5, <1>6, <3>1 DEF Typed, Pcs
    <3>2. CASE ~IsTick(m)
      BY <1>1, <1>3, <1>5, <3>2 DEF Typed, Pcs
    <3>. QED  BY <3>1, <3>2
  <2>2. Append(past.upGot, m) \in Seq(Messages)
    BY <1>1, <1>4 DEF Typed
  <2>3. past' \in [upSent : Seq(Messages), upGot : Seq(Messages),
                   downSent : Seq(Messages), downGot : Seq(Messages)]
    BY <1>1, <1>3, <2>2 DEF Typed
  <2>. QED  BY <1>1, <1>3, <2>1, <2>3 DEF Typed, emulatorVars
<1>8. UpFlow' /\ DownFlow'
  <2>. HIDE DEF Readers, Messages, Letters, Reader
  <2>1. server'.in = Reader /\ server'.out = server.out
    BY <1>1, <1>3 DEF Typed
  <2>2. past'.upSent = past.upSent /\ past'.upGot = Append(past.upGot, m)
          /\ past'.downSent = past.downSent /\ past'.downGot = past.downGot
    BY <1>1, <1>3 DEF Typed
  <2>. QED  BY <1>1, <1>3, <1>4, <2>1, <2>2 DEF UpFlow, DownFlow
<1>. QED  BY <1>2, <1>3, <1>4, <1>7, <1>8 DEF IInv

\* It writes a message, or loses what it had begun with the engine gone.
LEMMA WritingKeeps ==
  ASSUME IInv, WriteMsg \/ ServerWrites \/ WriteFails
  PROVE  IInv'
PROOF
<1>1. Typed /\ UpFlow /\ DownFlow
  BY DEF IInv
<1>2. Requests' /\ emulatorVars' = emulatorVars /\ engine' = engine
  BY BusyKeepsRequests
<1>3. /\ engine.in \in Readers /\ down \in Seq(Nat) /\ server.out \in Seq(Nat)
      /\ engine.closed \in BOOLEAN /\ past.downSent \in Seq(Messages) /\ past.downGot \in Seq(Messages)
      /\ server.todo \in Seq(Messages)
  BY <1>1 DEF Typed
<1>4. SUFFICES /\ up' = up /\ server'.in = server.in /\ down' \in Seq(Nat)
               /\ server' \in [pc : Pcs, due : BOOLEAN, tag : Letters \cup {"none"},
                               packet : {<< >>, << 1 >>}, in : Readers, out : Seq(Nat),
                               todo : Seq(Messages)]
               /\ past' \in [upSent : Seq(Messages), upGot : Seq(Messages),
                             downSent : Seq(Messages), downGot : Seq(Messages)]
               /\ past'.upSent = past.upSent /\ past'.upGot = past.upGot
               /\ DownFlow'
  <2>. HIDE DEF Readers, Messages, Letters
  <2>1. Typed'
    BY <1>1, <1>2, <1>4 DEF Typed, emulatorVars
  <2>2. UpFlow'
    BY <1>1, <1>2, <1>4 DEF UpFlow
  <2>. QED  BY <1>2, <1>4, <2>1, <2>2 DEF IInv
<1>. HIDE DEF Readers, Messages, Letters
<1>5. CASE WriteMsg
  <2>. DEFINE m == Head(server.todo)
  <2>1. /\ server.out = << >> /\ server.todo # << >> /\ UNCHANGED <<engine, up, down>>
        /\ server' = [server EXCEPT !.out = Encode(m), !.todo = Tail(@)]
        /\ past' = [past EXCEPT !.downSent = Append(@, m)]
    BY <1>5 DEF WriteMsg
  <2>2. m \in Messages /\ Tail(server.todo) \in Seq(Messages) /\ Append(past.downSent, m) \in Seq(Messages)
    BY <1>3, <2>1, HeadTailProperties
  <2>. HIDE DEF m
  <2>3. Encode(m) \in Seq(Nat)
    BY <2>2, EncodeBytes
  <2>4. /\ server'.in = server.in /\ server'.out = Encode(m)
        /\ server' \in [pc : Pcs, due : BOOLEAN, tag : Letters \cup {"none"},
                        packet : {<< >>, << 1 >>}, in : Readers, out : Seq(Nat),
                        todo : Seq(Messages)]
    BY <1>1, <2>1, <2>2, <2>3 DEF Typed
  <2>5. /\ past'.upSent = past.upSent /\ past'.upGot = past.upGot
        /\ past'.downSent = Append(past.downSent, m) /\ past'.downGot = past.downGot
        /\ past' \in [upSent : Seq(Messages), upGot : Seq(Messages),
                      downSent : Seq(Messages), downGot : Seq(Messages)]
    BY <1>1, <2>1, <2>2 DEF Typed
  <2>6. ASSUME ~engine.closed
        PROVE  Flow(Append(past.downSent, m), past.downGot, engine.in, down, Encode(m), FALSE)
    <3>1. Flow(past.downSent, past.downGot, engine.in, down, << >>, FALSE)
      BY <1>1, <2>1, <2>6 DEF DownFlow
    <3>. QED  BY <1>3, <2>2, <3>1, FlowSend
  <2>7. DownFlow'
    BY <2>1, <2>4, <2>5, <2>6 DEF DownFlow
  <2>. QED  BY <1>3, <2>1, <2>4, <2>5, <2>7
<1>6. CASE ServerWrites
  <2>1. PICK k \in Writes(server.out, down) :
          /\ down' = down \o First(server.out, k)
          /\ server' = [server EXCEPT !.out = Rest(@, k), !.pc = Wrote(Rest(server.out, k))]
    BY <1>6 DEF ServerWrites
  <2>2. ~engine.closed /\ UNCHANGED <<engine, up, past>>
    BY <1>6 DEF ServerWrites
  <2>3. Flow(past.downSent, past.downGot, engine.in, down, server.out, FALSE)
    BY <1>1, <2>2 DEF DownFlow
  <2>4. /\ down \o First(server.out, k) \in Seq(Nat) /\ Rest(server.out, k) \in Seq(Nat)
        /\ Flow(past.downSent, past.downGot, engine.in, down \o First(server.out, k),
                Rest(server.out, k), FALSE)
    BY <1>3, <2>3, FlowWrite
  <2>5. /\ server'.in = server.in /\ server'.out = Rest(server.out, k)
        /\ server' \in [pc : Pcs, due : BOOLEAN, tag : Letters \cup {"none"},
                        packet : {<< >>, << 1 >>}, in : Readers, out : Seq(Nat),
                        todo : Seq(Messages)]
    BY <1>1, <2>1, <2>4 DEF Typed, Wrote, Pcs
  <2>6. DownFlow'
    BY <2>1, <2>2, <2>4, <2>5 DEF DownFlow
  <2>. QED  BY <1>1, <2>1, <2>2, <2>4, <2>5, <2>6 DEF Typed
<1>7. CASE WriteFails
  <2>1. PICK pc \in {Wrote(<< >>)} \cup (IF server.todo = << >> THEN {"closed"} ELSE {}) :
          server' = [server EXCEPT !.out = << >>, !.pc = pc]
    BY <1>7 DEF WriteFails
  <2>2. engine.closed /\ UNCHANGED engineVars
    BY <1>7 DEF WriteFails
  <2>3. pc \in Pcs /\ << >> \in Seq(Nat)
    BY DEF Wrote, Pcs
  <2>4. /\ server'.in = server.in
        /\ server' \in [pc : Pcs, due : BOOLEAN, tag : Letters \cup {"none"},
                        packet : {<< >>, << 1 >>}, in : Readers, out : Seq(Nat),
                        todo : Seq(Messages)]
    BY <1>1, <2>1, <2>3 DEF Typed
  <2>5. DownFlow'
    BY <2>2 DEF DownFlow, engineVars
  <2>. QED  BY <1>1, <2>2, <2>4, <2>5 DEF Typed, engineVars
<1>. QED  BY <1>5, <1>6, <1>7

-----------------------------------------------------------------------------
\* The engine's half.

\* Nothing it does is seen in the other socket.
LEMMA EngineKeepsRequests ==
  ASSUME IInv, Turn(EngineMoves)
  PROVE  Requests' /\ UNCHANGED <<server, emulatorVars>>
PROOF
<1>1. Typed /\ Requests /\ UNCHANGED <<server, emulatorVars>>
  BY DEF IInv, Turn
<1>2. engine.closed => engine'.closed
  BY <1>1 DEF Turn, EngineMoves, EngineListens, SendsOther, SendsTick, EngineWrites, EngineReads,
              EngineAsksPayload, EngineDecodes, HangsUp, Sends, Typed
<1>3. Requests'
  BY <1>1, <1>2, RequestsFrame DEF Requests, EndsOnlyWithPeers, At
<1>. QED  BY <1>1, <1>3

\* Messages of any length.
AnyMessages == [kind : Nat, payload : Seq(Nat)]

LEMMA AnyLength ==
  ASSUME NEW s \in Seq(Messages)
  PROVE  s \in Seq(AnyMessages)
<1>1. \A m \in Messages : m \in AnyMessages
  BY DEF Messages, AnyMessages
<1>. HIDE DEF Messages, AnyMessages
<1>. QED  BY <1>1

\* The engine's end and what has passed, whoever is at the other.  What it gets is as yet
\* anything.
EngineHalf ==
  /\ engine \in [out : Seq(Nat), in : Readers, sim : Nat, waiting : BOOLEAN, others : Nat,
                 closed : BOOLEAN]
  /\ up \in Seq(Nat) /\ down \in Seq(Nat)
  /\ past \in [upSent : Seq(Messages), upGot : Seq(Messages),
               downSent : Seq(AnyMessages), downGot : {past.downGot}]

\* A reader that has taken some bytes, or knows how long the payload is.
LEMMA TookReader ==
  ASSUME NEW r \in Readers, NEW sock \in Seq(Nat), NEW k \in Reads(r, sock)
  PROVE  Took(r, First(sock, k)) \in Readers /\ Rest(sock, k) \in Seq(Nat)
<1>1. /\ r.got \in Seq(Nat) /\ r.need \in Nat /\ k \in Nat /\ k <= r.need /\ k <= Len(sock)
  <2>1. Len(sock) \in Nat /\ r.need \in Nat /\ r.got \in Seq(Nat)
    BY DEF Readers
  <2>. QED  BY <2>1 DEF Reads, Least
<1>2. First(sock, k) \in Seq(Nat) /\ Rest(sock, k) \in Seq(Nat) /\ Len(First(sock, k)) = k
  BY <1>1, Cut
<1>3. r.got \o First(sock, k) \in Seq(Nat) /\ r.need - k \in Nat
  BY <1>1, <1>2
<1>. QED  BY <1>2, <1>3 DEF Took, Readers

LEMMA AsksReader ==
  ASSUME NEW r \in Readers, AtPayload(r)
  PROVE  [r EXCEPT !.need = Length(r)] \in Readers
<1>1. r.got \in Seq(Nat) /\ Len(r.got) = 3
  BY DEF Readers, AtPayload
<1>2. r.got[2] \in Nat /\ r.got[3] \in Nat /\ Base \in Nat
  BY <1>1, FramingAssumption
<1>3. Length(r) \in Nat
  BY <1>2 DEF Length
<1>. QED  BY <1>3 DEF Readers

\* What a step of the engine's does to the messages that have passed, and to what it knows
\* of time: it sends a message that is no tick, or a tick; it gets a message; or none of
\* these.
SentOther(m) ==
  /\ past' = [past EXCEPT !.upSent = Append(@, m)] /\ TickOf(m) = << >>
  /\ engine'.sim = engine.sim /\ engine'.waiting = engine.waiting /\ engine'.closed = FALSE
SentTick(m, k) ==
  /\ past' = [past EXCEPT !.upSent = Append(@, m)] /\ m = Message(kTick, << engine.sim + k >>)
  /\ ~engine.waiting /\ engine'.waiting = TRUE
  /\ engine'.sim = engine.sim + k /\ engine'.closed = FALSE
GotMessage ==
  /\ past' = [past EXCEPT !.downGot = Append(@, Decoded(engine.in))] /\ Whole(engine.in)
  /\ engine'.sim = engine.sim
  /\ engine'.waiting = (engine.waiting /\ Decoded(engine.in).kind # kAck)
  /\ engine'.closed = FALSE
Silent ==
  /\ past' = past
  /\ engine'.sim = engine.sim /\ engine'.waiting = engine.waiting
  /\ engine.closed => engine'.closed

LEMMA EngineHistory ==
  ASSUME EngineHalf, EngineMoves
  PROVE  \/ ~engine.closed /\ \E m \in Messages : SentOther(m)
         \/ ~engine.closed /\ \E k \in EngineLumps : \E m \in Messages : SentTick(m, k)
         \/ ~engine.closed /\ GotMessage
         \/ Silent
<1>1. /\ engine \in [out : Seq(Nat), in : Readers, sim : Nat, waiting : BOOLEAN, others : Nat,
                     closed : BOOLEAN]
  BY DEF EngineHalf
<1>2. CASE SendsOther
  <2>1. PICK m \in Others :
          Sends(m) /\ engine' = [engine EXCEPT !.out = Encode(m), !.others = @ + 1]
    BY <1>2 DEF SendsOther
  <2>2. m \in Messages /\ TickOf(m) = << >>
    BY EngineEndAssumption DEF Messages, TickOf
  <2>. HIDE DEF Readers, Messages
  <2>3. engine'.sim = engine.sim /\ engine'.waiting = engine.waiting /\ engine'.closed = engine.closed
    BY <1>1, <2>1
  <2>. QED
    BY <1>1, <2>1, <2>2, <2>3 DEF Sends, SentOther
<1>3. CASE SendsTick
  <2>1. PICK k \in EngineLumps :
          /\ Sends(Message(kTick, << engine.sim + k >>))
          /\ engine' = [engine EXCEPT !.out = Encode(Message(kTick, << engine.sim + k >>)),
                                      !.waiting = TRUE, !.sim = @ + k]
    BY <1>3 DEF SendsTick
  <2>. DEFINE m == Message(kTick, << engine.sim + k >>)
  <2>2. ~engine.waiting
    BY <1>3 DEF SendsTick
  <2>3. m \in Messages
    <3>1. k \in Nat /\ engine.sim + k \in Nat
      BY <1>1, EngineEndAssumption
    <3>2. << engine.sim + k >> \in Seq(Nat) /\ Len(<< engine.sim + k >>) <= 1 /\ kTick \in Nat
      BY <3>1 DEF kTick
    <3>. QED
      BY <3>2, ShortFits
  <2>4. Sends(m) /\ engine' = [engine EXCEPT !.out = Encode(m), !.waiting = TRUE, !.sim = @ + k]
    BY <2>1
  <2>5. m = Message(kTick, << engine.sim + k >>)
    OBVIOUS
  <2>. HIDE DEF Readers, Messages, m
  <2>6. engine'.sim = engine.sim + k /\ engine'.waiting = TRUE /\ engine'.closed = engine.closed
    BY <1>1, <2>4
  <2>. QED
    BY <1>1, <2>2, <2>3, <2>4, <2>5, <2>6 DEF Sends, SentTick
<1>4. CASE EngineDecodes
  <2>. DEFINE m == Decoded(engine.in)
  <2>1. /\ ~engine.closed /\ Whole(engine.in)
        /\ engine' = [engine EXCEPT !.in = Reader, !.waiting = @ /\ m.kind # kAck]
        /\ past' = [past EXCEPT !.downGot = Append(@, m)]
    BY <1>4 DEF EngineDecodes
  <2>3. m = Decoded(engine.in)
    OBVIOUS
  <2>. HIDE DEF m, Readers, Reader
  <2>4. /\ engine'.sim = engine.sim /\ engine'.waiting = (engine.waiting /\ m.kind # kAck)
        /\ engine'.closed = engine.closed
    BY <1>1, <2>1
  <2>. QED
    BY <1>1, <2>1, <2>3, <2>4 DEF GotMessage
<1>5. CASE EngineWrites \/ EngineReads \/ EngineAsksPayload \/ HangsUp
  <2>. HIDE DEF Readers
  <2>. QED
    BY <1>1, <1>5 DEF EngineWrites, EngineReads, EngineAsksPayload, HangsUp, Silent
<1>. QED
  BY <1>2, <1>3, <1>4, <1>5 DEF EngineMoves, EngineListens

\* The way up, whoever reads it: a step of the engine's leaves it a stream of messages.
LEMMA EngineUpward ==
  ASSUME NEW r \in Readers, EngineHalf, EngineMoves,
         Flow(past.upSent, past.upGot, r, up, engine.out, engine.closed)
  PROVE  /\ EngineHalf'
         /\ Flow(past'.upSent, past'.upGot, r, up', engine'.out, engine'.closed)
<1>1. /\ engine.in \in Readers /\ up \in Seq(Nat) /\ down \in Seq(Nat) /\ engine.out \in Seq(Nat)
      /\ engine.closed \in BOOLEAN /\ engine.sim \in Nat /\ engine.others \in Nat
      /\ past.upSent \in Seq(Messages) /\ past.upGot \in Seq(Messages)
      /\ engine \in [out : Seq(Nat), in : Readers, sim : Nat, waiting : BOOLEAN, others : Nat,
                     closed : BOOLEAN]
      /\ past \in [upSent : Seq(Messages), upGot : Seq(Messages),
                   downSent : Seq(AnyMessages), downGot : {past.downGot}]
  BY DEF EngineHalf
<1>2. Reader \in Readers
  BY EmptySeq DEF Reader, Readers
<1>3. ASSUME NEW m \in Messages, Sends(m),
             engine' \in [out : {Encode(m)}, in : Readers, sim : Nat, waiting : BOOLEAN,
                         others : Nat, closed : {engine.closed}]
      PROVE  /\ EngineHalf'
             /\ Flow(past'.upSent, past'.upGot, r, up', engine'.out, engine'.closed)
  <2>1. ~engine.closed /\ engine.out = << >> /\ past' = [past EXCEPT !.upSent = Append(@, m)]
          /\ UNCHANGED <<up, down>>
    BY <1>3 DEF Sends
  <2>2. Flow(past.upSent, past.upGot, r, up, << >>, FALSE)
    BY <1>1, <2>1
  <2>3. Flow(Append(past.upSent, m), past.upGot, r, up, Encode(m), FALSE)
    BY <1>1, <1>3, <2>2, FlowSend
  <2>4. Append(past.upSent, m) \in Seq(Messages) /\ Encode(m) \in Seq(Nat)
    BY <1>1, <1>3, EncodeBytes
  <2>. HIDE DEF Readers, Messages, AnyMessages
  <2>5. /\ past'.upSent = Append(past.upSent, m) /\ past'.upGot = past.upGot
        /\ past' \in [upSent : Seq(Messages), upGot : Seq(Messages),
                      downSent : Seq(AnyMessages), downGot : {past'.downGot}]
    BY <1>1, <2>1, <2>4
  <2>6. /\ engine'.out = Encode(m) /\ engine'.closed = FALSE
        /\ engine' \in [out : Seq(Nat), in : Readers, sim : Nat, waiting : BOOLEAN,
                        others : Nat, closed : BOOLEAN]
    <3>1. engine.closed = FALSE
      BY <1>1, <2>1
    <3>2. engine'.out = Encode(m) /\ engine'.closed = FALSE
      BY <1>3, <3>1
    <3>. QED  BY <1>3, <2>4, <3>1, <3>2
  <2>. QED  BY <1>1, <2>1, <2>3, <2>5, <2>6 DEF EngineHalf
<1>4. CASE SendsOther
  <2>1. PICK m \in Others :
          Sends(m) /\ engine' = [engine EXCEPT !.out = Encode(m), !.others = @ + 1]
    BY <1>4 DEF SendsOther
  <2>2. m \in Messages
    BY EngineEndAssumption DEF Messages
  <2>. HIDE DEF Readers, Messages
  <2>3. engine.others + 1 \in Nat /\ engine.waiting \in BOOLEAN
    BY <1>1
  <2>4. engine' \in [out : {Encode(m)}, in : Readers, sim : Nat, waiting : BOOLEAN,
                     others : Nat, closed : {engine.closed}]
    BY <1>1, <2>1, <2>3
  <2>. QED  BY <1>3, <2>1, <2>2, <2>4
<1>5. CASE SendsTick
  <2>1. PICK k \in EngineLumps :
          /\ Sends(Message(kTick, << engine.sim + k >>))
          /\ engine' = [engine EXCEPT !.out = Encode(Message(kTick, << engine.sim + k >>)),
                                      !.waiting = TRUE, !.sim = @ + k]
    BY <1>5 DEF SendsTick
  <2>. DEFINE m == Message(kTick, << engine.sim + k >>)
  <2>2. k \in Nat /\ engine.sim + k \in Nat
    BY <1>1, EngineEndAssumption
  <2>3. m \in Messages
    <3>1. << engine.sim + k >> \in Seq(Nat) /\ Len(<< engine.sim + k >>) <= 1 /\ kTick \in Nat
      BY <2>2 DEF kTick
    <3>. QED  BY <3>1, ShortFits
  <2>4. Sends(m) /\ engine' = [engine EXCEPT !.out = Encode(m), !.waiting = TRUE, !.sim = @ + k]
    BY <2>1
  <2>. HIDE DEF Readers, Messages, m
  <2>5. engine' \in [out : {Encode(m)}, in : Readers, sim : Nat, waiting : BOOLEAN,
                     others : Nat, closed : {engine.closed}]
    BY <1>1, <2>2, <2>4
  <2>. QED  BY <1>3, <2>3, <2>4, <2>5
<1>6. CASE EngineWrites
  <2>1. PICK k \in Writes(engine.out, up) :
          /\ up' = up \o First(engine.out, k)
          /\ engine' = [engine EXCEPT !.out = Rest(@, k)]
    BY <1>6 DEF EngineWrites
  <2>2. UNCHANGED <<down, past>>
    BY <1>6 DEF EngineWrites
  <2>3. /\ up \o First(engine.out, k) \in Seq(Nat) /\ Rest(engine.out, k) \in Seq(Nat)
        /\ Flow(past.upSent, past.upGot, r, up \o First(engine.out, k),
                Rest(engine.out, k), engine.closed)
    BY <1>1, FlowWrite
  <2>. HIDE DEF Readers, Messages, AnyMessages
  <2>4. /\ engine'.out = Rest(engine.out, k) /\ engine'.closed = engine.closed
        /\ engine' \in [out : Seq(Nat), in : Readers, sim : Nat, waiting : BOOLEAN,
                        others : Nat, closed : BOOLEAN]
    BY <1>1, <2>1, <2>3
  <2>. QED  BY <1>1, <2>1, <2>2, <2>3, <2>4 DEF EngineHalf
<1>7. CASE EngineListens
  <2>1. /\ up' = up /\ past'.upSent = past.upSent /\ past'.upGot = past.upGot
        /\ past' \in [upSent : Seq(Messages), upGot : Seq(Messages),
                      downSent : Seq(AnyMessages), downGot : {past'.downGot}]
    <3>. HIDE DEF Readers, Messages, AnyMessages
    <3>. QED  BY <1>1, <1>7 DEF EngineListens, EngineReads, EngineAsksPayload, EngineDecodes
  <2>2. SUFFICES ASSUME NEW q \in Readers, NEW t \in BOOLEAN, down' \in Seq(Nat),
                        engine' = [engine EXCEPT !.in = q, !.waiting = t]
                 PROVE  /\ EngineHalf'
                        /\ engine'.out = engine.out /\ engine'.closed = engine.closed
    <3>1. CASE EngineReads
      <4>1. PICK k \in Reads(engine.in, down) :
              /\ engine' = [engine EXCEPT !.in = Took(@, First(down, k))]
              /\ down' = Rest(down, k)
        BY <3>1 DEF EngineReads
      <4>2. Took(engine.in, First(down, k)) \in Readers /\ Rest(down, k) \in Seq(Nat)
        BY <1>1, TookReader
      <4>. HIDE DEF Readers, Messages
      <4>3. engine' = [engine EXCEPT !.in = Took(engine.in, First(down, k)), !.waiting = engine.waiting]
        BY <1>1, <4>1
      <4>4. engine.waiting \in BOOLEAN
        BY <1>1
      <4>. QED  BY <1>1, <2>1, <2>2, <4>1, <4>2, <4>3, <4>4
    <3>2. CASE EngineAsksPayload
      <4>1. /\ AtPayload(engine.in) /\ down' = down
            /\ engine' = [engine EXCEPT !.in.need = Length(engine.in)]
        BY <3>2 DEF EngineAsksPayload
      <4>. DEFINE q == [engine.in EXCEPT !.need = Length(engine.in)]
      <4>2. q \in Readers
        BY <1>1, <4>1, AsksReader
      <4>3. engine' = [engine EXCEPT !.in = q, !.waiting = engine.waiting]
        <5>. HIDE DEF Readers, Messages
        <5>. QED  BY <1>1, <4>1
      <4>. HIDE DEF q, Readers, Messages
      <4>4. engine.waiting \in BOOLEAN
        BY <1>1
      <4>. QED  BY <1>1, <2>1, <2>2, <4>1, <4>2, <4>3, <4>4
    <3>3. CASE EngineDecodes
      <4>1. /\ down' = down
            /\ engine' = [engine EXCEPT !.in = Reader,
                                        !.waiting = @ /\ Decoded(engine.in).kind # kAck]
        BY <3>3 DEF EngineDecodes
      <4>. DEFINE t == engine.waiting /\ Decoded(engine.in).kind # kAck
      <4>2. engine' = [engine EXCEPT !.in = Reader, !.waiting = t]
        <5>. HIDE DEF Readers, Messages, Reader
        <5>. QED  BY <1>1, <4>1
      <4>3. t \in BOOLEAN
        BY <1>1
      <4>. HIDE DEF t, Readers, Messages, Reader
      <4>. QED  BY <1>1, <1>2, <2>1, <2>2, <4>1, <4>2, <4>3
    <3>. QED  BY <1>7, <3>1, <3>2, <3>3 DEF EngineListens
  <2>. HIDE DEF Readers, Messages, AnyMessages
  <2>3. /\ engine'.out = engine.out /\ engine'.closed = engine.closed
        /\ engine' \in [out : Seq(Nat), in : Readers, sim : Nat, waiting : BOOLEAN,
                        others : Nat, closed : BOOLEAN]
    BY <1>1, <2>2
  <2>. QED  BY <1>1, <2>1, <2>2, <2>3 DEF EngineHalf
<1>8. CASE HangsUp
  <2>1. UNCHANGED <<up, down, past>> /\ engine' = [engine EXCEPT !.closed = TRUE, !.out = << >>]
    BY <1>8 DEF HangsUp
  <2>2. Flow(past.upSent, past.upGot, r, up, << >>, TRUE)
    BY <1>1, FlowCut
  <2>3. << >> \in Seq(Nat)
    OBVIOUS
  <2>. HIDE DEF Readers, Messages, AnyMessages
  <2>4. /\ engine'.out = << >> /\ engine'.closed = TRUE
        /\ engine' \in [out : Seq(Nat), in : Readers, sim : Nat, waiting : BOOLEAN,
                        others : Nat, closed : BOOLEAN]
    BY <1>1, <2>1, <2>3
  <2>. QED  BY <1>1, <2>1, <2>2, <2>4 DEF EngineHalf
<1>. QED  BY <1>4, <1>5, <1>6, <1>7, <1>8 DEF EngineMoves

\* The way down, whoever writes it.
LEMMA EngineDownward ==
  ASSUME NEW out \in Seq(Nat), EngineHalf, EngineMoves,
         past.downSent \in Seq(Messages), past.downGot \in Seq(Messages),
         ~engine.closed => Flow(past.downSent, past.downGot, engine.in, down, out, FALSE)
  PROVE  /\ past'.downSent = past.downSent /\ past'.downGot \in Seq(Messages)
         /\ ~engine'.closed => Flow(past'.downSent, past'.downGot, engine'.in, down', out, FALSE)
<1>1. /\ engine.in \in Readers /\ down \in Seq(Nat) /\ engine.closed \in BOOLEAN
      /\ engine \in [out : Seq(Nat), in : Readers, sim : Nat, waiting : BOOLEAN, others : Nat,
                     closed : BOOLEAN]
      /\ past \in [upSent : Seq(Messages), upGot : Seq(Messages),
                   downSent : Seq(AnyMessages), downGot : {past.downGot}]
  BY DEF EngineHalf
<1>. HIDE DEF AnyMessages
<1>2. CASE SendsOther \/ SendsTick \/ EngineWrites
  <2>. HIDE DEF Readers, Messages
  <2>1. /\ engine'.in = engine.in /\ engine'.closed = engine.closed /\ down' = down
        /\ past'.downSent = past.downSent /\ past'.downGot = past.downGot
    BY <1>1, <1>2 DEF SendsOther, SendsTick, EngineWrites, Sends
  <2>. QED  BY <2>1
<1>3. CASE EngineReads
  <2>1. PICK k \in Reads(engine.in, down) :
          /\ engine' = [engine EXCEPT !.in = Took(@, First(down, k))]
          /\ down' = Rest(down, k)
    BY <1>3 DEF EngineReads
  <2>2. ~engine.closed /\ past' = past
    BY <1>3 DEF EngineReads
  <2>3. Flow(past.downSent, past.downGot, Took(engine.in, First(down, k)), Rest(down, k), out, FALSE)
    BY <1>1, <2>2, FlowRead
  <2>. HIDE DEF Readers, Messages
  <2>4. engine'.in = Took(engine.in, First(down, k))
    BY <1>1, <2>1
  <2>. QED  BY <2>1, <2>2, <2>3, <2>4
<1>4. CASE EngineAsksPayload
  <2>1. /\ ~engine.closed /\ AtPayload(engine.in) /\ past' = past /\ down' = down
        /\ engine' = [engine EXCEPT !.in.need = Length(engine.in)]
    BY <1>4 DEF EngineAsksPayload
  <2>. DEFINE q == [engine.in EXCEPT !.need = Length(engine.in)]
  <2>2. Flow(past.downSent, past.downGot, q, down, out, FALSE)
    BY <1>1, <2>1, FlowAsks
  <2>3. engine' = [engine EXCEPT !.in = q]
    BY <1>1, <2>1
  <2>. HIDE DEF Readers, Messages, q
  <2>4. engine'.in = q
    BY <1>1, <2>3
  <2>. QED  BY <2>1, <2>2, <2>4
<1>5. CASE EngineDecodes
  <2>. DEFINE m == Decoded(engine.in)
  <2>1. /\ ~engine.closed /\ Whole(engine.in) /\ down' = down
        /\ engine' = [engine EXCEPT !.in = Reader, !.waiting = @ /\ m.kind # kAck]
        /\ past' = [past EXCEPT !.downGot = Append(@, m)]
    BY <1>5 DEF EngineDecodes
  <2>2. m \in Messages /\ Flow(past.downSent, Append(past.downGot, m), Reader, down, out, FALSE)
    BY <1>1, <2>1, FlowDecode
  <2>. HIDE DEF Readers, Messages, Reader, m
  <2>3. /\ engine'.in = Reader
        /\ past'.downSent = past.downSent /\ past'.downGot = Append(past.downGot, m)
    BY <1>1, <2>1
  <2>4. Append(past.downGot, m) \in Seq(Messages)
    BY <2>2
  <2>. QED  BY <2>1, <2>2, <2>3, <2>4
<1>6. CASE HangsUp
  <2>1. past' = past /\ engine'.closed
    BY <1>1, <1>6 DEF HangsUp
  <2>. QED  BY <2>1
<1>. QED  BY <1>2, <1>3, <1>4, <1>5, <1>6 DEF EngineMoves, EngineListens

\* It sends, writes, listens and hangs up.
LEMMA EngineKeeps ==
  ASSUME IInv, Turn(EngineMoves)
  PROVE  IInv'
PROOF
<1>1. Typed /\ UpFlow /\ DownFlow
  BY DEF IInv
<1>2. Requests' /\ UNCHANGED <<server, emulatorVars>> /\ EngineMoves
  BY EngineKeepsRequests DEF Turn
<1>3. /\ server.in \in Readers /\ server.out \in Seq(Nat)
      /\ past.downSent \in Seq(Messages) /\ past.downGot \in Seq(Messages)
  BY <1>1 DEF Typed
<1>4. EngineHalf
  <2>1. past.downSent \in Seq(AnyMessages)
    BY <1>3, AnyLength
  <2>. HIDE DEF Readers, Messages, AnyMessages
  <2>. QED  BY <1>1, <2>1 DEF EngineHalf, Typed
<1>5. /\ EngineHalf'
      /\ Flow(past'.upSent, past'.upGot, server.in, up', engine'.out, engine'.closed)
  BY <1>1, <1>2, <1>3, <1>4, EngineUpward DEF UpFlow
<1>6. /\ past'.downSent = past.downSent /\ past'.downGot \in Seq(Messages)
      /\ ~engine'.closed
           => Flow(past'.downSent, past'.downGot, engine'.in, down', server.out, FALSE)
  BY <1>1, <1>2, <1>3, <1>4, EngineDownward DEF DownFlow
<1>7. UpFlow' /\ DownFlow'
  BY <1>2, <1>5, <1>6 DEF UpFlow, DownFlow
<1>8. Typed'
  <2>. HIDE DEF Readers, Messages, AnyMessages, Letters
  <2>1. past' \in [upSent : Seq(Messages), upGot : Seq(Messages),
                   downSent : Seq(Messages), downGot : Seq(Messages)]
    BY <1>3, <1>5, <1>6 DEF EngineHalf
  <2>. QED  BY <1>1, <1>2, <1>5, <2>1 DEF Typed, EngineHalf, emulatorVars
<1>. QED  BY <1>2, <1>7, <1>8 DEF IInv

\* Nothing moves.
LEMMA StutterKeeps ==
  ASSUME IInv, UNCHANGED vars
  PROVE  IInv'
PROOF
<1>1. UNCHANGED <<engineVars, server, emulatorVars>> /\ Typed /\ Requests /\ UpFlow /\ DownFlow
  BY DEF IInv, vars
<1>2. Requests'
  BY <1>1, RequestsFrame DEF Requests, EndsOnlyWithPeers, At, engineVars, emulatorVars
<1>3. UpFlow' /\ DownFlow'
  BY <1>1, FlowFrame
<1>4. Typed'
  BY <1>1 DEF Typed, engineVars, emulatorVars
<1>. QED  BY <1>2, <1>3, <1>4 DEF IInv

\* Every step keeps the invariant.
LEMMA IInvStep ==
  ASSUME IInv, [Next]_vars
  PROVE  IInv'
PROOF
<1>1. CASE Server
  BY <1>1, ServerAloneKeeps, ReadTagKeeps, ReadOperandKeeps, AnswerKeeps, ReadingKeeps,
     HandleKeeps, WritingKeeps DEF Server
<1>2. CASE Emulator
  BY <1>2, EmulatorKeeps
<1>3. CASE Turn(EngineMoves)
  BY <1>3, EngineKeeps
<1>4. CASE Gone \/ UNCHANGED vars
  BY <1>4, StutterKeeps DEF Gone
<1>. QED  BY <1>1, <1>2, <1>3, <1>4 DEF Next

-----------------------------------------------------------------------------
\* Both ends agree where each request ends: whatever order the two sockets are served
\* in and wherever a request is cut, an answer is only ever in the socket for the
\* request that waits for it.
THEOREM AnswersInStep == Spec => []AnswersMatch
PROOF
<1>1. IInv => AnswersMatch
  BY DEF IInv, Requests, Awaited, AnswersMatch
<1>. QED  BY <1>1, InitIInv, IInvStep, PTL DEF Spec

\* The server ends only with a peer or over a tag it does not know, whatever else the two
\* send it.
THEOREM EndsForAReason == Spec => []EndsOnlyWithPeers
PROOF
<1>1. IInv => EndsOnlyWithPeers
  BY DEF IInv, Requests
<1>. QED  BY <1>1, InitIInv, IInvStep, PTL DEF Spec

\* Nothing that is sent or got is but by Sends, Handle, WriteMsg and EngineDecodes, one
\* message at a time, and what is got is the next of what was sent.
LEMMA ChannelStep ==
  ASSUME IInv, [Next]_vars
  PROVE  [Up!Next]_(Up!vars) /\ [Down!Next]_(Down!vars)
PROOF
<1>1. Typed /\ UpFlow /\ DownFlow
  BY DEF IInv
<1>2. /\ past \in [upSent : Seq(Messages), upGot : Seq(Messages),
                   downSent : Seq(Messages), downGot : Seq(Messages)]
      /\ engine.in \in Readers /\ down \in Seq(Nat) /\ server.out \in Seq(Nat)
      /\ server.todo \in Seq(Messages)
  BY <1>1 DEF Typed
<1>. HIDE DEF Readers, Messages, Letters
<1>3. ASSUME NEW m, past' = [past EXCEPT !.upSent = Append(@, m)], m \in Messages
      PROVE  [Up!Next]_(Up!vars) /\ [Down!Next]_(Down!vars)
  <2>1. /\ past'.upSent = Append(past.upSent, m) /\ past'.upGot = past.upGot
        /\ past'.downSent = past.downSent /\ past'.downGot = past.downGot
    BY <1>2, <1>3
  <2>2. Len(Append(past.upSent, m)) = Len(past.upSent) + 1
          /\ SubSeq(Append(past.upSent, m), 1, Len(past.upSent)) = past.upSent
    BY <1>2, <1>3, AppendPrefix
  <2>. QED  BY <2>1, <2>2 DEF Up!Next, Up!Send, Up!vars, Down!vars
<1>4. ASSUME NEW m, past' = [past EXCEPT !.downSent = Append(@, m)], m \in Messages
      PROVE  [Up!Next]_(Up!vars) /\ [Down!Next]_(Down!vars)
  <2>1. /\ past'.upSent = past.upSent /\ past'.upGot = past.upGot
        /\ past'.downSent = Append(past.downSent, m) /\ past'.downGot = past.downGot
    BY <1>2, <1>4
  <2>2. Len(Append(past.downSent, m)) = Len(past.downSent) + 1
          /\ SubSeq(Append(past.downSent, m), 1, Len(past.downSent)) = past.downSent
    BY <1>2, <1>4, AppendPrefix
  <2>. QED  BY <2>1, <2>2 DEF Down!Next, Down!Send, Up!vars, Down!vars
<1>5. ASSUME past' = past
      PROVE  [Up!Next]_(Up!vars) /\ [Down!Next]_(Down!vars)
  BY <1>5 DEF Up!vars, Down!vars
<1>6. CASE Handle
  <2>1. past' = [past EXCEPT !.upGot = Append(@, past.upSent[Len(past.upGot) + 1])]
          /\ Len(past.upGot) < Len(past.upSent)
    BY <1>6, HandleKeeps
  <2>2. /\ past'.upGot = Append(past.upGot, past.upSent[Len(past.upGot) + 1])
        /\ past'.upSent = past.upSent
        /\ past'.downSent = past.downSent /\ past'.downGot = past.downGot
    BY <1>2, <2>1
  <2>. QED  BY <2>1, <2>2 DEF Up!Next, Up!Receive, Up!vars, Down!vars
<1>7. CASE Turn(EngineDecodes)
  <2>1. ~engine.closed /\ Whole(engine.in)
          /\ past' = [past EXCEPT !.downGot = Append(@, Decoded(engine.in))]
    BY <1>7 DEF Turn, EngineDecodes
  <2>2. Flow(past.downSent, past.downGot, engine.in, down, server.out, FALSE)
    BY <1>1, <2>1 DEF DownFlow
  <2>3. /\ Len(past.downGot) < Len(past.downSent)
        /\ Decoded(engine.in) = past.downSent[Len(past.downGot) + 1]
    BY <1>2, <2>1, <2>2, FlowDecode
  <2>4. /\ past'.downGot = Append(past.downGot, past.downSent[Len(past.downGot) + 1])
        /\ past'.downSent = past.downSent
        /\ past'.upSent = past.upSent /\ past'.upGot = past.upGot
    BY <1>2, <2>1, <2>3
  <2>. QED  BY <2>3, <2>4 DEF Down!Next, Down!Receive, Up!vars, Down!vars
<1>8. CASE WriteMsg
  <2>1. past' = [past EXCEPT !.downSent = Append(@, Head(server.todo))] /\ server.todo # << >>
    BY <1>8 DEF WriteMsg
  <2>2. Head(server.todo) \in Messages
    BY <1>2, <2>1, HeadTailProperties
  <2>. QED  BY <1>4, <2>1, <2>2
<1>9. CASE Turn(SendsOther)
  <2>1. PICK m \in Others : past' = [past EXCEPT !.upSent = Append(@, m)]
    BY <1>9 DEF Turn, SendsOther, Sends
  <2>2. m \in Messages
    BY EngineEndAssumption DEF Messages
  <2>. QED  BY <1>3, <2>1, <2>2
<1>10. CASE Turn(SendsTick)
  <2>1. PICK k \in EngineLumps :
          past' = [past EXCEPT !.upSent = Append(@, Message(kTick, << engine.sim + k >>))]
    BY <1>10 DEF Turn, SendsTick, Sends
  <2>2. Message(kTick, << engine.sim + k >>) \in Messages
    <3>1. engine.sim \in Nat /\ k \in Nat
      BY <1>1, EngineEndAssumption DEF Typed
    <3>2. << engine.sim + k >> \in Seq(Nat) /\ Len(<< engine.sim + k >>) <= 1 /\ kTick \in Nat
      BY <3>1 DEF kTick
    <3>. QED  BY <3>2, ShortFits
  <2>. QED  BY <1>3, <2>1, <2>2
<1>11. CASE Turn(EngineWrites) \/ Turn(EngineReads) \/ Turn(EngineAsksPayload) \/ Turn(HangsUp)
  <2>1. past' = past
    BY <1>11 DEF Turn, EngineWrites, EngineReads, EngineAsksPayload, HangsUp
  <2>. QED  BY <1>5, <2>1
<1>12. CASE Accept \/ Poll \/ ReadTag \/ ReadOperand \/ Answer \/ EmulatorGone
              \/ ServerReads \/ ServerAsksPayload \/ EngineGone \/ ServerWrites \/ WriteFails
  <2>1. past' = past
    BY <1>12 DEF Accept, Poll, ReadTag, ReadOperand, Answer, EmulatorGone, ServerReads,
                 ServerAsksPayload, EngineGone, ServerWrites, WriteFails, Takes, engineVars
  <2>. QED  BY <1>5, <2>1
<1>13. CASE Emulator \/ Gone \/ UNCHANGED vars
  <2>1. past' = past
    BY <1>13 DEF Emulator, Connects, Asks, EmulatorWrites, EmulatorReads, EmulatorQuits, Gone, vars,
                 engineVars
  <2>. QED  BY <1>5, <2>1
<1>. QED
  BY <1>6, <1>7, <1>8, <1>9, <1>10, <1>11, <1>12, <1>13
     DEF Next, Server, Turn, EngineMoves, EngineListens

\* However writes and reads are cut and wherever the engine hangs up, each direction of
\* its socket is a channel: messages arrive whole, once and in the order they were sent.
THEOREM SocketsAreChannels == Spec => KeepsChannels
PROOF
<1>1. Init => Up!Init /\ Down!Init
  BY DEF Init, EngineInit, Up!Init, Down!Init
<1>. QED
  BY <1>1, InitIInv, IInvStep, ChannelStep, PTL DEF Spec, KeepsChannels, Up!Spec, Down!Spec

-----------------------------------------------------------------------------
\* What some messages carry, put together, as a function of each.
PayloadIf(m, kind) == IF m.kind = kind THEN m.payload ELSE << >>
PayloadsOf(kind) == [m \in AnyMessages |-> PayloadIf(m, kind)]
AcksOf == [m \in AnyMessages |-> AckOf(m)]
TicksOf == [m \in AnyMessages |-> TickOf(m)]

LEMMA Carried ==
  ASSUME NEW s \in Seq(AnyMessages)
  PROVE  /\ \A kind \in Nat : Payloads(s, kind) = Gather(s, PayloadsOf(kind))
         /\ Acks(s) = Gather(s, AcksOf) /\ Ticks(s) = Gather(s, TicksOf)
<1>1. \A i \in 1..Len(s) : s[i] \in AnyMessages
  OBVIOUS
<1>. HIDE DEF AnyMessages
<1>2. ASSUME NEW kind \in Nat
      PROVE  Payloads(s, kind) = Gather(s, PayloadsOf(kind))
  BY <1>1 DEF Payloads, Gathered, Gather, PayloadsOf, PayloadIf
<1>3. Acks(s) = Gather(s, AcksOf)
  BY <1>1 DEF Acks, Gathered, Gather, AcksOf
<1>4. Ticks(s) = Gather(s, TicksOf)
  BY <1>1 DEF Ticks, Gathered, Gather, TicksOf
<1>. QED  BY <1>2, <1>3, <1>4

LEMMA CarriedTypes ==
  /\ \A kind \in Nat : PayloadsOf(kind) \in [AnyMessages -> Seq(Nat)]
  /\ AcksOf \in [AnyMessages -> Seq(Seq(Nat))] /\ TicksOf \in [AnyMessages -> Seq(Seq(Nat))]
<1>1. \A m \in AnyMessages : m.payload \in Seq(Nat)
  BY DEF AnyMessages
<1>. HIDE DEF AnyMessages
<1>2. ASSUME NEW B, NEW p \in B
      PROVE  << p >> \in Seq(B) /\ << >> \in Seq(B)
  OBVIOUS
<1>3. << >> \in Seq(Nat) /\ << >> \in Seq(Seq(Nat))
  BY EmptySeq
<1>4. \A m \in AnyMessages : << m.payload >> \in Seq(Seq(Nat))
  BY <1>1, <1>2
<1>5. \A kind \in Nat : PayloadsOf(kind) \in [AnyMessages -> Seq(Nat)]
  BY <1>1, <1>3 DEF PayloadsOf, PayloadIf
<1>6. AcksOf \in [AnyMessages -> Seq(Seq(Nat))]
  BY <1>3, <1>4 DEF AcksOf, AckOf
<1>7. TicksOf \in [AnyMessages -> Seq(Seq(Nat))]
  BY <1>3, <1>4 DEF TicksOf, TickOf
<1>. QED  BY <1>5, <1>6, <1>7

\* So each of them follows how the messages are put together.
LEMMA PayloadAlgebra ==
  ASSUME NEW kind \in Nat
  PROVE
  /\ Payloads(<< >>, kind) = << >>
  /\ \A s \in Seq(AnyMessages) : Payloads(s, kind) \in Seq(Nat)
  /\ \A m \in AnyMessages : PayloadIf(m, kind) \in Seq(Nat) /\ Payloads(<< m >>, kind) = PayloadIf(m, kind)
  /\ \A s \in Seq(AnyMessages), m \in AnyMessages : Payloads(Append(s, m), kind) = Payloads(s, kind) \o PayloadIf(m, kind)
  /\ \A s, t \in Seq(AnyMessages) : Payloads(s \o t, kind) = Payloads(s, kind) \o Payloads(t, kind)
<1>. DEFINE f == PayloadsOf(kind)
            A == Nat
<1>1. f \in [AnyMessages -> Seq(A)] /\ \A m \in AnyMessages : f[m] = PayloadIf(m, kind)
  BY CarriedTypes DEF PayloadsOf, PayloadIf
<1>. HIDE DEF f, AnyMessages
<1>2. /\ << >> \in Seq(AnyMessages) /\ \A m \in AnyMessages : << m >> \in Seq(AnyMessages)
      /\ \A s \in Seq(AnyMessages), m \in AnyMessages : Append(s, m) \in Seq(AnyMessages)
      /\ \A s, t \in Seq(AnyMessages) : s \o t \in Seq(AnyMessages)
  OBVIOUS
<1>3. \A q \in Seq(AnyMessages) : Payloads(q, kind) = Gather(q, f)
  BY Carried DEF f
<1>. HIDE DEF A
<1>4. Gather(<< >>, f) = << >>
  BY GatherNone
<1>5. \A s \in Seq(AnyMessages) : Gather(s, f) \in Seq(A)
  BY <1>1, GatherType
<1>6. \A m \in AnyMessages : Gather(<< m >>, f) = f[m] /\ f[m] \in Seq(A)
  BY <1>1, GatherOne
<1>7. \A s \in Seq(AnyMessages), m \in AnyMessages : Gather(Append(s, m), f) = Gather(s, f) \o f[m]
  BY <1>1, GatherAppend
<1>9. \A s \in Seq(AnyMessages) : Payloads(s, kind) \in Seq(A)
  BY <1>3, <1>5
<1>10. \A m \in AnyMessages : PayloadIf(m, kind) \in Seq(A) /\ Payloads(<< m >>, kind) = PayloadIf(m, kind)
  BY <1>1, <1>2, <1>3, <1>6
<1>11. \A s \in Seq(AnyMessages), m \in AnyMessages : Payloads(Append(s, m), kind) = Payloads(s, kind) \o PayloadIf(m, kind)
  BY <1>1, <1>2, <1>3, <1>7
<1>12. ASSUME NEW s \in Seq(AnyMessages), NEW t \in Seq(AnyMessages)
       PROVE  Payloads(s \o t, kind) = Payloads(s, kind) \o Payloads(t, kind)
  <2>1. Payloads(s \o t, kind) = Gather(s \o t, f)
    BY <1>2, <1>3, Zenon
  <2>2. Payloads(s, kind) = Gather(s, f) /\ Payloads(t, kind) = Gather(t, f)
    BY <1>3
  <2>3. Gather(s \o t, f) = Gather(s, f) \o Gather(t, f)
    BY <1>1, GatherJoin
  <2>. QED  BY <2>1, <2>2, <2>3, Zenon
<1>. QED  BY <1>2, <1>3, <1>4, <1>9, <1>10, <1>11, <1>12 DEF A

LEMMA AckAlgebra ==
  /\ Acks(<< >>) = << >>
  /\ \A s \in Seq(AnyMessages) : Acks(s) \in Seq(Seq(Nat))
  /\ \A m \in AnyMessages : AckOf(m) \in Seq(Seq(Nat)) /\ Acks(<< m >>) = AckOf(m)
  /\ \A s \in Seq(AnyMessages), m \in AnyMessages : Acks(Append(s, m)) = Acks(s) \o AckOf(m)
  /\ \A s, t \in Seq(AnyMessages) : Acks(s \o t) = Acks(s) \o Acks(t)
<1>. DEFINE f == AcksOf
            A == Seq(Nat)
<1>1. f \in [AnyMessages -> Seq(A)] /\ \A m \in AnyMessages : f[m] = AckOf(m)
  BY CarriedTypes DEF AcksOf
<1>. HIDE DEF f, AnyMessages
<1>2. /\ << >> \in Seq(AnyMessages) /\ \A m \in AnyMessages : << m >> \in Seq(AnyMessages)
      /\ \A s \in Seq(AnyMessages), m \in AnyMessages : Append(s, m) \in Seq(AnyMessages)
      /\ \A s, t \in Seq(AnyMessages) : s \o t \in Seq(AnyMessages)
  OBVIOUS
<1>3. \A q \in Seq(AnyMessages) : Acks(q) = Gather(q, f)
  BY Carried DEF f
<1>. HIDE DEF A
<1>4. Gather(<< >>, f) = << >>
  BY GatherNone
<1>5. \A s \in Seq(AnyMessages) : Gather(s, f) \in Seq(A)
  BY <1>1, GatherType
<1>6. \A m \in AnyMessages : Gather(<< m >>, f) = f[m] /\ f[m] \in Seq(A)
  BY <1>1, GatherOne
<1>7. \A s \in Seq(AnyMessages), m \in AnyMessages : Gather(Append(s, m), f) = Gather(s, f) \o f[m]
  BY <1>1, GatherAppend
<1>9. \A s \in Seq(AnyMessages) : Acks(s) \in Seq(A)
  BY <1>3, <1>5
<1>10. \A m \in AnyMessages : AckOf(m) \in Seq(A) /\ Acks(<< m >>) = AckOf(m)
  BY <1>1, <1>2, <1>3, <1>6
<1>11. \A s \in Seq(AnyMessages), m \in AnyMessages : Acks(Append(s, m)) = Acks(s) \o AckOf(m)
  BY <1>1, <1>2, <1>3, <1>7
<1>12. ASSUME NEW s \in Seq(AnyMessages), NEW t \in Seq(AnyMessages)
       PROVE  Acks(s \o t) = Acks(s) \o Acks(t)
  <2>1. Acks(s \o t) = Gather(s \o t, f)
    BY <1>2, <1>3, Zenon
  <2>2. Acks(s) = Gather(s, f) /\ Acks(t) = Gather(t, f)
    BY <1>3
  <2>3. Gather(s \o t, f) = Gather(s, f) \o Gather(t, f)
    BY <1>1, GatherJoin
  <2>. QED  BY <2>1, <2>2, <2>3, Zenon
<1>. QED  BY <1>2, <1>3, <1>4, <1>9, <1>10, <1>11, <1>12 DEF A

LEMMA TickAlgebra ==
  /\ Ticks(<< >>) = << >>
  /\ \A s \in Seq(AnyMessages) : Ticks(s) \in Seq(Seq(Nat))
  /\ \A m \in AnyMessages : TickOf(m) \in Seq(Seq(Nat)) /\ Ticks(<< m >>) = TickOf(m)
  /\ \A s \in Seq(AnyMessages), m \in AnyMessages : Ticks(Append(s, m)) = Ticks(s) \o TickOf(m)
  /\ \A s, t \in Seq(AnyMessages) : Ticks(s \o t) = Ticks(s) \o Ticks(t)
<1>. DEFINE f == TicksOf
            A == Seq(Nat)
<1>1. f \in [AnyMessages -> Seq(A)] /\ \A m \in AnyMessages : f[m] = TickOf(m)
  BY CarriedTypes DEF TicksOf
<1>. HIDE DEF f, AnyMessages
<1>2. /\ << >> \in Seq(AnyMessages) /\ \A m \in AnyMessages : << m >> \in Seq(AnyMessages)
      /\ \A s \in Seq(AnyMessages), m \in AnyMessages : Append(s, m) \in Seq(AnyMessages)
      /\ \A s, t \in Seq(AnyMessages) : s \o t \in Seq(AnyMessages)
  OBVIOUS
<1>3. \A q \in Seq(AnyMessages) : Ticks(q) = Gather(q, f)
  BY Carried DEF f
<1>. HIDE DEF A
<1>4. Gather(<< >>, f) = << >>
  BY GatherNone
<1>5. \A s \in Seq(AnyMessages) : Gather(s, f) \in Seq(A)
  BY <1>1, GatherType
<1>6. \A m \in AnyMessages : Gather(<< m >>, f) = f[m] /\ f[m] \in Seq(A)
  BY <1>1, GatherOne
<1>7. \A s \in Seq(AnyMessages), m \in AnyMessages : Gather(Append(s, m), f) = Gather(s, f) \o f[m]
  BY <1>1, GatherAppend
<1>9. \A s \in Seq(AnyMessages) : Ticks(s) \in Seq(A)
  BY <1>3, <1>5
<1>10. \A m \in AnyMessages : TickOf(m) \in Seq(A) /\ Ticks(<< m >>) = TickOf(m)
  BY <1>1, <1>2, <1>3, <1>6
<1>11. \A s \in Seq(AnyMessages), m \in AnyMessages : Ticks(Append(s, m)) = Ticks(s) \o TickOf(m)
  BY <1>1, <1>2, <1>3, <1>7
<1>12. ASSUME NEW s \in Seq(AnyMessages), NEW t \in Seq(AnyMessages)
       PROVE  Ticks(s \o t) = Ticks(s) \o Ticks(t)
  <2>1. Ticks(s \o t) = Gather(s \o t, f)
    BY <1>2, <1>3, Zenon
  <2>2. Ticks(s) = Gather(s, f) /\ Ticks(t) = Gather(t, f)
    BY <1>3
  <2>3. Gather(s \o t, f) = Gather(s, f) \o Gather(t, f)
    BY <1>1, GatherJoin
  <2>. QED  BY <2>1, <2>2, <2>3, Zenon
<1>. QED  BY <1>2, <1>3, <1>4, <1>9, <1>10, <1>11, <1>12 DEF A

\* What has been sent after the first n, as messages and as what they carry.
LEMMA Unread ==
  ASSUME NEW s \in Seq(AnyMessages), NEW m \in AnyMessages, NEW n \in Nat, n <= Len(s)
  PROVE  /\ Rest(s, n) \in Seq(AnyMessages) /\ Rest(Append(s, m), n) = Append(Rest(s, n), m)
         /\ n < Len(s) => /\ s[n + 1] \in AnyMessages /\ n + 1 \in Nat /\ n + 1 <= Len(s)
                          /\ Rest(s, n + 1) \in Seq(AnyMessages)
                          /\ Rest(s, n) = << s[n + 1] >> \o Rest(s, n + 1)
<1>. HIDE DEF AnyMessages
<1>0. Len(Append(s, m)) = Len(s) + 1
  OBVIOUS
<1>1. /\ SubSeq(s, n + 1, Len(s)) \in Seq(AnyMessages)
      /\ SubSeq(Append(s, m), n + 1, Len(Append(s, m))) = Append(SubSeq(s, n + 1, Len(s)), m)
      /\ n < Len(s) => /\ s[n + 1] \in AnyMessages
                       /\ SubSeq(s, n + 1, Len(s)) = << s[n + 1] >> \o SubSeq(s, n + 2, Len(s))
  <2>1. SubSeq(Append(s, m), n + 1, Len(s) + 1) = Append(SubSeq(s, n + 1, Len(s)), m)
    BY RestAppend
  <2>2. /\ SubSeq(s, n + 1, Len(s)) \in Seq(AnyMessages)
        /\ n < Len(s) => /\ s[n + 1] \in AnyMessages
                         /\ SubSeq(s, n + 1, Len(s)) = << s[n + 1] >> \o SubSeq(s, n + 2, Len(s))
    BY RestOf
  <2>. QED  BY <1>0, <2>1, <2>2
<1>2. n < Len(s) => n + 1 \in Nat /\ n + 1 <= Len(s) /\ (n + 1) + 1 = n + 2
  OBVIOUS
<1>3. n < Len(s) => SubSeq(s, (n + 1) + 1, Len(s)) \in Seq(AnyMessages)
  BY <1>2, RestOf
<1>. QED  BY <1>1, <1>2, <1>3 DEF Rest

-----------------------------------------------------------------------------
\* Ticks and acknowledgements: those sent are those acknowledged, in messages that were
\* sent or are about to be, then those being served, then those unread.
Balance(sent, n, answers, due) ==
  Ticks(sent) = Acks(answers) \o (due \o Ticks(Rest(sent, n)))

LEMMA BalanceSend ==
  ASSUME NEW sent \in Seq(AnyMessages), NEW n \in Nat, n <= Len(sent), NEW m \in AnyMessages,
         NEW answers \in Seq(AnyMessages), NEW due \in Seq(Seq(Nat)),
         Balance(sent, n, answers, due)
  PROVE  Balance(Append(sent, m), n, answers, due)
<1>. DEFINE A == Seq(Nat)
            a == Acks(answers)
            x == TickOf(m)
            y == Ticks(Rest(sent, n))
<1>1. Rest(sent, n) \in Seq(AnyMessages) /\ Rest(Append(sent, m), n) = Append(Rest(sent, n), m)
  BY Unread
<1>2. /\ Ticks(Append(sent, m)) = Ticks(sent) \o x
      /\ Ticks(Rest(Append(sent, m), n)) = y \o x
      /\ a \in Seq(A) /\ x \in Seq(A) /\ y \in Seq(A) /\ due \in Seq(A)
  <2>. HIDE DEF AnyMessages
  <2>. QED  BY <1>1, AckAlgebra, TickAlgebra
<1>3. Ticks(sent) = a \o (due \o y)
  BY DEF Balance
<1>. HIDE DEF A, a, x, y
<1>4. (a \o (due \o y)) \o x = a \o (due \o (y \o x))
  BY ONLY <1>2, SMTT(60)
<1>5. Ticks(Append(sent, m)) = a \o (due \o Ticks(Rest(Append(sent, m), n)))
  BY <1>2, <1>3, <1>4
<1>. QED  BY <1>5 DEF Balance, a

LEMMA BalanceGet ==
  ASSUME NEW sent \in Seq(AnyMessages), NEW n \in Nat, n < Len(sent),
         NEW answers \in Seq(AnyMessages), Balance(sent, n, answers, << >>)
  PROVE  Balance(sent, n + 1, answers, TickOf(sent[n + 1]))
<1>. DEFINE m == sent[n + 1]
            r == Rest(sent, n + 1)
            A == Seq(Nat)
            y == Ticks(Rest(sent, n))
<1>0. n <= Len(sent)
  OBVIOUS
<1>1. m \in AnyMessages /\ r \in Seq(AnyMessages) /\ Rest(sent, n) = << m >> \o r
        /\ Rest(sent, n) \in Seq(AnyMessages) /\ << m >> \in Seq(AnyMessages)
  <2>. HIDE DEF AnyMessages
  <2>0. sent[n + 1] \in AnyMessages
    OBVIOUS
  <2>1. /\ Rest(sent, n) \in Seq(AnyMessages)
        /\ r \in Seq(AnyMessages)
        /\ Rest(sent, n) = << m >> \o r
    BY <1>0, <2>0, Unread
  <2>. QED  BY <2>0, <2>1
<1>. HIDE DEF m, r, AnyMessages
<1>2. y = TickOf(m) \o Ticks(r) /\ y \in Seq(A)
  BY <1>1, TickAlgebra
<1>3. Ticks(sent) = Acks(answers) \o (<< >> \o y)
  BY DEF Balance
<1>. HIDE DEF y, A
<1>4. << >> \o y = y
  BY <1>2
<1>5. Ticks(sent) = Acks(answers) \o (TickOf(m) \o Ticks(r))
  BY <1>2, <1>3, <1>4
<1>. QED  BY <1>5 DEF Balance, m, r

LEMMA BalanceAnswer ==
  ASSUME NEW sent \in Seq(AnyMessages), NEW n \in Nat, n <= Len(sent),
         NEW answers \in Seq(AnyMessages), NEW more \in Seq(AnyMessages),
         NEW due \in Seq(Seq(Nat)), Balance(sent, n, answers, Acks(more) \o due)
  PROVE  Balance(sent, n, answers \o more, due)
<1>. DEFINE A == Seq(Nat)
            a == Acks(answers)
            b == Acks(more)
            y == Ticks(Rest(sent, n))
<1>1. Rest(sent, n) \in Seq(AnyMessages)
  <2>. HIDE DEF AnyMessages
  <2>. QED  BY RestOf DEF Rest
<1>2. /\ Acks(answers \o more) = a \o b
      /\ a \in Seq(A) /\ b \in Seq(A) /\ y \in Seq(A) /\ due \in Seq(A)
  <2>. HIDE DEF AnyMessages
  <2>. QED  BY <1>1, AckAlgebra, TickAlgebra
<1>3. Ticks(sent) = a \o ((b \o due) \o y)
  BY DEF Balance
<1>. HIDE DEF A, a, b, y
<1>4. a \o ((b \o due) \o y) = (a \o b) \o (due \o y)
  BY ONLY <1>2, SMTT(60)
<1>5. Ticks(sent) = Acks(answers \o more) \o (due \o y)
  BY <1>2, <1>3, <1>4
<1>. QED  BY <1>5 DEF Balance, y

\* Of ticks and acknowledgements so balanced, those acknowledged are the first of those sent.
LEMMA BalanceMeans ==
  ASSUME NEW sent \in Seq(AnyMessages), NEW n \in Nat, n <= Len(sent),
         NEW was \in Seq(AnyMessages), NEW todo \in Seq(AnyMessages),
         NEW due \in Seq(Seq(Nat)), Balance(sent, n, was \o todo, due)
  PROVE  Len(Acks(was)) <= Len(Ticks(sent)) /\ SubSeq(Ticks(sent), 1, Len(Acks(was))) = Acks(was)
<1>. DEFINE A == Seq(Nat)
            a == Acks(was)
            b == Acks(todo)
            y == Ticks(Rest(sent, n))
<1>1. Rest(sent, n) \in Seq(AnyMessages)
  <2>. HIDE DEF AnyMessages
  <2>. QED  BY RestOf DEF Rest
<1>2. /\ Acks(was \o todo) = a \o b
      /\ a \in Seq(A) /\ b \in Seq(A) /\ y \in Seq(A) /\ due \in Seq(A)
  <2>. HIDE DEF AnyMessages
  <2>. QED  BY <1>1, AckAlgebra, TickAlgebra
<1>3. Ticks(sent) = (a \o b) \o (due \o y)
  BY <1>2 DEF Balance
<1>. HIDE DEF A, a, b, y
<1>4. b \o (due \o y) \in Seq(A) /\ (a \o b) \o (due \o y) = a \o (b \o (due \o y))
  BY ONLY <1>2, SMTT(60)
<1>. DEFINE z == b \o (due \o y)
<1>5. z \in Seq(A) /\ Ticks(sent) = a \o z
  BY <1>3, <1>4
<1>. HIDE DEF z
<1>6. Len(a) <= Len(a \o z) /\ SubSeq(a \o z, 1, Len(a)) = a
  BY <1>2, <1>5, JoinedPrefix
<1>. QED  BY <1>5, <1>6 DEF a

-----------------------------------------------------------------------------
\* What the server owes: a tick that was read is answered before anything else is done.
ServerOwes ==
  Balance(past.upSent, Len(past.upGot), past.downSent \o server.todo, << >>)

\* Only Handle and WriteMsg change what is to be written.
LEMMA TodoKept ==
  ASSUME Typed,
         \/ Accept \/ Poll \/ ReadTag \/ ReadOperand \/ Answer \/ EmulatorGone
         \/ ServerReads \/ ServerAsksPayload \/ EngineGone \/ ServerWrites \/ WriteFails
         \/ Emulator \/ Gone \/ UNCHANGED vars
  PROVE  past' = past /\ server'.todo = server.todo
<1>1. server \in [pc : Pcs, due : BOOLEAN, tag : Letters \cup {"none"}, packet : {<< >>, << 1 >>},
                  in : Readers, out : Seq(Nat), todo : Seq(Messages)]
  BY DEF Typed
<1>. HIDE DEF Pcs, Readers, Messages, Letters
<1>2. CASE Accept \/ Poll \/ EmulatorGone \/ EngineGone
  BY <1>1, <1>2 DEF Accept, Poll, EmulatorGone, EngineGone, Goes, Ends, engineVars
<1>3. CASE ReadTag \/ ReadOperand
  <2>. HIDE DEF Tags
  <2>1. past' = past
    BY <1>3 DEF ReadTag, ReadOperand, Takes, engineVars
  <2>2. CASE ReadTag
    <3>1. \/ server' = [server EXCEPT !.pc = "closed"]
          \/ \E tag : server' = [server EXCEPT !.pc = "operand", !.tag = tag]
          \/ \E tag, p : server' = Served(tag, p)
      BY <2>2 DEF ReadTag, Ends, Goes
    <3>. QED  BY <1>1, <2>1, <3>1 DEF Served
  <2>3. CASE ReadOperand
    BY <1>1, <2>1, <2>3 DEF ReadOperand, Served
  <2>. QED  BY <1>3, <2>2, <2>3
<1>4. CASE Answer
  BY <1>1, <1>4 DEF Answer, engineVars
<1>5. CASE ServerReads \/ ServerAsksPayload
  BY <1>1, <1>5 DEF ServerReads, ServerAsksPayload, engineVars
<1>6. CASE ServerWrites \/ WriteFails
  BY <1>1, <1>6 DEF ServerWrites, WriteFails, engineVars
<1>7. CASE Emulator \/ Gone \/ UNCHANGED vars
  BY <1>7 DEF Emulator, Connects, Asks, EmulatorWrites, EmulatorReads, EmulatorQuits, Gone, vars,
              engineVars
<1>. QED  BY <1>2, <1>3, <1>4, <1>5, <1>6, <1>7

\* A tick is answered with one acknowledgement, of its own time.
LEMMA RepliesAck ==
  ASSUME server.packet \in {<< >>, << 1 >>}, NEW at \in Seq(Nat)
  PROVE  Replies(at) \in Seq(AnyMessages) /\ Acks(Replies(at)) = << at >>
<1>. DEFINE p == IF server.packet = << >> THEN << >> ELSE << Message(kFrame, server.packet) >>
            s == Message(kRadioStats, << 0 >>)
            a == Message(kAck, at)
            q == << s, a >>
<1>1. s \in AnyMessages /\ a \in AnyMessages /\ Message(kFrame, << 1 >>) \in AnyMessages
  BY DEF Message, AnyMessages, kRadioStats, kAck, kFrame
<1>2. AckOf(s) = << >> /\ AckOf(a) = << at >> /\ AckOf(Message(kFrame, << 1 >>)) = << >>
  BY DEF Message, AckOf, kRadioStats, kAck, kFrame
<1>3. q = Append(Append(<< >>, s), a)
  OBVIOUS
<1>. HIDE DEF s, a, q, AnyMessages
<1>4. p \in Seq(AnyMessages) /\ Acks(p) = << >>
  <2>1. << >> \in Seq(AnyMessages)
    BY EmptySeq
  <2>2. CASE server.packet = << >>
    BY <2>1, <2>2, AckAlgebra
  <2>3. CASE server.packet = << 1 >>
    <3>1. p = << Message(kFrame, << 1 >>) >>
      BY <2>3
    <3>. DEFINE f == Message(kFrame, << 1 >>)
    <3>2. f \in AnyMessages /\ AckOf(f) = << >>
      BY <1>1, <1>2
    <3>. HIDE DEF f
    <3>3. << f >> \in Seq(AnyMessages) /\ Acks(<< f >>) = << >>
      BY <3>2, AckAlgebra
    <3>. QED  BY <3>1, <3>3 DEF f
  <2>. QED  BY <2>2, <2>3
<1>. HIDE DEF p
<1>5. q \in Seq(AnyMessages) /\ Acks(q) = << at >>
  <2>1. << >> \in Seq(AnyMessages) /\ Append(<< >>, s) \in Seq(AnyMessages)
    BY <1>1, EmptySeq
  <2>2. Append(Append(<< >>, s), a) \in Seq(AnyMessages)
    BY <1>1, <2>1
  <2>3. Acks(Append(Append(<< >>, s), a)) = Acks(Append(<< >>, s)) \o << at >>
    BY <1>1, <1>2, <2>1, AckAlgebra
  <2>4. Acks(Append(<< >>, s)) = << >> \o << >>
    BY <1>1, <1>2, <2>1, AckAlgebra
  <2>5. (<< >> \o << >>) \o << at >> = << at >>
    OBVIOUS
  <2>. QED  BY <1>3, <2>2, <2>3, <2>4, <2>5
<1>6. Replies(at) = p \o q
  BY DEF Replies, p, q, s, a
<1>7. p \o q \in Seq(AnyMessages) /\ Acks(p \o q) = << >> \o << at >>
  <2>1. p \o q \in Seq(AnyMessages)
    BY <1>4, <1>5
  <2>2. Acks(p \o q) = Acks(p) \o Acks(q)
    BY ONLY <1>4, <1>5, AckAlgebra, Zenon
  <2>. QED  BY <1>4, <1>5, <2>1, <2>2
<1>8. << >> \o << at >> = << at >>
  OBVIOUS
<1>. QED  BY <1>6, <1>7, <1>8

LEMMA OwesHandle ==
  ASSUME IInv, IInv', ServerOwes, Handle
  PROVE  ServerOwes'
<1>1. /\ past' = [past EXCEPT !.upGot = Append(@, past.upSent[Len(past.upGot) + 1])]
      /\ Len(past.upGot) < Len(past.upSent)
  BY HandleKeeps
<1>2. Typed /\ Typed'
  BY DEF IInv
<1>. DEFINE m == past.upSent[Len(past.upGot) + 1]
            n == Len(past.upGot)
<1>3. /\ past.upSent \in Seq(AnyMessages) /\ past.downSent \in Seq(AnyMessages)
      /\ past.upGot \in Seq(Messages) /\ n \in Nat
  <2>1. past.upSent \in Seq(Messages) /\ past.downSent \in Seq(Messages) /\ past.upGot \in Seq(Messages)
    BY <1>2 DEF Typed
  <2>2. n \in Nat
    BY <2>1
  <2>. QED  BY <2>1, <2>2, AnyLength
<1>4. /\ past'.upSent = past.upSent /\ past'.downSent = past.downSent
      /\ past'.upGot = Append(past.upGot, m)
  BY <1>1, <1>2 DEF Typed
<1>5. server.todo = << >> /\ past.downSent \o server.todo = past.downSent
  BY <1>3 DEF Handle, Free
<1>6. Balance(past.upSent, n, past.downSent, << >>)
  BY <1>5 DEF ServerOwes
<1>7. m \in AnyMessages
  <2>. HIDE DEF AnyMessages
  <2>. QED  BY <1>1, <1>3
<1>8. Balance(past.upSent, n + 1, past.downSent, TickOf(m))
  <2>. HIDE DEF m, n
  <2>1. Balance(past.upSent, n + 1, past.downSent, TickOf(past.upSent[n + 1]))
    BY <1>1, <1>3, <1>6, BalanceGet DEF n
  <2>. QED  BY <2>1 DEF m, n
<1>9. Len(past'.upGot) = n + 1
  <2>1. m \in Messages
    <3>1. past.upSent \in Seq(Messages)
      BY <1>2 DEF Typed
    <3>. HIDE DEF Messages
    <3>. QED  BY <1>1, <1>3, <3>1
  <2>. QED  BY <1>3, <1>4, <2>1
<1>10. Decoded(server.in) = m
  <2>1. past' = [past EXCEPT !.upGot = Append(@, Decoded(server.in))]
    BY DEF Handle
  <2>2. past'.upGot = Append(past.upGot, Decoded(server.in))
    BY <1>2, <2>1 DEF Typed
  <2>3. \A x, y : Append(past.upGot, x) = Append(past.upGot, y) => x = y
    <3>. TAKE x, y
    <3>1. Append(past.upGot, x)[n + 1] = x /\ Append(past.upGot, y)[n + 1] = y
      BY <1>3
    <3>. QED  BY <3>1
  <2>. QED  BY <1>4, <2>2, <2>3
<1>11. server' = IF IsTick(m) THEN [server EXCEPT !.in = Reader, !.packet = << >>, !.todo = Replies(m.payload)]
                 ELSE [server EXCEPT !.in = Reader, !.pc = "poll"]
  BY <1>10 DEF Handle
<1>12. Balance(past.upSent, n + 1, past.downSent \o server'.todo, << >>)
  <2>1. CASE IsTick(m)
    <3>1. server'.todo = Replies(m.payload)
      BY <1>2, <1>11, <2>1 DEF Typed
    <3>2. TickOf(m) = << m.payload >> /\ m.payload \in Seq(Nat)
      BY <1>7, <2>1 DEF IsTick, TickOf, AnyMessages
    <3>3. Replies(m.payload) \in Seq(AnyMessages) /\ Acks(Replies(m.payload)) = << m.payload >>
      BY <1>2, <3>2, RepliesAck DEF Typed
    <3>. DEFINE r == Replies(m.payload)
                t == << m.payload >>
    <3>4. r \in Seq(AnyMessages) /\ Acks(r) = t /\ TickOf(m) = t /\ t \o << >> = t
      BY <3>2, <3>3
    <3>. HIDE DEF r, t, m, n, AnyMessages
    <3>5. Balance(past.upSent, n + 1, past.downSent, Acks(r) \o << >>)
      BY <1>8, <3>4
    <3>6. n + 1 \in Nat /\ n + 1 <= Len(past.upSent)
      BY <1>1, <1>3 DEF n
    <3>7. << >> \in Seq(Seq(Nat))
      BY EmptySeq
    <3>8. Balance(past.upSent, n + 1, past.downSent \o r, << >>)
      BY <1>3, <3>4, <3>5, <3>6, <3>7, BalanceAnswer
    <3>. QED  BY <3>1, <3>8 DEF r
  <2>2. CASE ~IsTick(m)
    <3>1. server'.todo = server.todo
      BY <1>2, <1>11, <2>2 DEF Typed
    <3>2. TickOf(m) = << >>
      BY <2>2 DEF IsTick, TickOf
    <3>. QED  BY <1>5, <1>8, <3>1, <3>2
  <2>. QED  BY <2>1, <2>2
<1>. QED  BY <1>4, <1>9, <1>12 DEF ServerOwes

LEMMA OwesWrite ==
  ASSUME IInv, ServerOwes, WriteMsg
  PROVE  ServerOwes'
<1>1. Typed
  BY DEF IInv
<1>2. /\ server.todo # << >>
      /\ server' = [server EXCEPT !.out = Encode(Head(server.todo)), !.todo = Tail(@)]
      /\ past' = [past EXCEPT !.downSent = Append(@, Head(server.todo))]
  BY DEF WriteMsg
<1>3. server.todo \in Seq(Messages) /\ past.downSent \in Seq(Messages)
  BY <1>1 DEF Typed
<1>4. /\ server'.todo = Tail(server.todo) /\ past'.downSent = Append(past.downSent, Head(server.todo))
      /\ past'.upSent = past.upSent /\ past'.upGot = past.upGot
  <2>. HIDE DEF Messages, Readers, Letters, Pcs
  <2>. QED  BY <1>1, <1>2 DEF Typed
<1>5. Append(past.downSent, Head(server.todo)) \o Tail(server.todo) = past.downSent \o server.todo
  <2>. HIDE DEF Messages
  <2>. QED  BY <1>2, <1>3, HeadMoved
<1>. QED  BY <1>4, <1>5 DEF ServerOwes

\* A tick, or another message, is sent: it is unread.
LEMMA OwesSends ==
  ASSUME IInv, ServerOwes, Turn(EngineMoves)
  PROVE  ServerOwes'
<1>1. Typed /\ EngineMoves /\ server' = server
  BY DEF IInv, Turn
<1>2. EngineHalf
  <2>1. past.downSent \in Seq(AnyMessages)
    <3>1. past.downSent \in Seq(Messages)
      BY <1>1 DEF Typed
    <3>. QED  BY <3>1, AnyLength
  <2>. HIDE DEF Readers, Messages, AnyMessages
  <2>. QED  BY <1>1, <2>1 DEF EngineHalf, Typed
<1>3. /\ past.upSent \in Seq(AnyMessages) /\ past.downSent \o server.todo \in Seq(AnyMessages)
      /\ Len(past.upGot) \in Nat /\ Len(past.upGot) <= Len(past.upSent)
      /\ past \in [upSent : Seq(Messages), upGot : Seq(Messages),
                   downSent : Seq(Messages), downGot : Seq(Messages)]
  <2>1. /\ past.upSent \in Seq(Messages) /\ past.downSent \in Seq(Messages)
        /\ past.upGot \in Seq(Messages) /\ server.todo \in Seq(Messages)
        /\ past \in [upSent : Seq(Messages), upGot : Seq(Messages),
                     downSent : Seq(Messages), downGot : Seq(Messages)]
    BY <1>1 DEF Typed
  <2>2. Len(past.upGot) <= Len(past.upSent)
    BY DEF IInv, UpFlow, Flow
  <2>3. past.upSent \in Seq(AnyMessages) /\ past.downSent \in Seq(AnyMessages) /\ server.todo \in Seq(AnyMessages)
    BY <2>1, AnyLength
  <2>. HIDE DEF Messages, AnyMessages
  <2>. QED  BY <2>1, <2>2, <2>3
<1>4. ASSUME NEW m \in Messages, past' = [past EXCEPT !.upSent = Append(@, m)]
      PROVE  ServerOwes'
  <2>1. /\ past'.upSent = Append(past.upSent, m) /\ past'.upGot = past.upGot
        /\ past'.downSent = past.downSent
    <3>. HIDE DEF Messages
    <3>. QED  BY <1>3, <1>4
  <2>2. m \in AnyMessages
    BY DEF Messages, AnyMessages
  <2>3. << >> \in Seq(Seq(Nat))
    BY EmptySeq
  <2>. DEFINE d == past.downSent \o server.todo
              n == Len(past.upGot)
  <2>4. d \in Seq(AnyMessages) /\ n \in Nat /\ n <= Len(past.upSent) /\ Balance(past.upSent, n, d, << >>)
    BY <1>3 DEF ServerOwes
  <2>. HIDE DEF d, n, AnyMessages, Messages
  <2>5. Balance(Append(past.upSent, m), n, d, << >>)
    BY <1>3, <2>2, <2>3, <2>4, BalanceSend
  <2>. QED  BY <1>1, <2>1, <2>5 DEF ServerOwes, d, n
<1>5. CASE past' = past
  BY <1>1, <1>5 DEF ServerOwes
<1>6. CASE GotMessage
  <2>1. past'.upSent = past.upSent /\ past'.upGot = past.upGot /\ past'.downSent = past.downSent
    <3>. HIDE DEF Messages
    <3>. QED  BY <1>3, <1>6 DEF GotMessage
  <2>. QED  BY <1>1, <2>1 DEF ServerOwes
<1>. QED  BY <1>1, <1>2, <1>4, <1>5, <1>6, EngineHistory DEF SentOther, SentTick, Silent

\* Whatever else the engine sends between them, ticks are acknowledged in the order they
\* were sent, each with its own time and once.
THEOREM ServerAcksInOrder == Spec => []AcksAreTicks
PROOF
<1>1. Init => ServerOwes
  <2>. SUFFICES ASSUME Init
                PROVE  ServerOwes
    OBVIOUS
  <2>1. /\ past.upSent = << >> /\ past.upGot = << >> /\ past.downSent = << >> /\ server.todo = << >>
    BY DEF Init, EngineInit
  <2>2. << >> \o << >> = << >> /\ Rest(<< >>, Len(<< >>)) = << >>
    BY DEF Rest
  <2>3. Acks(<< >>) = << >> /\ Ticks(<< >>) = << >>
    BY AckAlgebra, TickAlgebra
  <2>. QED  BY <2>1, <2>2, <2>3 DEF ServerOwes, Balance
<1>2. IInv /\ IInv' /\ ServerOwes /\ [Next]_vars => ServerOwes'
  <2>. SUFFICES ASSUME IInv, IInv', ServerOwes, [Next]_vars
                PROVE  ServerOwes'
    OBVIOUS
  <2>1. CASE Handle
    BY <2>1, OwesHandle
  <2>2. CASE WriteMsg
    BY <2>2, OwesWrite
  <2>3. CASE Turn(EngineMoves)
    BY <2>3, OwesSends
  <2>4. CASE \/ Accept \/ Poll \/ ReadTag \/ ReadOperand \/ Answer \/ EmulatorGone
             \/ ServerReads \/ ServerAsksPayload \/ EngineGone \/ ServerWrites \/ WriteFails
             \/ Emulator \/ Gone \/ UNCHANGED vars
    <3>1. past' = past /\ server'.todo = server.todo
      BY <2>4, TodoKept DEF IInv
    <3>. QED  BY <3>1 DEF ServerOwes
  <2>. QED  BY <2>1, <2>2, <2>3, <2>4 DEF Next, Server
<1>3. IInv /\ ServerOwes => AcksAreTicks
  <2>. SUFFICES ASSUME IInv, ServerOwes
                PROVE  AcksAreTicks
    OBVIOUS
  <2>1. /\ past.upSent \in Seq(Messages) /\ past.downSent \in Seq(Messages)
        /\ past.upGot \in Seq(Messages) /\ server.todo \in Seq(Messages)
    BY DEF IInv, Typed
  <2>2. past.upSent \in Seq(AnyMessages) /\ past.downSent \in Seq(AnyMessages) /\ server.todo \in Seq(AnyMessages)
    BY <2>1, AnyLength
  <2>3. Len(past.upGot) \in Nat /\ Len(past.upGot) <= Len(past.upSent)
    BY <2>1 DEF IInv, UpFlow, Flow
  <2>4. << >> \in Seq(Seq(Nat))
    BY EmptySeq
  <2>. HIDE DEF Messages, AnyMessages
  <2>5. /\ Len(Acks(past.downSent)) <= Len(Ticks(past.upSent))
        /\ SubSeq(Ticks(past.upSent), 1, Len(Acks(past.downSent))) = Acks(past.downSent)
    BY <2>2, <2>3, <2>4, BalanceMeans DEF ServerOwes
  <2>. QED  BY <2>5 DEF AcksAreTicks
<1>. QED  BY <1>1, <1>2, <1>3, InitIInv, IInvStep, PTL DEF Spec

-----------------------------------------------------------------------------
\* The native node's end.

\* What is printed and transmitted, as messages: which acknowledgements they carry, and
\* which console output.
Carries(s, acks, print) ==
  s \in Seq(AnyMessages) /\ Acks(s) = acks /\ Payloads(s, kConsoleOut) = print

LEMMA CarriesNone == Carries(<< >>, << >>, << >>)
<1>1. kConsoleOut \in Nat /\ << >> \in Seq(AnyMessages)
  BY EmptySeq DEF kConsoleOut
<1>. QED  BY <1>1, AckAlgebra, PayloadAlgebra DEF Carries

LEMMA CarriesOne ==
  ASSUME NEW m \in AnyMessages
  PROVE  Carries(<< m >>, AckOf(m), PayloadIf(m, kConsoleOut))
<1>1. kConsoleOut \in Nat
  BY DEF kConsoleOut
<1>. HIDE DEF AnyMessages
<1>2. << m >> \in Seq(AnyMessages)
  OBVIOUS
<1>. QED  BY <1>1, <1>2, AckAlgebra, PayloadAlgebra DEF Carries

LEMMA CarriesJoin ==
  ASSUME NEW s, NEW a, NEW p, Carries(s, a, p), NEW t, NEW b, NEW q, Carries(t, b, q)
  PROVE  Carries(s \o t, a \o b, p \o q)
<1>1. kConsoleOut \in Nat
  BY DEF kConsoleOut
<1>2. s \in Seq(AnyMessages) /\ t \in Seq(AnyMessages)
  BY DEF Carries
<1>. HIDE DEF AnyMessages
<1>3. s \o t \in Seq(AnyMessages)
  BY <1>2
<1>4. Acks(s \o t) = Acks(s) \o Acks(t)
  BY ONLY <1>2, AckAlgebra, Zenon
<1>5. Payloads(s \o t, kConsoleOut) = Payloads(s, kConsoleOut) \o Payloads(t, kConsoleOut)
  BY ONLY <1>1, <1>2, PayloadAlgebra, Zenon
<1>. QED  BY <1>3, <1>4, <1>5 DEF Carries

\* The console is flushed as it was printed; a packet and the statistics are neither.
LEMMA FlushCarries ==
  ASSUME NEW out \in Seq(Nat)
  PROVE  Carries(Flush(out), << >>, out)
<1>1. CASE out = << >>
  BY <1>1, CarriesNone DEF Flush
<1>2. CASE out # << >>
  <2>. DEFINE m == Message(kConsoleOut, out)
  <2>1. m \in AnyMessages /\ AckOf(m) = << >> /\ PayloadIf(m, kConsoleOut) = out
    BY DEF Message, AnyMessages, AckOf, PayloadIf, kConsoleOut, kAck
  <2>2. Flush(out) = << m >>
    BY <1>2 DEF Flush
  <2>. HIDE DEF m, AnyMessages
  <2>. QED  BY <2>1, <2>2, CarriesOne
<1>. QED  BY <1>1, <1>2

LEMMA DrainCarries ==
  ASSUME NEW packet \in Seq(Nat)
  PROVE  Carries(Drain(packet), << >>, << >>)
<1>1. CASE packet = << >>
  BY <1>1, CarriesNone DEF Drain
<1>2. CASE packet # << >>
  <2>. DEFINE m == Message(kFrame, packet)
  <2>1. m \in AnyMessages /\ AckOf(m) = << >> /\ PayloadIf(m, kConsoleOut) = << >>
    BY DEF Message, AnyMessages, AckOf, PayloadIf, kConsoleOut, kAck, kFrame
  <2>2. Drain(packet) = << m >>
    BY <1>2 DEF Drain
  <2>. HIDE DEF m, AnyMessages
  <2>. QED  BY <2>1, <2>2, CarriesOne
<1>. QED  BY <1>1, <1>2

LEMMA TickDoneCarries ==
  ASSUME node.at \in Nat, NEW out \in Seq(Nat)
  PROVE  Carries(TickDone(out), << << node.at >> >>, out)
<1>. DEFINE s == Message(kRadioStats, << 0 >>)
            a == Message(kAck, << node.at >>)
            f == Flush(out)
            k == << << node.at >> >>
<1>1. /\ s \in AnyMessages /\ AckOf(s) = << >> /\ PayloadIf(s, kConsoleOut) = << >>
      /\ a \in AnyMessages /\ AckOf(a) = k /\ PayloadIf(a, kConsoleOut) = << >>
  BY DEF Message, AnyMessages, AckOf, PayloadIf, kConsoleOut, kAck, kRadioStats
<1>2. TickDone(out) = f \o (<< s >> \o << a >>)
  <2>2. << s >> \o << a >> = << s, a >>
    <3>. HIDE DEF s, a, AnyMessages
    <3>. QED  BY <1>1, Pair
  <2>. QED  BY <2>2 DEF TickDone
<1>3. << >> \o k = k /\ << >> \o << >> = << >> /\ out \o << >> = out
  OBVIOUS
<1>4. Carries(f, << >>, out)
  BY FlushCarries
<1>. HIDE DEF s, a, f, AnyMessages, k
<1>5. Carries(<< s >>, << >>, << >>) /\ Carries(<< a >>, k, << >>)
  <2>1. Carries(<< s >>, AckOf(s), PayloadIf(s, kConsoleOut))
    BY <1>1, CarriesOne
  <2>2. Carries(<< a >>, AckOf(a), PayloadIf(a, kConsoleOut))
    BY <1>1, CarriesOne
  <2>. QED  BY <1>1, <2>1, <2>2
<1>. DEFINE q == << s >> \o << a >>
<1>6. Carries(q, k, << >>)
  <2>1. Carries(q, << >> \o k, << >> \o << >>)
    BY ONLY <1>5, CarriesJoin, Zenon
  <2>. QED  BY <1>3, <2>1
<1>. HIDE DEF q
<1>7. Carries(f \o q, k, out)
  <2>1. Carries(f \o q, << >> \o k, out \o << >>)
    BY ONLY <1>4, <1>6, CarriesJoin, Zenon
  <2>. QED  BY <1>3, <2>1
<1>. QED  BY <1>2, <1>7 DEF q, k

LEMMA EncodeAny ==
  ASSUME NEW m \in AnyMessages
  PROVE  Encode(m) \in Seq(Nat)
<1>. DEFINE n == Len(m.payload)
            hi == (n \div Base) % Base
            lo == n % Base
<1>1. n \in Nat /\ Base \in Nat /\ Base > 1 /\ m.kind \in Nat /\ m.payload \in Seq(Nat)
  BY FramingAssumption DEF AnyMessages
<1>2. hi \in Nat /\ lo \in Nat
  <2>. HIDE DEF n
  <2>1. n \div Base \in Nat
    BY <1>1
  <2>2. \A x \in Nat : x % Base \in Nat
    BY <1>1
  <2>. QED  BY <1>1, <2>1, <2>2
<1>3. Encode(m) = << m.kind, hi, lo >> \o m.payload
  BY DEF Encode
<1>. HIDE DEF hi, lo
<1>4. << m.kind, hi, lo >> \in Seq(Nat)
  BY <1>1, <1>2
<1>. QED  BY <1>1, <1>3, <1>4

-----------------------------------------------------------------------------
\* What holds of a node whatever it prints: what everything is, that what comes up is a
\* stream of messages, and that nothing of what is typed, printed and ticked goes missing.

NodePcs == {"read", "loop", "closed"}

NodeTyped ==
  /\ node \in [pc : NodePcs, in : Readers, out : Seq(Nat), todo : Seq(AnyMessages),
               consoleIn : Seq(Nat), consoleOut : Seq(Nat), sim : Nat, at : Nat]
  /\ said \in [read : Seq(Nat), printed : Seq(Nat)]

NodeUp == Flow(past.upSent, past.upGot, node.in, up, engine.out, engine.closed)

Sayings == past.downSent \o node.todo
Serving(due) ==
  /\ node.pc = "read" => due = << >>
  /\ node.pc = "loop" => due = << << node.at >> >>
NodeOwes ==
  \E due \in Seq(Seq(Nat)) :
    Serving(due) /\ Balance(past.upSent, Len(past.upGot), Sayings, due)

Printed == Payloads(Sayings, kConsoleOut) \o node.consoleOut = said.printed

NothingMissed == NodeOwes /\ Printed /\ TypedInOrder
NInv == EngineHalf /\ NodeTyped /\ NodeUp /\ NothingMissed

LEMMA NInvTypes ==
  ASSUME NInv
  PROVE  /\ past.upSent \in Seq(Messages) /\ past.upSent \in Seq(AnyMessages)
         /\ past.upGot \in Seq(Messages) /\ past.downSent \in Seq(AnyMessages)
         /\ Len(past.upGot) \in Nat /\ Len(past.upGot) <= Len(past.upSent)
         /\ node.todo \in Seq(AnyMessages) /\ Sayings \in Seq(AnyMessages)
         /\ engine.out \in Seq(Nat) /\ engine.closed \in BOOLEAN /\ engine.in \in Readers
         /\ up \in Seq(Nat) /\ down \in Seq(Nat)
         /\ engine \in [out : Seq(Nat), in : Readers, sim : Nat, waiting : BOOLEAN, others : Nat,
                        closed : BOOLEAN]
         /\ past \in [upSent : Seq(Messages), upGot : Seq(Messages),
                      downSent : Seq(AnyMessages), downGot : {past.downGot}]
         /\ node.in \in Readers /\ node.out \in Seq(Nat) /\ node.pc \in NodePcs
         /\ node.consoleIn \in Seq(Nat) /\ node.consoleOut \in Seq(Nat)
         /\ node.sim \in Nat /\ node.at \in Nat
         /\ said.read \in Seq(Nat) /\ said.printed \in Seq(Nat)
<1>1. EngineHalf /\ NodeTyped /\ NodeUp
  BY DEF NInv
<1>2. /\ past.upSent \in Seq(Messages) /\ past.upGot \in Seq(Messages)
      /\ past.downSent \in Seq(AnyMessages) /\ node.todo \in Seq(AnyMessages)
  BY <1>1 DEF EngineHalf, NodeTyped
<1>3. past.upSent \in Seq(AnyMessages)
  BY <1>2, AnyLength
<1>4. Len(past.upGot) \in Nat /\ Len(past.upGot) <= Len(past.upSent)
  BY <1>1, <1>2 DEF NodeUp, Flow
<1>. HIDE DEF AnyMessages, Messages, Readers, NodePcs
<1>5. Sayings \in Seq(AnyMessages)
  BY <1>2 DEF Sayings
<1>. QED  BY <1>1, <1>2, <1>3, <1>4, <1>5 DEF EngineHalf, NodeTyped

\* A step in which nothing is got, answered, printed or read from the console.
LEMMA NothingHappens ==
  ASSUME NothingMissed, node'.pc \in {node.pc, "closed"}, node'.at = node.at,
         Sayings' = Sayings, node'.consoleIn = node.consoleIn,
         node'.consoleOut = node.consoleOut, said' = said,
         past'.upSent = past.upSent, past'.upGot = past.upGot
  PROVE  NothingMissed'
<1>1. PICK due \in Seq(Seq(Nat)) :
        Serving(due) /\ Balance(past.upSent, Len(past.upGot), Sayings, due)
  BY DEF NothingMissed, NodeOwes
<1>2. Serving(due)'
  BY <1>1 DEF Serving
<1>3. NodeOwes'
  BY <1>1, <1>2 DEF NodeOwes
<1>. QED  BY <1>3 DEF NothingMissed, Printed, TypedInOrder

LEMMA BridgeInitInv == BridgeInit => NInv
<1>. SUFFICES ASSUME BridgeInit
              PROVE  NInv
  OBVIOUS
<1>1. EngineInit
  BY DEF BridgeInit
<1>2. PICK p \in Passes :
        /\ node = [pc |-> "read", in |-> Reader, out |-> << >>,
                   todo |-> Drain(p.packet) \o Flush(p.print),
                   consoleIn |-> << >>, consoleOut |-> << >>, sim |-> 0, at |-> 0]
        /\ said = [read |-> << >>, printed |-> p.print]
  BY DEF BridgeInit
<1>3. p.packet \in Seq(Nat) /\ p.print \in Seq(Nat)
  BY PassesAssumption
<1>. DEFINE t == Drain(p.packet) \o Flush(p.print)
<1>4. Carries(t, << >>, p.print)
  <2>1. Carries(Drain(p.packet), << >>, << >>) /\ Carries(Flush(p.print), << >>, p.print)
    BY <1>3, DrainCarries, FlushCarries
  <2>2. Carries(t, << >> \o << >>, << >> \o p.print)
    BY ONLY <2>1, CarriesJoin, Zenon
  <2>3. << >> \o << >> = << >> /\ << >> \o p.print = p.print
    BY <1>3
  <2>. QED  BY <2>2, <2>3
<1>. HIDE DEF t
<1>5. Reader \in Readers /\ << >> \in Seq(Nat) /\ << >> \in Seq(Messages) /\ << >> \in Seq(AnyMessages)
  BY EmptySeq DEF Reader, Readers
<1>6. /\ past = [upSent |-> << >>, upGot |-> << >>, downSent |-> << >>, downGot |-> << >>]
      /\ up = << >> /\ down = << >>
      /\ engine = [out |-> << >>, in |-> Reader, sim |-> 0, waiting |-> FALSE,
                   others |-> 0, closed |-> FALSE]
  BY <1>1 DEF EngineInit
<1>7. NodeUp
  BY <1>2, <1>6, FlowStart DEF NodeUp
<1>8. t \in Seq(AnyMessages) /\ Acks(t) = << >> /\ Payloads(t, kConsoleOut) = p.print
  BY <1>4 DEF Carries
<1>. HIDE DEF Reader, Readers, Messages, AnyMessages
<1>9. EngineHalf /\ NodeTyped
  <2>1. node.todo = t
    BY <1>2 DEF t
  <2>. QED  BY <1>2, <1>3, <1>5, <1>6, <1>8, <2>1 DEF EngineHalf, NodeTyped, NodePcs, t
<1>10. Sayings = t
  BY <1>2, <1>6, <1>8 DEF Sayings, t
<1>11. << >> \in Seq(Seq(Nat)) /\ Rest(<< >>, 0) = << >>
  BY EmptySeq DEF Rest
<1>12. Ticks(<< >>) = << >>
  BY TickAlgebra
<1>13. NodeOwes
  <2>1. Serving(<< >>)
    BY <1>2 DEF Serving
  <2>2. Balance(<< >>, 0, t, << >>)
    BY <1>8, <1>11, <1>12 DEF Balance
  <2>3. past.upSent = << >> /\ Len(past.upGot) = 0
    BY <1>6
  <2>. QED  BY <1>10, <1>11, <2>1, <2>2, <2>3 DEF NodeOwes
<1>14. Printed
  <2>1. p.print \o << >> = p.print
    BY <1>3
  <2>. QED  BY <1>2, <1>8, <1>10, <2>1 DEF Printed
<1>15. TypedInOrder
  <2>1. Payloads(<< >>, kConsoleIn) = << >>
    BY PayloadAlgebra DEF kConsoleIn
  <2>2. past.upSent = << >> /\ Len(past.upGot) = 0 /\ said.read = << >> /\ node.consoleIn = << >>
    BY <1>2, <1>6
  <2>3. (<< >> \o << >>) \o << >> = << >>
    OBVIOUS
  <2>. QED  BY <1>11, <2>1, <2>2, <2>3 DEF TypedInOrder
<1>. QED  BY <1>7, <1>9, <1>13, <1>14, <1>15 DEF NInv, NothingMissed

\* A step of the node's in which it changes as given, and reads up to there.
LEMMA NodeChanges ==
  ASSUME NInv, engine' = engine, up' \in Seq(Nat), down' \in Seq(Nat),
         node' \in [pc : NodePcs, in : Readers, out : Seq(Nat), todo : Seq(AnyMessages),
                    consoleIn : Seq(Nat), consoleOut : Seq(Nat), sim : Nat, at : Nat],
         said' \in [read : Seq(Nat), printed : Seq(Nat)],
         past' \in [upSent : {past.upSent}, upGot : Seq(Messages),
                    downSent : Seq(AnyMessages), downGot : {past.downGot}],
         NodeUp', NothingMissed'
  PROVE  NInv'
<1>1. past.upSent \in Seq(Messages) /\ EngineHalf
  BY NInvTypes DEF NInv
<1>2. EngineHalf'
  <2>. HIDE DEF Messages, AnyMessages, Readers
  <2>1. past' \in [upSent : Seq(Messages), upGot : Seq(Messages),
                   downSent : Seq(AnyMessages), downGot : {past'.downGot}]
    BY <1>1
  <2>. QED  BY <1>1, <2>1 DEF EngineHalf
<1>. QED  BY <1>2 DEF NInv, NodeTyped

LEMMA NodeWritesKeeps ==
  ASSUME NInv, NodeWriteMsg \/ NodeWrites \/ NodeWriteFails \/ NodeEnds
  PROVE  NInv'
<1>1. NodeUp /\ NothingMissed /\ NodeTyped
  BY DEF NInv
<1>2. /\ node \in [pc : NodePcs, in : Readers, out : Seq(Nat), todo : Seq(AnyMessages),
                   consoleIn : Seq(Nat), consoleOut : Seq(Nat), sim : Nat, at : Nat]
      /\ said \in [read : Seq(Nat), printed : Seq(Nat)]
  BY <1>1 DEF NodeTyped
<1>3. /\ past \in [upSent : Seq(Messages), upGot : Seq(Messages),
                   downSent : Seq(AnyMessages), downGot : {past.downGot}]
      /\ up \in Seq(Nat) /\ down \in Seq(Nat) /\ node.out \in Seq(Nat)
      /\ node.todo \in Seq(AnyMessages) /\ past.downSent \in Seq(AnyMessages)
  BY NInvTypes
<1>. HIDE DEF Readers, Messages, AnyMessages, NodePcs
<1>4. CASE NodeWriteMsg
  <2>. DEFINE m == Head(node.todo)
  <2>1. /\ node.todo # << >> /\ UNCHANGED <<engine, up, down, said>>
        /\ node' = [node EXCEPT !.out = Encode(m), !.todo = Tail(@)]
        /\ past' = [past EXCEPT !.downSent = Append(@, m)]
    BY <1>4 DEF NodeWriteMsg
  <2>2. /\ m \in AnyMessages /\ Tail(node.todo) \in Seq(AnyMessages)
        /\ Append(past.downSent, m) \in Seq(AnyMessages)
        /\ Append(past.downSent, m) \o Tail(node.todo) = past.downSent \o node.todo
    BY <1>3, <2>1, HeadMoved
  <2>. HIDE DEF m
  <2>3. Encode(m) \in Seq(Nat)
    BY <2>2, EncodeAny
  <2>4. /\ node' \in [pc : {node.pc}, in : {node.in}, out : Seq(Nat), todo : {Tail(node.todo)},
                      consoleIn : {node.consoleIn}, consoleOut : {node.consoleOut},
                      sim : Nat, at : {node.at}]
        /\ past' \in [upSent : {past.upSent}, upGot : {past.upGot},
                      downSent : {Append(past.downSent, m)}, downGot : {past.downGot}]
    BY <1>2, <1>3, <2>1, <2>3
  <2>5. Sayings' = Sayings
    BY <2>2, <2>4 DEF Sayings
  <2>6. NothingMissed'
    BY <1>1, <2>1, <2>4, <2>5, NothingHappens
  <2>7. NodeUp'
    BY <1>1, <2>1, <2>4 DEF NodeUp
  <2>8. /\ node' \in [pc : NodePcs, in : Readers, out : Seq(Nat), todo : Seq(AnyMessages),
                      consoleIn : Seq(Nat), consoleOut : Seq(Nat), sim : Nat, at : Nat]
        /\ past' \in [upSent : {past.upSent}, upGot : Seq(Messages),
                      downSent : Seq(AnyMessages), downGot : {past.downGot}]
    BY <1>2, <1>3, <2>2, <2>4
  <2>. QED  BY <1>2, <1>3, <2>1, <2>6, <2>7, <2>8, NodeChanges
<1>5. CASE NodeWrites \/ NodeWriteFails \/ NodeEnds
  <2>1. /\ UNCHANGED <<engine, up, past, said>> /\ down' \in Seq(Nat)
        /\ node' \in [pc : {node.pc, "closed"}, in : {node.in}, out : Seq(Nat), todo : {node.todo},
                      consoleIn : {node.consoleIn}, consoleOut : {node.consoleOut},
                      sim : {node.sim}, at : {node.at}]
    <3>1. CASE NodeWrites
      <4>1. PICK k \in Writes(node.out, down) :
              /\ down' = down \o First(node.out, k)
              /\ node' = [node EXCEPT !.out = Rest(@, k)]
        BY <3>1 DEF NodeWrites
      <4>2. Flow(past.upSent, past.upGot, node.in, up, engine.out, engine.closed)
        BY <1>1 DEF NodeUp
      <4>3. down \o First(node.out, k) \in Seq(Nat) /\ Rest(node.out, k) \in Seq(Nat)
        <5>1. k \in Nat /\ k <= Len(node.out)
          BY <1>3, FramingAssumption DEF Writes, Least
        <5>2. First(node.out, k) \in Seq(Nat) /\ Rest(node.out, k) \in Seq(Nat)
          BY <1>3, <5>1, Cut
        <5>. QED  BY <1>3, <5>2
      <4>. QED  BY <1>2, <3>1, <4>1, <4>3 DEF NodeWrites
    <3>2. CASE NodeWriteFails
      <4>1. /\ UNCHANGED <<engine, up, past, said, down>>
            /\ \E pc \in {node.pc, "closed"} : node' = [node EXCEPT !.pc = pc, !.out = << >>]
        BY <3>2 DEF NodeWriteFails
      <4>2. << >> \in Seq(Nat)
        OBVIOUS
      <4>. QED  BY <1>2, <1>3, <4>1, <4>2
    <3>3. CASE NodeEnds
      BY <1>2, <1>3, <3>3 DEF NodeEnds
    <3>. QED  BY <1>5, <3>1, <3>2, <3>3
  <2>2. Sayings' = Sayings
    BY <2>1 DEF Sayings
  <2>3. NothingMissed'
    BY <1>1, <2>1, <2>2, NothingHappens
  <2>4. NodeUp'
    BY <1>1, <2>1 DEF NodeUp
  <2>5. /\ node' \in [pc : NodePcs, in : Readers, out : Seq(Nat), todo : Seq(AnyMessages),
                      consoleIn : Seq(Nat), consoleOut : Seq(Nat), sim : Nat, at : Nat]
        /\ past' \in [upSent : {past.upSent}, upGot : Seq(Messages),
                      downSent : Seq(AnyMessages), downGot : {past.downGot}]
    <3>1. "closed" \in NodePcs
      BY DEF NodePcs
    <3>. QED  BY <1>2, <1>3, <2>1, <3>1
  <2>. QED  BY <1>2, <1>3, <2>1, <2>3, <2>4, <2>5, NodeChanges
<1>. QED  BY <1>4, <1>5

LEMMA NodeReadsKeeps ==
  ASSUME NInv, NodeReads \/ NodeAsksPayload
  PROVE  NInv'
<1>1. NodeUp /\ NothingMissed /\ NodeTyped
  BY DEF NInv
<1>2. /\ node \in [pc : NodePcs, in : Readers, out : Seq(Nat), todo : Seq(AnyMessages),
                   consoleIn : Seq(Nat), consoleOut : Seq(Nat), sim : Nat, at : Nat]
      /\ said \in [read : Seq(Nat), printed : Seq(Nat)]
  BY <1>1 DEF NodeTyped
<1>3. /\ past \in [upSent : Seq(Messages), upGot : Seq(Messages),
                   downSent : Seq(AnyMessages), downGot : {past.downGot}]
      /\ up \in Seq(Nat) /\ down \in Seq(Nat) /\ node.in \in Readers /\ engine.out \in Seq(Nat)
  BY NInvTypes
<1>4. Flow(past.upSent, past.upGot, node.in, up, engine.out, engine.closed)
  BY <1>1 DEF NodeUp
<1>5. ASSUME NEW r \in Readers, node' = [node EXCEPT !.in = r], UNCHANGED <<engine, down, past, said>>,
             up' \in Seq(Nat), Flow(past.upSent, past.upGot, r, up', engine.out, engine.closed)
      PROVE  NInv'
  <2>. HIDE DEF Readers, Messages, AnyMessages, NodePcs
  <2>1. node' \in [pc : {node.pc}, in : {r}, out : {node.out}, todo : {node.todo},
                   consoleIn : {node.consoleIn}, consoleOut : {node.consoleOut},
                   sim : {node.sim}, at : {node.at}]
    BY <1>2, <1>5
  <2>2. Sayings' = Sayings
    BY <1>5, <2>1 DEF Sayings
  <2>3. NothingMissed'
    BY <1>1, <1>5, <2>1, <2>2, NothingHappens
  <2>4. NodeUp'
    BY <1>5, <2>1 DEF NodeUp
  <2>5. /\ node' \in [pc : NodePcs, in : Readers, out : Seq(Nat), todo : Seq(AnyMessages),
                      consoleIn : Seq(Nat), consoleOut : Seq(Nat), sim : Nat, at : Nat]
        /\ past' \in [upSent : {past.upSent}, upGot : Seq(Messages),
                      downSent : Seq(AnyMessages), downGot : {past.downGot}]
    BY <1>2, <1>3, <1>5, <2>1
  <2>. QED  BY <1>2, <1>3, <1>5, <2>3, <2>4, <2>5, NodeChanges
<1>6. CASE NodeReads
  <2>1. PICK k \in Reads(node.in, up) :
          /\ node' = [node EXCEPT !.in = Took(@, First(up, k))]
          /\ up' = Rest(up, k)
    BY <1>6 DEF NodeReads
  <2>2. UNCHANGED <<engine, down, past, said>>
    BY <1>6 DEF NodeReads
  <2>. DEFINE r == Took(node.in, First(up, k))
  <2>3. /\ r \in Readers /\ Rest(up, k) \in Seq(Nat)
        /\ Flow(past.upSent, past.upGot, r, Rest(up, k), engine.out, engine.closed)
    BY <1>3, <1>4, FlowRead
  <2>4. node' = [node EXCEPT !.in = r]
    BY <1>2, <2>1
  <2>. HIDE DEF r, Readers
  <2>. QED  BY <1>5, <2>1, <2>2, <2>3, <2>4
<1>7. CASE NodeAsksPayload
  <2>1. /\ AtPayload(node.in) /\ UNCHANGED <<engine, up, down, past, said>>
        /\ node' = [node EXCEPT !.in.need = Length(node.in)]
    BY <1>7 DEF NodeAsksPayload
  <2>. DEFINE r == [node.in EXCEPT !.need = Length(node.in)]
  <2>2. r \in Readers /\ Flow(past.upSent, past.upGot, r, up, engine.out, engine.closed)
    BY <1>3, <1>4, <2>1, FlowAsks
  <2>3. node' = [node EXCEPT !.in = r]
    BY <1>2, <2>1
  <2>. HIDE DEF r, Readers
  <2>. QED  BY <1>3, <1>5, <2>1, <2>2, <2>3
<1>. QED  BY <1>6, <1>7

\* A message is got: the next of those sent, and none of the others.
LEMMA NodeGets ==
  ASSUME NInv, NEW kind \in Nat, NodeHandles(kind)
  PROVE  LET n == Len(past.upGot)
             m == past.upSent[n + 1]
         IN /\ n < Len(past.upSent) /\ m \in AnyMessages /\ Decoded(node.in) = m /\ m.kind = kind
            /\ node.pc = "read" /\ node.todo = << >> /\ UNCHANGED <<engine, up, down, said>>
            /\ past' = [past EXCEPT !.upGot = Append(@, m)]
            /\ Append(past.upGot, m) \in Seq(Messages) /\ Len(Append(past.upGot, m)) = n + 1
            /\ Reader \in Readers
            /\ Flow(past.upSent, Append(past.upGot, m), Reader, up, engine.out, engine.closed)
            /\ Balance(past.upSent, n + 1, past.downSent, TickOf(m))
            /\ past.downSent \o << >> = past.downSent
            /\ Payloads(past.upSent, kConsoleIn)
                 = (said.read \o node.consoleIn)
                     \o (PayloadIf(m, kConsoleIn) \o Payloads(Rest(past.upSent, n + 1), kConsoleIn))
            /\ Payloads(Rest(past.upSent, n + 1), kConsoleIn) \in Seq(Nat)
<1>. DEFINE n == Len(past.upGot)
            m == past.upSent[n + 1]
<1>1. NodeUp /\ NothingMissed
  BY DEF NInv
<1>2. /\ past.upSent \in Seq(Messages) /\ past.upGot \in Seq(Messages) /\ node.in \in Readers
      /\ up \in Seq(Nat) /\ engine.out \in Seq(Nat) /\ past.upSent \in Seq(AnyMessages)
      /\ past.downSent \in Seq(AnyMessages) /\ said.read \in Seq(Nat) /\ node.consoleIn \in Seq(Nat)
  BY NInvTypes
<1>3. /\ node.pc = "read" /\ node.todo = << >> /\ UNCHANGED <<engine, up, down, said>>
      /\ Whole(node.in) /\ Decoded(node.in).kind = kind
      /\ past' = [past EXCEPT !.upGot = Append(@, Decoded(node.in))]
  BY DEF NodeHandles, Idle
<1>4. /\ Len(past.upGot) < Len(past.upSent) /\ Decoded(node.in) = past.upSent[Len(past.upGot) + 1]
      /\ Decoded(node.in) \in Messages
      /\ Flow(past.upSent, Append(past.upGot, Decoded(node.in)), Reader, up, engine.out, engine.closed)
  BY <1>1, <1>2, <1>3, FlowDecode DEF NodeUp
<1>5. n \in Nat /\ n < Len(past.upSent) /\ m \in Messages /\ Decoded(node.in) = m
  BY <1>2, <1>4
<1>6. Reader \in Readers
  BY EmptySeq DEF Reader, Readers
<1>7. m \in AnyMessages
  BY <1>5 DEF Messages, AnyMessages
<1>8. Append(past.upGot, m) \in Seq(Messages) /\ Len(Append(past.upGot, m)) = n + 1
  <2>. HIDE DEF Messages, m
  <2>. QED  BY <1>2, <1>5
<1>9. past.downSent \o << >> = past.downSent
  <2>. HIDE DEF AnyMessages
  <2>. QED  BY <1>2
<1>10. Sayings = past.downSent
  BY <1>3, <1>9 DEF Sayings
<1>11. Balance(past.upSent, n + 1, past.downSent, TickOf(m))
  <2>1. Balance(past.upSent, n, past.downSent, << >>)
    BY <1>1, <1>3, <1>10 DEF NothingMissed, NodeOwes, Serving
  <2>2. Balance(past.upSent, n + 1, past.downSent, TickOf(past.upSent[n + 1]))
    <3>. HIDE DEF n, AnyMessages
    <3>. QED  BY <1>2, <1>5, <2>1, BalanceGet
  <2>. QED  BY <2>2
<1>. DEFINE r == Rest(past.upSent, n + 1)
<1>12. r \in Seq(AnyMessages) /\ Rest(past.upSent, n) = << m >> \o r
  <2>1. n <= Len(past.upSent)
    BY <1>5
  <2>. HIDE DEF n, AnyMessages, Messages
  <2>. QED  BY <1>2, <1>5, <1>7, <2>1, Unread
<1>13. kConsoleIn \in Nat
  BY DEF kConsoleIn
<1>. HIDE DEF r, m, n, AnyMessages, Messages, Readers
<1>14. /\ Payloads(Rest(past.upSent, n), kConsoleIn) = PayloadIf(m, kConsoleIn) \o Payloads(r, kConsoleIn)
       /\ Payloads(r, kConsoleIn) \in Seq(Nat)
  <2>1. << m >> \in Seq(AnyMessages)
    BY <1>7
  <2>2. Payloads(<< m >> \o r, kConsoleIn) = Payloads(<< m >>, kConsoleIn) \o Payloads(r, kConsoleIn)
    BY ONLY <1>12, <1>13, <2>1, PayloadAlgebra, Zenon
  <2>3. Payloads(<< m >>, kConsoleIn) = PayloadIf(m, kConsoleIn) /\ Payloads(r, kConsoleIn) \in Seq(Nat)
    BY <1>7, <1>12, <1>13, PayloadAlgebra
  <2>. QED  BY <1>12, <2>2, <2>3
<1>15. Payloads(past.upSent, kConsoleIn)
         = (said.read \o node.consoleIn) \o Payloads(Rest(past.upSent, n), kConsoleIn)
  BY <1>1 DEF NothingMissed, TypedInOrder, n
<1>. QED
  BY <1>3, <1>4, <1>5, <1>6, <1>7, <1>8, <1>9, <1>11, <1>14, <1>15 DEF r, m, n

LEMMA NodeHandleKeeps ==
  ASSUME NInv, HandleConsoleIn \/ HandleTick
  PROVE  NInv'
<1>. DEFINE n == Len(past.upGot)
            m == past.upSent[n + 1]
            r == Rest(past.upSent, n + 1)
            rest == Payloads(r, kConsoleIn)
            got == Append(past.upGot, m)
<1>1. /\ node \in [pc : NodePcs, in : Readers, out : Seq(Nat), todo : Seq(AnyMessages),
                   consoleIn : Seq(Nat), consoleOut : Seq(Nat), sim : Nat, at : Nat]
      /\ said \in [read : Seq(Nat), printed : Seq(Nat)]
      /\ past \in [upSent : Seq(Messages), upGot : Seq(Messages),
                   downSent : Seq(AnyMessages), downGot : {past.downGot}]
      /\ past.upSent \in Seq(Messages) /\ past.upGot \in Seq(Messages)
      /\ past.downSent \in Seq(AnyMessages) /\ up \in Seq(Nat) /\ down \in Seq(Nat)
      /\ node.consoleIn \in Seq(Nat) /\ said.read \in Seq(Nat) /\ node.pc \in NodePcs
  BY NInvTypes DEF NInv, NodeTyped
<1>2. \E kind \in {kConsoleIn, kTick} : NodeHandles(kind)
  BY DEF HandleConsoleIn, HandleTick
<1>3. kConsoleIn \in Nat /\ kTick \in Nat
  BY DEF kConsoleIn, kTick
<1>4. /\ n < Len(past.upSent) /\ m \in AnyMessages /\ Decoded(node.in) = m
      /\ node.pc = "read" /\ node.todo = << >> /\ UNCHANGED <<engine, up, down, said>>
      /\ past' = [past EXCEPT !.upGot = Append(@, m)]
      /\ got \in Seq(Messages) /\ Len(got) = n + 1
      /\ Reader \in Readers
      /\ Flow(past.upSent, got, Reader, up, engine.out, engine.closed)
      /\ Balance(past.upSent, n + 1, past.downSent, TickOf(m))
      /\ past.downSent \o << >> = past.downSent
      /\ Payloads(past.upSent, kConsoleIn)
           = (said.read \o node.consoleIn) \o (PayloadIf(m, kConsoleIn) \o rest)
      /\ rest \in Seq(Nat)
  BY <1>2, <1>3, NodeGets
<1>5. m.payload \in Seq(Nat) /\ PayloadIf(m, kConsoleIn) \in Seq(Nat) /\ m.kind \in Nat
  BY <1>4, EmptySeq DEF AnyMessages, PayloadIf
<1>6. HandleConsoleIn => m.kind = kConsoleIn
  BY <1>4 DEF HandleConsoleIn, NodeHandles
<1>7. HandleTick => m.kind = kTick
  BY <1>4 DEF HandleTick, NodeHandles
<1>. HIDE DEF m, n, r, rest, got, Readers, Messages, AnyMessages, NodePcs, Reader
<1>8. /\ past'.upSent = past.upSent /\ past'.upGot = got /\ past'.downSent = past.downSent
      /\ past' \in [upSent : {past.upSent}, upGot : Seq(Messages),
                    downSent : Seq(AnyMessages), downGot : {past.downGot}]
  BY <1>1, <1>4 DEF got
<1>9. SUFFICES /\ node' \in [pc : NodePcs, in : {Reader}, out : Seq(Nat), todo : {<< >>},
                             consoleIn : {node.consoleIn \o PayloadIf(m, kConsoleIn)},
                             consoleOut : {node.consoleOut}, sim : Nat, at : Nat]
               /\ \E due \in Seq(Seq(Nat)) : Serving(due)' /\ due = TickOf(m)
  <2>0. << >> \in Seq(AnyMessages)
    BY EmptySeq
  <2>1. node.consoleIn \o PayloadIf(m, kConsoleIn) \in Seq(Nat)
    BY <1>1, <1>5
  <2>2. node' \in [pc : NodePcs, in : Readers, out : Seq(Nat), todo : Seq(AnyMessages),
                   consoleIn : Seq(Nat), consoleOut : Seq(Nat), sim : Nat, at : Nat]
    <3>1. node.consoleOut \in Seq(Nat)
      BY <1>1
    <3>. QED  BY <1>4, <1>9, <2>0, <2>1, <3>1
  <2>3. Sayings' = past.downSent /\ Sayings = past.downSent
    BY <1>4, <1>8, <1>9 DEF Sayings
  <2>4. NodeUp'
    BY <1>4, <1>8, <1>9 DEF NodeUp
  <2>5. NodeOwes'
    BY <1>4, <1>8, <1>9, <2>3 DEF NodeOwes, Sayings
  <2>6. Printed'
    <3>1. Printed /\ node'.consoleOut = node.consoleOut
      BY <1>9 DEF NInv, NothingMissed
    <3>. QED  BY <1>4, <2>3, <3>1 DEF Printed
  <2>7. TypedInOrder'
    <3>. DEFINE a == said.read
                b == node.consoleIn
                c == PayloadIf(m, kConsoleIn)
    <3>1. a \in Seq(Nat) /\ b \in Seq(Nat) /\ c \in Seq(Nat) /\ rest \in Seq(Nat)
      BY <1>1, <1>4, <1>5
    <3>2. Payloads(past.upSent, kConsoleIn) = (a \o b) \o (c \o rest)
      BY <1>4
    <3>3. said'.read = a /\ node'.consoleIn = b \o c /\ past'.upSent = past.upSent /\ Len(past'.upGot) = n + 1
      BY <1>4, <1>8, <1>9
    <3>. HIDE DEF a, b, c
    <3>4. (a \o b) \o (c \o rest) = (a \o (b \o c)) \o rest
      BY ONLY <3>1, SMTT(60)
    <3>. QED  BY <3>2, <3>3, <3>4 DEF TypedInOrder, rest, r
  <2>. QED  BY <1>1, <1>4, <1>8, <2>2, <2>4, <2>5, <2>6, <2>7, NodeChanges DEF NothingMissed
<1>10. CASE HandleConsoleIn
  <2>1. node' = [node EXCEPT !.in = Reader, !.consoleIn = @ \o m.payload]
    BY <1>4, <1>10 DEF HandleConsoleIn
  <2>2. PayloadIf(m, kConsoleIn) = m.payload /\ TickOf(m) = << >>
    BY <1>6, <1>10 DEF PayloadIf, TickOf, kConsoleIn, kTick
  <2>3. << >> \in Seq(Seq(Nat))
    BY EmptySeq
  <2>4. node' \in [pc : {"read"}, in : {Reader}, out : Seq(Nat), todo : {<< >>},
                   consoleIn : {node.consoleIn \o PayloadIf(m, kConsoleIn)},
                   consoleOut : {node.consoleOut}, sim : Nat, at : Nat]
    BY <1>1, <1>4, <2>1, <2>2
  <2>5. Serving(<< >>)'
    BY <2>4 DEF Serving
  <2>6. "read" \in NodePcs
    BY DEF NodePcs
  <2>. QED  BY <2>2, <2>3, <2>4, <2>5, <2>6
<1>11. CASE HandleTick
  <2>. DEFINE at == m.payload
  <2>1. node' = IF Len(at) = 1
                THEN [node EXCEPT !.in = Reader, !.pc = "loop", !.at = at[1]]
                ELSE [node EXCEPT !.in = Reader, !.todo = Timeless]
    BY <1>4, <1>11 DEF HandleTick
  <2>2. PayloadIf(m, kConsoleIn) = << >>
    BY <1>7, <1>11 DEF PayloadIf, kConsoleIn, kTick
  <2>3. node.consoleIn \o PayloadIf(m, kConsoleIn) = node.consoleIn
    BY <1>1, <2>2
  <2>4. CASE Len(at) = 1
    <3>1. node' = [node EXCEPT !.in = Reader, !.pc = "loop", !.at = at[1]]
      BY <2>1, <2>4
    <3>2. TickOf(m) = << at >> /\ at = << at[1] >> /\ at[1] \in Nat
      BY <1>5, <1>7, <1>11, <2>4 DEF TickOf
    <3>3. << at >> \in Seq(Seq(Nat))
      <4>1. ASSUME NEW B, NEW x \in B
            PROVE  << x >> \in Seq(B)
        OBVIOUS
      <4>. QED  BY <1>5, <4>1
    <3>. DEFINE t == at[1]
    <3>4. t \in Nat /\ node' = [node EXCEPT !.in = Reader, !.pc = "loop", !.at = t]
      BY <3>1, <3>2
    <3>. HIDE DEF t
    <3>5. node' \in [pc : {"loop"}, in : {Reader}, out : Seq(Nat), todo : {<< >>},
                     consoleIn : {node.consoleIn \o PayloadIf(m, kConsoleIn)},
                     consoleOut : {node.consoleOut}, sim : Nat, at : {t}]
      BY <1>1, <1>4, <2>3, <3>4
    <3>6. \A due : due = << << t >> >> => Serving(due)'
      BY <3>5 DEF Serving
    <3>. DEFINE d == TickOf(m)
    <3>7. d = << << t >> >> /\ d \in Seq(Seq(Nat))
      BY <3>2, <3>3 DEF t
    <3>8. "loop" \in NodePcs
      BY DEF NodePcs
    <3>9. \E due \in Seq(Seq(Nat)) : Serving(due)' /\ due = d
      <4>. HIDE DEF d
      <4>. QED  BY ONLY <3>6, <3>7, Zenon
    <3>. QED  BY <3>4, <3>5, <3>8, <3>9
  <2>5. CASE Len(at) # 1
    <3>1. node' = [node EXCEPT !.in = Reader, !.todo = << >>]
      BY <2>1, <2>5 DEF Timeless
    <3>2. TickOf(m) = << >>
      BY <2>5 DEF TickOf
    <3>3. << >> \in Seq(Seq(Nat))
      BY EmptySeq
    <3>4. node' \in [pc : {"read"}, in : {Reader}, out : Seq(Nat), todo : {<< >>},
                     consoleIn : {node.consoleIn \o PayloadIf(m, kConsoleIn)},
                     consoleOut : {node.consoleOut}, sim : Nat, at : Nat]
      BY <1>1, <1>4, <2>3, <3>1
    <3>5. Serving(<< >>)'
      BY <3>4 DEF Serving
    <3>6. "read" \in NodePcs
      BY DEF NodePcs
    <3>. QED  BY <3>2, <3>3, <3>4, <3>5, <3>6
  <2>. QED  BY <2>4, <2>5
<1>. QED  BY <1>10, <1>11

LEMMA CliReadsKeeps ==
  ASSUME NInv, CliReads
  PROVE  NInv'
<1>1. /\ node \in [pc : NodePcs, in : Readers, out : Seq(Nat), todo : Seq(AnyMessages),
                   consoleIn : Seq(Nat), consoleOut : Seq(Nat), sim : Nat, at : Nat]
      /\ said \in [read : Seq(Nat), printed : Seq(Nat)]
      /\ past \in [upSent : Seq(Messages), upGot : Seq(Messages),
                   downSent : Seq(AnyMessages), downGot : {past.downGot}]
      /\ up \in Seq(Nat) /\ down \in Seq(Nat)
      /\ node.consoleIn \in Seq(Nat) /\ said.read \in Seq(Nat)
      /\ NodeUp /\ NothingMissed
  BY NInvTypes DEF NInv, NodeTyped
<1>. DEFINE b == Head(node.consoleIn)
            q == Tail(node.consoleIn)
<1>2. /\ node.consoleIn # << >> /\ UNCHANGED <<engine, up, down, past>>
      /\ node' = [node EXCEPT !.consoleIn = q] /\ said' = [said EXCEPT !.read = Append(@, b)]
  BY DEF CliReads, Available
<1>3. q \in Seq(Nat) /\ Append(said.read, b) \in Seq(Nat) /\ Append(said.read, b) \o q = said.read \o node.consoleIn
  <2>. DEFINE s == said.read
              t == node.consoleIn
  <2>1. s \in Seq(Nat) /\ t \in Seq(Nat) /\ t # << >>
    BY <1>1, <1>2
  <2>. HIDE DEF s, t
  <2>2. /\ Tail(t) \in Seq(Nat) /\ Append(s, Head(t)) \in Seq(Nat)
        /\ Append(s, Head(t)) \o Tail(t) = s \o t
    BY <2>1, HeadMoved
  <2>. QED  BY <2>2 DEF s, t
<1>. HIDE DEF b, q, Readers, Messages, AnyMessages, NodePcs
<1>4. /\ node' \in [pc : {node.pc}, in : {node.in}, out : {node.out}, todo : {node.todo},
                    consoleIn : {q}, consoleOut : {node.consoleOut}, sim : {node.sim}, at : {node.at}]
      /\ said' \in [read : {Append(said.read, b)}, printed : {said.printed}]
  BY <1>1, <1>2
<1>5. Sayings' = Sayings
  BY <1>2, <1>4 DEF Sayings
<1>6. NodeOwes' /\ Printed' /\ NodeUp'
  <2>1. PICK due \in Seq(Seq(Nat)) :
          Serving(due) /\ Balance(past.upSent, Len(past.upGot), Sayings, due)
    BY <1>1 DEF NothingMissed, NodeOwes
  <2>2. Serving(due)'
    BY <1>4, <2>1 DEF Serving
  <2>3. NodeOwes'
    BY <1>2, <1>5, <2>1, <2>2 DEF NodeOwes
  <2>. QED  BY <1>1, <1>2, <1>4, <1>5, <2>3 DEF NothingMissed, Printed, NodeUp
<1>7. TypedInOrder'
  <2>1. said'.read \o node'.consoleIn = said.read \o node.consoleIn
    BY <1>3, <1>4
  <2>. QED  BY <1>1, <1>2, <2>1 DEF NothingMissed, TypedInOrder
<1>8. /\ node' \in [pc : NodePcs, in : Readers, out : Seq(Nat), todo : Seq(AnyMessages),
                    consoleIn : Seq(Nat), consoleOut : Seq(Nat), sim : Nat, at : Nat]
      /\ said' \in [read : Seq(Nat), printed : Seq(Nat)]
      /\ past' \in [upSent : {past.upSent}, upGot : Seq(Messages),
                    downSent : Seq(AnyMessages), downGot : {past.downGot}]
  BY <1>1, <1>2, <1>3, <1>4
<1>. QED  BY <1>1, <1>2, <1>6, <1>7, <1>8, NodeChanges DEF NothingMissed

LEMMA EndPassKeeps ==
  ASSUME NInv, EndPass
  PROVE  NInv'
<1>1. /\ node \in [pc : NodePcs, in : Readers, out : Seq(Nat), todo : Seq(AnyMessages),
                   consoleIn : Seq(Nat), consoleOut : Seq(Nat), sim : Nat, at : Nat]
      /\ said \in [read : Seq(Nat), printed : Seq(Nat)]
      /\ past \in [upSent : Seq(Messages), upGot : Seq(Messages),
                   downSent : Seq(AnyMessages), downGot : {past.downGot}]
      /\ up \in Seq(Nat) /\ down \in Seq(Nat) /\ past.downSent \in Seq(AnyMessages)
      /\ node.consoleOut \in Seq(Nat) /\ said.printed \in Seq(Nat)
      /\ node.sim \in Nat /\ node.at \in Nat
      /\ past.upSent \in Seq(AnyMessages) /\ Len(past.upGot) \in Nat /\ Len(past.upGot) <= Len(past.upSent)
      /\ NodeUp /\ NothingMissed
  BY NInvTypes DEF NInv, NodeTyped
<1>. DEFINE last == node.sim = node.at
<1>2. PICK p \in Passes :
        LET out == node.consoleOut \o p.print
        IN /\ node' = [node EXCEPT
               !.pc = IF last THEN "read" ELSE "loop",
               !.sim = IF last THEN @ ELSE @ + 1,
               !.consoleOut = IF last THEN << >> ELSE out,
               !.todo = Drain(p.packet) \o (IF last THEN TickDone(out) ELSE << >>)]
           /\ said' = [said EXCEPT !.printed = @ \o p.print]
  BY DEF EndPass
<1>3. node.todo = << >> /\ node.pc = "loop" /\ UNCHANGED <<engine, up, down, past>>
  BY DEF EndPass, Idle
<1>. DEFINE out == node.consoleOut \o p.print
            more == Drain(p.packet) \o (IF last THEN TickDone(out) ELSE << >>)
            owed == << << node.at >> >>
            acked == IF last THEN owed ELSE << >>
            flushed == IF last THEN out ELSE << >>
            kept == IF last THEN << >> ELSE out
            due2 == IF last THEN << >> ELSE owed
            pc2 == IF last THEN "read" ELSE "loop"
            sim2 == IF last THEN node.sim ELSE node.sim + 1
<1>4. p.print \in Seq(Nat) /\ p.packet \in Seq(Nat) /\ out \in Seq(Nat)
  BY <1>1, PassesAssumption
<1>5. Carries(more, acked, flushed)
  <2>. DEFINE d == Drain(p.packet)
              t == IF last THEN TickDone(out) ELSE << >>
  <2>1. Carries(d, << >>, << >>)
    BY <1>4, DrainCarries
  <2>2. Carries(t, acked, flushed)
    <3>1. Carries(TickDone(out), owed, out)
      <4>. HIDE DEF out
      <4>. QED  BY <1>1, <1>4, TickDoneCarries
    <3>. QED  BY <3>1, CarriesNone
  <2>3. more = d \o t
    OBVIOUS
  <2>4. << >> \o acked = acked /\ << >> \o flushed = flushed
    <3>1. << >> \o owed = owed /\ << >> \o << >> = << >> /\ << >> \o out = out
      BY <1>4
    <3>. HIDE DEF owed, out, last
    <3>. QED  BY <3>1
  <2>. HIDE DEF d, t, acked, flushed, more
  <2>5. Carries(d \o t, << >> \o acked, << >> \o flushed)
    BY ONLY <2>1, <2>2, CarriesJoin, Zenon
  <2>. QED  BY <2>3, <2>4, <2>5
<1>6. /\ acked \o due2 = owed /\ owed \in Seq(Seq(Nat)) /\ due2 \in Seq(Seq(Nat))
      /\ flushed \o kept = out /\ kept \in Seq(Nat)
  <2>1. owed \in Seq(Seq(Nat)) /\ owed \o << >> = owed /\ << >> \o owed = owed
    <3>1. ASSUME NEW B, NEW x \in B
          PROVE  << x >> \in Seq(B) /\ << x >> \o << >> = << x >> /\ << >> \o << x >> = << x >>
      OBVIOUS
    <3>2. << node.at >> \in Seq(Nat)
      BY <1>1
    <3>. QED  BY <3>1, <3>2
  <2>2. << >> \in Seq(Seq(Nat)) /\ << >> \in Seq(Nat) /\ out \o << >> = out /\ << >> \o out = out
    BY <1>4, EmptySeq
  <2>. HIDE DEF owed, out, last
  <2>. QED  BY <1>4, <2>1, <2>2
<1>7. pc2 \in NodePcs /\ sim2 \in Nat /\ (pc2 = "read" => due2 = << >>) /\ (pc2 = "loop" => due2 = owed)
  BY <1>1 DEF NodePcs
<1>8. /\ node' = [node EXCEPT !.pc = pc2, !.sim = sim2, !.consoleOut = kept, !.todo = more]
      /\ said' = [said EXCEPT !.printed = @ \o p.print]
  BY <1>2
<1>9. more \in Seq(AnyMessages) /\ Acks(more) = acked /\ Payloads(more, kConsoleOut) = flushed
  BY <1>5 DEF Carries
<1>10. Balance(past.upSent, Len(past.upGot), past.downSent, owed)
  <2>1. past.downSent \o << >> = past.downSent
    <3>. HIDE DEF AnyMessages
    <3>. QED  BY <1>1
  <2>2. Sayings = past.downSent
    BY <1>3, <2>1 DEF Sayings
  <2>. QED  BY <1>1, <1>3, <2>2 DEF NothingMissed, NodeOwes, Serving
<1>11. Payloads(past.downSent, kConsoleOut) \o node.consoleOut = said.printed
  <2>1. past.downSent \o << >> = past.downSent
    <3>. HIDE DEF AnyMessages
    <3>. QED  BY <1>1
  <2>. QED  BY <1>1, <1>3, <2>1 DEF NothingMissed, Printed, Sayings
<1>. HIDE DEF more, acked, flushed, kept, due2, pc2, sim2, last, Readers, Messages, AnyMessages, NodePcs
<1>12. /\ node' \in [pc : {pc2}, in : {node.in}, out : {node.out}, todo : {more},
                     consoleIn : {node.consoleIn}, consoleOut : {kept}, sim : {sim2}, at : {node.at}]
       /\ said' \in [read : {said.read}, printed : {said.printed \o p.print}]
  BY <1>1, <1>8
<1>13. Sayings' = past.downSent \o more
  BY <1>3, <1>12 DEF Sayings
<1>14. NodeOwes'
  <2>1. Balance(past.upSent, Len(past.upGot), past.downSent, Acks(more) \o due2)
    BY <1>6, <1>9, <1>10
  <2>2. Balance(past.upSent, Len(past.upGot), past.downSent \o more, due2)
    <3>. DEFINE n == Len(past.upGot)
    <3>1. n \in Nat /\ n <= Len(past.upSent) /\ Balance(past.upSent, n, past.downSent, Acks(more) \o due2)
      BY <1>1, <2>1
    <3>. HIDE DEF n
    <3>2. Balance(past.upSent, n, past.downSent \o more, due2)
      BY <1>1, <1>6, <1>9, <3>1, BalanceAnswer
    <3>. QED  BY <3>2 DEF n
  <2>3. \A d : d = due2 => Serving(d)'
    <3>1. /\ node'.pc = pc2 /\ node'.at = node.at
          /\ (pc2 = "read" => due2 = << >>) /\ (pc2 = "loop" => due2 = << << node.at >> >>)
      BY <1>7, <1>12
    <3>. QED  BY <3>1 DEF Serving
  <2>4. \A d : d = due2 => Balance(past.upSent, Len(past.upGot), past.downSent \o more, d)
    BY <2>2
  <2>5. \E d \in Seq(Seq(Nat)) :
          Serving(d)' /\ Balance(past.upSent, Len(past.upGot), past.downSent \o more, d)
    BY <1>6, <2>3, <2>4
  <2>. QED  BY <1>3, <1>13, <2>5 DEF NodeOwes
<1>15. Printed'
  <2>1. Payloads(past.downSent \o more, kConsoleOut) = Payloads(past.downSent, kConsoleOut) \o flushed
    <3>1. kConsoleOut \in Nat
      BY DEF kConsoleOut
    <3>2. Payloads(past.downSent \o more, kConsoleOut)
            = Payloads(past.downSent, kConsoleOut) \o Payloads(more, kConsoleOut)
      BY ONLY <1>1, <1>9, <3>1, PayloadAlgebra, Zenon
    <3>. QED  BY <1>9, <3>2
  <2>. DEFINE a == Payloads(past.downSent, kConsoleOut)
              b == node.consoleOut
              c == p.print
  <2>2. a \in Seq(Nat) /\ b \in Seq(Nat) /\ c \in Seq(Nat) /\ flushed \in Seq(Nat) /\ kept \in Seq(Nat)
    <3>1. kConsoleOut \in Nat
      BY DEF kConsoleOut
    <3>2. a \in Seq(Nat) /\ Payloads(more, kConsoleOut) \in Seq(Nat)
      BY <1>1, <1>9, <3>1, PayloadAlgebra
    <3>. QED  BY <1>1, <1>4, <1>6, <1>9, <3>2
  <2>3. said.printed = a \o b /\ flushed \o kept = b \o c
    BY <1>6, <1>11
  <2>. HIDE DEF a, b, c
  <2>4. (a \o flushed) \o kept = (a \o b) \o c
    <3>1. (a \o flushed) \o kept = a \o (flushed \o kept)
      BY ONLY <2>2, SMTT(60)
    <3>2. (a \o b) \o c = a \o (b \o c)
      BY ONLY <2>2, SMTT(60)
    <3>. QED  BY <2>3, <3>1, <3>2
  <2>5. Payloads(Sayings', kConsoleOut) \o node'.consoleOut = said'.printed
    BY <1>12, <1>13, <2>1, <2>3, <2>4 DEF a, c
  <2>. QED  BY <2>5 DEF Printed
<1>16. TypedInOrder' /\ NodeUp'
  BY <1>1, <1>3, <1>12 DEF NothingMissed, TypedInOrder, NodeUp
<1>17. /\ node' \in [pc : NodePcs, in : Readers, out : Seq(Nat), todo : Seq(AnyMessages),
                     consoleIn : Seq(Nat), consoleOut : Seq(Nat), sim : Nat, at : Nat]
       /\ said' \in [read : Seq(Nat), printed : Seq(Nat)]
       /\ past' \in [upSent : {past.upSent}, upGot : Seq(Messages),
                     downSent : Seq(AnyMessages), downGot : {past.downGot}]
  <2>1. said.printed \o p.print \in Seq(Nat)
    BY <1>1, <1>4
  <2>. QED  BY <1>1, <1>3, <1>6, <1>7, <1>9, <1>12, <2>1
<1>. QED  BY <1>1, <1>3, <1>14, <1>15, <1>16, <1>17, NodeChanges DEF NothingMissed

\* What the engine sends is unread, be it a tick or typed.
LEMMA UnreadSent ==
  ASSUME NInv, NEW m \in Messages, past' = [past EXCEPT !.upSent = Append(@, m)],
         UNCHANGED <<node, said>>
  PROVE  NothingMissed'
<1>1. /\ past.upSent \in Seq(AnyMessages) /\ Len(past.upGot) \in Nat
      /\ Len(past.upGot) <= Len(past.upSent) /\ Sayings \in Seq(AnyMessages)
      /\ past \in [upSent : Seq(Messages), upGot : Seq(Messages),
                   downSent : Seq(AnyMessages), downGot : {past.downGot}]
      /\ node.consoleIn \in Seq(Nat) /\ said.read \in Seq(Nat) /\ NothingMissed
  BY NInvTypes DEF NInv
<1>2. m \in AnyMessages
  BY DEF Messages, AnyMessages
<1>. DEFINE s == past.upSent
            n == Len(past.upGot)
            r == Rest(s, n)
<1>3. /\ past'.upSent = Append(s, m) /\ past'.upGot = past.upGot /\ past'.downSent = past.downSent
  <2>. HIDE DEF Messages, AnyMessages
  <2>. QED  BY <1>1
<1>4. s \in Seq(AnyMessages) /\ n \in Nat /\ n <= Len(s)
  BY <1>1
<1>. HIDE DEF s, n, Messages, AnyMessages
<1>5. r \in Seq(AnyMessages) /\ Rest(Append(s, m), n) = Append(r, m)
  BY <1>2, <1>4, Unread
<1>6. NodeOwes'
  <2>1. PICK due \in Seq(Seq(Nat)) : Serving(due) /\ Balance(s, n, Sayings, due)
    BY <1>1 DEF NothingMissed, NodeOwes, s, n
  <2>2. Balance(Append(s, m), n, Sayings, due)
    <3>. DEFINE d == Sayings
    <3>1. d \in Seq(AnyMessages) /\ Balance(s, n, d, due)
      BY <1>1, <2>1
    <3>. HIDE DEF d
    <3>2. Balance(Append(s, m), n, d, due)
      BY <1>2, <1>4, <2>1, <3>1, BalanceSend
    <3>. QED  BY <3>2 DEF d
  <2>3. Serving(due)' /\ Sayings' = Sayings
    BY <1>3, <2>1 DEF Serving, Sayings
  <2>4. Balance(past'.upSent, Len(past'.upGot), Sayings', due)
    BY <1>3, <2>2, <2>3 DEF n
  <2>. QED  BY <2>3, <2>4 DEF NodeOwes
<1>7. Printed'
  <2>1. Sayings' = Sayings
    BY <1>3 DEF Sayings
  <2>. QED  BY <1>1, <2>1 DEF NothingMissed, Printed
<1>8. TypedInOrder'
  <2>. DEFINE a == said.read
              b == node.consoleIn
              c == PayloadIf(m, kConsoleIn)
              rest == Payloads(r, kConsoleIn)
  <2>0. kConsoleIn \in Nat
    BY DEF kConsoleIn
  <2>1. /\ Payloads(Append(s, m), kConsoleIn) = Payloads(s, kConsoleIn) \o c
        /\ Payloads(Append(r, m), kConsoleIn) = rest \o c
        /\ c \in Seq(Nat) /\ rest \in Seq(Nat) /\ a \in Seq(Nat) /\ b \in Seq(Nat)
    <3>. HIDE DEF r
    <3>. QED  BY <1>1, <1>2, <1>4, <1>5, <2>0, PayloadAlgebra
  <2>2. Payloads(s, kConsoleIn) = (a \o b) \o rest
    BY <1>1 DEF NothingMissed, TypedInOrder, s, n
  <2>. HIDE DEF a, b, c, rest, r
  <2>3. ((a \o b) \o rest) \o c = (a \o b) \o (rest \o c)
    BY ONLY <2>1, SMTT(60)
  <2>4. Payloads(Append(s, m), kConsoleIn) = (a \o b) \o Payloads(Append(r, m), kConsoleIn)
    BY <2>1, <2>2, <2>3
  <2>5. Payloads(past'.upSent, kConsoleIn)
          = (said'.read \o node'.consoleIn)
              \o Payloads(Rest(past'.upSent, Len(past'.upGot)), kConsoleIn)
    BY <1>3, <1>5, <2>4 DEF a, b, n
  <2>. QED  BY <2>5 DEF TypedInOrder
<1>. QED  BY <1>6, <1>7, <1>8 DEF NothingMissed

LEMMA EngineMovesKeep ==
  ASSUME NInv, EngineMoves, UNCHANGED <<node, said>>
  PROVE  NInv'
<1>1. EngineHalf /\ NodeTyped /\ NodeUp /\ NothingMissed /\ node.in \in Readers
  BY NInvTypes DEF NInv
<1>2. NodeTyped'
  BY <1>1 DEF NodeTyped
<1>3. EngineHalf' /\ NodeUp'
  <2>. DEFINE r == node.in
  <2>1. r \in Readers /\ Flow(past.upSent, past.upGot, r, up, engine.out, engine.closed)
    BY <1>1 DEF NodeUp
  <2>. HIDE DEF r, Readers
  <2>2. EngineHalf' /\ Flow(past'.upSent, past'.upGot, r, up', engine'.out, engine'.closed)
    BY <1>1, <2>1, EngineUpward
  <2>. QED  BY <2>2 DEF NodeUp, r
<1>4. past \in [upSent : Seq(Messages), upGot : Seq(Messages),
                downSent : Seq(AnyMessages), downGot : {past.downGot}]
  BY NInvTypes DEF NInv, EngineHalf
<1>5. CASE \E m \in Messages : past' = [past EXCEPT !.upSent = Append(@, m)]
  <2>1. NothingMissed'
    BY <1>5, UnreadSent
  <2>. QED  BY <1>2, <1>3, <2>1 DEF NInv
<1>6. CASE GotMessage \/ Silent
  <2>1. past'.upSent = past.upSent /\ past'.upGot = past.upGot /\ past'.downSent = past.downSent
    <3>. HIDE DEF Messages, AnyMessages
    <3>. QED  BY <1>4, <1>6 DEF GotMessage, Silent
  <2>2. Sayings' = Sayings
    BY <2>1 DEF Sayings
  <2>3. NothingMissed'
    BY <1>1, <2>1, <2>2, NothingHappens
  <2>. QED  BY <1>2, <1>3, <2>3 DEF NInv
<1>. QED  BY <1>1, <1>5, <1>6, EngineHistory DEF SentOther, SentTick

LEMMA NInvStep == NInv /\ [BridgeNext]_bridgeVars => NInv'
<1>. SUFFICES ASSUME NInv, [BridgeNext]_bridgeVars
              PROVE  NInv'
  OBVIOUS
<1>1. CASE NodeWriteMsg \/ NodeWrites \/ NodeWriteFails \/ NodeEnds
  BY <1>1, NodeWritesKeeps
<1>2. CASE NodeReads \/ NodeAsksPayload
  BY <1>2, NodeReadsKeeps
<1>3. CASE HandleConsoleIn \/ HandleTick
  BY <1>3, NodeHandleKeeps
<1>4. CASE CliReads
  BY <1>4, CliReadsKeeps
<1>5. CASE EndPass
  BY <1>5, EndPassKeeps
<1>6. CASE EngineMoves /\ UNCHANGED <<node, said>>
  BY <1>6, EngineMovesKeep
<1>7. CASE EngineHasGone \/ UNCHANGED bridgeVars
  <2>1. UNCHANGED <<engine, node, up, down, past, said>>
    BY <1>7 DEF EngineHasGone, bridgeVars
  <2>2. EngineHalf' /\ NodeTyped' /\ NodeUp'
    BY <2>1 DEF NInv, EngineHalf, NodeTyped, NodeUp
  <2>3. Sayings' = Sayings
    BY <2>1 DEF Sayings
  <2>4. NothingMissed'
    BY <2>1, <2>3, NothingHappens DEF NInv
  <2>. QED  BY <2>2, <2>4 DEF NInv
<1>. QED  BY <1>1, <1>2, <1>3, <1>4, <1>5, <1>6, <1>7 DEF BridgeNext, Node

\* A native node acknowledges ticks in the order they were sent, each with its own time and
\* once, whatever it prints and transmits and whatever else the engine sends between them.
THEOREM NodeAcksInOrder == BridgeSpec => []AcksAreTicks
PROOF
<1>1. NInv => AcksAreTicks
  <2>. SUFFICES ASSUME NInv
                PROVE  AcksAreTicks
    OBVIOUS
  <2>1. /\ past.upSent \in Seq(AnyMessages) /\ past.downSent \in Seq(AnyMessages)
        /\ node.todo \in Seq(AnyMessages) /\ Len(past.upGot) \in Nat
        /\ Len(past.upGot) <= Len(past.upSent)
    BY NInvTypes
  <2>2. PICK due \in Seq(Seq(Nat)) :
          Balance(past.upSent, Len(past.upGot), past.downSent \o node.todo, due)
    BY DEF NInv, NothingMissed, NodeOwes, Sayings
  <2>. HIDE DEF AnyMessages
  <2>3. /\ Len(Acks(past.downSent)) <= Len(Ticks(past.upSent))
        /\ SubSeq(Ticks(past.upSent), 1, Len(Acks(past.downSent))) = Acks(past.downSent)
    BY <2>1, <2>2, BalanceMeans
  <2>. QED  BY <2>3 DEF AcksAreTicks
<1>. QED  BY <1>1, BridgeInitInv, NInvStep, PTL DEF BridgeSpec

\* What was typed is what the firmware has read, then what the node queues, then what is on
\* its way: nothing is lost, repeated or reordered, however reads and writes are cut.
THEOREM ConsoleInOrder == BridgeSpec => []TypedInOrder
PROOF
<1>1. NInv => TypedInOrder
  BY DEF NInv, NothingMissed
<1>. QED  BY <1>1, BridgeInitInv, NInvStep, PTL DEF BridgeSpec

-----------------------------------------------------------------------------
\* The bound of PrintsFit.
PassMax == CHOOSE n \in Nat : Fits(n)

LEMMA PrintsAreShort ==
  ASSUME PrintsFit
  PROVE  /\ PassMax \in Nat /\ \A p \in Passes : Len(p.print) <= PassMax
         /\ PassMax < Base * Base
         /\ \A k \in EngineLumps : PassMax * k + PassMax < Base * Base
<1>1. PassMax \in Nat /\ Fits(PassMax)
  BY DEF PrintsFit, PassMax
<1>2. \A k \in EngineLumps \cup {0} : (k + 1) * PassMax < Base * Base
  BY <1>1 DEF Fits
<1>. DEFINE n == PassMax
<1>3. n \in Nat /\ Base * Base \in Nat
  BY <1>1, FramingAssumption
<1>4. (0 + 1) * n < Base * Base
  BY <1>2
<1>5. ASSUME NEW k \in EngineLumps
      PROVE  n * k + n < Base * Base
  <2>1. k \in Nat /\ (k + 1) * n < Base * Base
    BY <1>2, EngineEndAssumption
  <2>. HIDE DEF n
  <2>2. (k + 1) * n = n * k + n
    BY ONLY <1>3, <2>1, SMT
  <2>. QED  BY <2>1, <2>2
<1>6. (0 + 1) * n = n
  <2>. HIDE DEF n
  <2>. QED  BY <1>3
<1>. QED  BY <1>1, <1>4, <1>5, <1>6 DEF Fits

\* What fits the header.
LEMMA FlushFits ==
  ASSUME NEW out \in Seq(Nat), Len(out) < Base * Base
  PROVE  Flush(out) \in Seq(Messages)
<1>1. << >> \in Seq(Messages)
  BY EmptySeq
<1>2. Message(kConsoleOut, out) \in Messages
  BY DEF Message, Messages, kConsoleOut
<1>. HIDE DEF Messages
<1>. DEFINE m == Message(kConsoleOut, out)
<1>3. << m >> \in Seq(Messages)
  <2>. HIDE DEF m
  <2>. QED  BY <1>2 DEF m
<1>. QED  BY <1>1, <1>3 DEF Flush

LEMMA DrainFits ==
  ASSUME NEW packet \in Seq(Nat), Len(packet) < Base * Base
  PROVE  Drain(packet) \in Seq(Messages)
<1>1. << >> \in Seq(Messages)
  BY EmptySeq
<1>2. Message(kFrame, packet) \in Messages
  BY DEF Message, Messages, kFrame
<1>. HIDE DEF Messages
<1>. DEFINE m == Message(kFrame, packet)
<1>3. << m >> \in Seq(Messages)
  <2>. HIDE DEF m
  <2>. QED  BY <1>2 DEF m
<1>. QED  BY <1>1, <1>3 DEF Drain

\* After the last pass: what is sent fits the header and ends in the acknowledgement.
EndsInAck(s) == \E t \in Seq(AnyMessages), m \in AnyMessages : m.kind = kAck /\ s = Append(t, m)

LEMMA TickDoneFits ==
  ASSUME node.at \in Nat, NEW out \in Seq(Nat), Len(out) < Base * Base
  PROVE  TickDone(out) \in Seq(Messages) /\ EndsInAck(TickDone(out))
<1>. DEFINE s == Message(kRadioStats, << 0 >>)
            a == Message(kAck, << node.at >>)
            f == Flush(out)
<1>1. s \in Messages /\ a \in Messages /\ a.kind = kAck
  <2>1. /\ << 0 >> \in Seq(Nat) /\ Len(<< 0 >>) <= 1 /\ << node.at >> \in Seq(Nat)
        /\ Len(<< node.at >>) <= 1 /\ kRadioStats \in Nat /\ kAck \in Nat
    BY DEF kRadioStats, kAck
  <2>2. s \in Messages /\ a \in Messages
    BY <2>1, ShortFits
  <2>3. a.kind = kAck
    BY DEF Message
  <2>. QED  BY <2>2, <2>3
<1>2. f \in Seq(Messages)
  BY FlushFits
<1>3. TickDone(out) = f \o << s, a >>
  BY DEF TickDone
<1>4. a \in AnyMessages
  BY <1>1 DEF Messages, AnyMessages
<1>. HIDE DEF s, a, f, Messages
<1>5. << s, a >> \in Seq(Messages) /\ << s >> \in Seq(Messages) /\ << s, a >> = Append(<< s >>, a)
  BY <1>1
<1>6. f \o << s >> \in Seq(Messages)
  BY <1>2, <1>5
<1>7. f \o Append(<< s >>, a) = Append(f \o << s >>, a)
  BY <1>1, <1>2, <1>5
<1>8. f \o << s >> \in Seq(AnyMessages)
  BY <1>6, AnyLength
<1>9. f \o << s, a >> \in Seq(Messages)
  BY <1>2, <1>5
<1>10. f \o << s, a >> = Append(f \o << s >>, a)
  BY <1>5, <1>7
<1>. HIDE DEF AnyMessages
<1>. DEFINE q == f \o << s >>
<1>11. q \in Seq(AnyMessages) /\ TickDone(out) = Append(q, a)
  BY <1>3, <1>8, <1>10
<1>. HIDE DEF q
<1>12. EndsInAck(TickDone(out))
  BY <1>1, <1>4, <1>11 DEF EndsInAck
<1>. QED  BY <1>3, <1>9, <1>12

LEMMA AckJoined ==
  ASSUME NEW s \in Seq(AnyMessages), NEW t \in Seq(AnyMessages), EndsInAck(t)
  PROVE  EndsInAck(s \o t)
<1>1. PICK u \in Seq(AnyMessages), m \in AnyMessages : m.kind = kAck /\ t = Append(u, m)
  BY DEF EndsInAck
<1>. HIDE DEF AnyMessages
<1>2. s \o u \in Seq(AnyMessages) /\ s \o Append(u, m) = Append(s \o u, m)
  BY <1>1
<1>. DEFINE q == s \o u
<1>3. q \in Seq(AnyMessages) /\ s \o t = Append(q, m)
  BY <1>1, <1>2
<1>. HIDE DEF q
<1>. QED  BY <1>1, <1>3 DEF EndsInAck

-----------------------------------------------------------------------------
\* What holds of such a node besides.

\* What comes down is a stream of messages, and what the engine has heard is the first of
\* it.
DownTyped ==
  past.downSent \in Seq(Messages) /\ past.downGot \in Seq(Messages) /\ node.todo \in Seq(Messages)
NodeDown ==
  ~engine.closed => Flow(past.downSent, past.downGot, engine.in, down, node.out, FALSE)
Heard == \E r \in Seq(AnyMessages) : past.downSent = past.downGot \o r

\* One tick at a time: while the engine waits, one is not acknowledged yet.
Counted ==
  ~engine.closed =>
    Len(Ticks(past.upSent)) = Len(Acks(past.downGot)) + (IF engine.waiting THEN 1 ELSE 0)
Ticked == engine.sim > 0 => Ticks(past.upSent) # << >>

\* The node is where the engine is, or a tick behind and about to read it; in a tick it has
\* printed no more than its passes so far could.
Unserved == Ticks(Rest(past.upSent, Len(past.upGot)))
WhileReading ==
  /\ node.consoleOut = << >>
  /\ \/ Unserved = << >> /\ node.sim = engine.sim
     \/ Unserved = << << engine.sim >> >> /\ \E k \in EngineLumps : engine.sim = node.sim + k
WhileLooping ==
  /\ Unserved = << >> /\ node.at = engine.sim
  /\ \E k \in EngineLumps : \E done, left \in Nat :
       /\ done + left = k /\ node.at = node.sim + left
       /\ Len(node.consoleOut) <= PassMax * done

NodeKnows ==
  /\ node.pc = "closed" => engine.closed
  /\ Counted /\ Ticked
  /\ node.pc = "read" => WhileReading
  /\ node.pc = "loop" => WhileLooping
  /\ node.pc = "read" /\ Acks(Sayings) # << >> => EndsInAck(Sayings)

LastInv == DownTyped /\ NodeDown /\ Heard /\ NodeKnows

\* A step that no tick and no acknowledgement is part of, and no pass of loop().
LEMMA KnowsKept ==
  ASSUME NodeKnows, engine'.sim = engine.sim, engine'.waiting = engine.waiting,
         engine.closed => engine'.closed,
         node'.pc = node.pc \/ (node'.pc = "closed" /\ engine'.closed),
         node'.sim = node.sim, node'.at = node.at, node'.consoleOut = node.consoleOut,
         Sayings' = Sayings, past'.downGot = past.downGot,
         Ticks(past'.upSent) = Ticks(past.upSent), Unserved' = Unserved
  PROVE  NodeKnows'
<1>1. Counted' /\ Ticked'
  BY DEF NodeKnows, Counted, Ticked
<1>2. WhileReading => WhileReading'
  BY DEF WhileReading
<1>3. WhileLooping => WhileLooping'
  BY DEF WhileLooping
<1>. QED  BY <1>1, <1>2, <1>3 DEF NodeKnows

LEMMA LastInit ==
  ASSUME PrintsFit, BridgeInit
  PROVE  LastInv
<1>1. EngineInit
  BY DEF BridgeInit
<1>2. PICK p \in Passes :
        /\ node = [pc |-> "read", in |-> Reader, out |-> << >>,
                   todo |-> Drain(p.packet) \o Flush(p.print),
                   consoleIn |-> << >>, consoleOut |-> << >>, sim |-> 0, at |-> 0]
        /\ said = [read |-> << >>, printed |-> p.print]
  BY DEF BridgeInit
<1>3. /\ p.packet \in Seq(Nat) /\ p.print \in Seq(Nat) /\ Len(p.packet) < Base * Base
      /\ Len(p.print) < Base * Base
  <2>1. /\ p.packet \in Seq(Nat) /\ p.print \in Seq(Nat) /\ Len(p.packet) < Base * Base
        /\ Len(p.print) <= PassMax /\ PassMax \in Nat /\ PassMax < Base * Base /\ Base * Base \in Nat
    BY PassesAssumption, PrintsAreShort, FramingAssumption
  <2>. QED  BY <2>1
<1>4. /\ past = [upSent |-> << >>, upGot |-> << >>, downSent |-> << >>, downGot |-> << >>]
      /\ up = << >> /\ down = << >>
      /\ engine = [out |-> << >>, in |-> Reader, sim |-> 0, waiting |-> FALSE,
                   others |-> 0, closed |-> FALSE]
  BY <1>1 DEF EngineInit
<1>. DEFINE t == Drain(p.packet) \o Flush(p.print)
<1>5. t \in Seq(Messages)
  <2>1. Drain(p.packet) \in Seq(Messages) /\ Flush(p.print) \in Seq(Messages)
    BY <1>3, DrainFits, FlushFits
  <2>. HIDE DEF Messages
  <2>. QED  BY <2>1
<1>6. Acks(t) = << >>
  <2>1. Carries(Drain(p.packet), << >>, << >>) /\ Carries(Flush(p.print), << >>, p.print)
    BY <1>3, DrainCarries, FlushCarries
  <2>2. Carries(t, << >> \o << >>, << >> \o p.print)
    BY ONLY <2>1, CarriesJoin, Zenon
  <2>. QED  BY <2>2 DEF Carries
<1>. HIDE DEF t
<1>7. node.todo = t /\ node.pc = "read" /\ node.consoleOut = << >> /\ node.sim = 0
  BY <1>2 DEF t
<1>8. << >> \in Seq(Messages) /\ << >> \in Seq(AnyMessages) /\ << >> \o << >> = << >>
  BY EmptySeq
<1>9. << >> \o t = t
  <2>. HIDE DEF Messages
  <2>. QED  BY <1>5
<1>10. Sayings = t
  BY <1>4, <1>7, <1>9 DEF Sayings
<1>11. Ticks(<< >>) = << >> /\ Acks(<< >>) = << >> /\ Rest(<< >>, Len(<< >>)) = << >>
  <2>1. Rest(<< >>, Len(<< >>)) = << >>
    BY DEF Rest
  <2>. QED  BY <2>1, TickAlgebra, AckAlgebra
<1>12. Heard
  BY <1>4, <1>8 DEF Heard
<1>13. DownTyped
  BY <1>4, <1>5, <1>7, <1>8 DEF DownTyped
<1>14. NodeDown
  BY <1>2, <1>4, FlowStart DEF NodeDown
<1>15. Counted /\ Ticked
  BY <1>4, <1>11 DEF Counted, Ticked
<1>16. WhileReading
  BY <1>4, <1>7, <1>11 DEF WhileReading, Unserved
<1>. QED  BY <1>6, <1>7, <1>10, <1>12, <1>13, <1>14, <1>15, <1>16 DEF LastInv, NodeKnows

LEMMA OneInAll ==
  ASSUME NEW A, NEW a \in A, NEW b \in A, NEW s \in Seq(A)
  PROVE  << a >> \o s # << >> /\ (<< a >> \o s = << b >> => a = b /\ s = << >>)
<1>. DEFINE q == << a >> \o s
            e == << b >>
            z == << >>
<1>1. /\ Len(q) = 1 + Len(s) /\ q[1] = a /\ Len(e) = 1 /\ e[1] = b /\ Len(s) \in Nat
      /\ (Len(s) = 0 => s = z) /\ Len(z) = 0
  OBVIOUS
<1>. HIDE DEF q, e, z
<1>2. q # z
  BY <1>1
<1>3. ASSUME q = e
      PROVE  a = b /\ s = z
  <2>1. a = b /\ Len(q) = 1
    BY ONLY <1>1, <1>3, Zenon
  <2>2. Len(s) = 0
    <3>. DEFINE n == Len(s)
                l == Len(q)
    <3>1. n \in Nat /\ l = 1 + n /\ l = 1
      BY <1>1, <2>1
    <3>. HIDE DEF n, l
    <3>2. n = 0
      BY <3>1
    <3>. QED  BY <3>2 DEF n
  <2>. QED  BY <1>1, <2>1, <2>2
<1>. QED  BY <1>2, <1>3 DEF q, e, z

\* A message is begun, or bytes are written: what comes down goes on to be a stream.
LEMMA LastWrites ==
  ASSUME NInv, LastInv, NodeWriteMsg \/ NodeWrites \/ NodeWriteFails \/ NodeEnds
  PROVE  LastInv'
<1>1. /\ node \in [pc : NodePcs, in : Readers, out : Seq(Nat), todo : Seq(AnyMessages),
                   consoleIn : Seq(Nat), consoleOut : Seq(Nat), sim : Nat, at : Nat]
      /\ past \in [upSent : Seq(Messages), upGot : Seq(Messages),
                   downSent : Seq(AnyMessages), downGot : {past.downGot}]
      /\ engine.in \in Readers /\ down \in Seq(Nat) /\ node.out \in Seq(Nat)
      /\ DownTyped /\ NodeDown /\ Heard /\ NodeKnows
  BY NInvTypes DEF NInv, NodeTyped, LastInv
<1>. HIDE DEF Readers, Messages, AnyMessages, NodePcs
<1>2. CASE NodeWriteMsg
  <2>. DEFINE m == Head(node.todo)
              s == Append(past.downSent, m)
              q == Tail(node.todo)
  <2>1. /\ node.todo # << >> /\ node.out = << >> /\ UNCHANGED <<engine, up, down, said>>
        /\ node' = [node EXCEPT !.out = Encode(m), !.todo = q]
        /\ past' = [past EXCEPT !.downSent = s]
    BY <1>2 DEF NodeWriteMsg
  <2>2. m \in Messages /\ s \in Seq(Messages) /\ q \in Seq(Messages)
        /\ s \o q = past.downSent \o node.todo
    <3>. DEFINE a == past.downSent
                b == node.todo
    <3>1. a \in Seq(Messages) /\ b \in Seq(Messages) /\ b # << >>
      BY <1>1, <2>1 DEF DownTyped
    <3>. HIDE DEF a, b
    <3>2. /\ Head(b) \in Messages /\ Tail(b) \in Seq(Messages)
          /\ Append(a, Head(b)) \in Seq(Messages) /\ Append(a, Head(b)) \o Tail(b) = a \o b
      BY <3>1, HeadMoved
    <3>. QED  BY <3>2 DEF a, b
  <2>3. /\ node'.out = Encode(m) /\ node'.todo = q /\ node'.pc = node.pc /\ node'.sim = node.sim
        /\ node'.at = node.at /\ node'.consoleOut = node.consoleOut
        /\ past'.downSent = s /\ past'.downGot = past.downGot /\ past'.upSent = past.upSent
        /\ past'.upGot = past.upGot
    <3>. HIDE DEF m, s, q
    <3>. QED  BY <1>1, <2>1
  <2>4. Sayings' = Sayings
    BY <2>2, <2>3 DEF Sayings
  <2>5. Unserved' = Unserved
    BY <2>3 DEF Unserved
  <2>6. NodeKnows'
    BY <1>1, <2>1, <2>3, <2>4, <2>5, KnowsKept
  <2>7. DownTyped'
    BY <1>1, <2>2, <2>3 DEF DownTyped
  <2>8. NodeDown'
    <3>1. CASE ~engine.closed
      <4>. HIDE DEF m
      <4>1. Flow(past.downSent, past.downGot, engine.in, down, << >>, FALSE)
        BY <1>1, <2>1, <3>1 DEF NodeDown
      <4>2. Flow(Append(past.downSent, m), past.downGot, engine.in, down, Encode(m), FALSE)
        BY <1>1, <2>2, <4>1, FlowSend DEF DownTyped
      <4>. QED  BY <2>1, <2>3, <4>2 DEF NodeDown
    <3>. QED  BY <2>1, <3>1 DEF NodeDown
  <2>9. Heard'
    <3>1. PICK r \in Seq(AnyMessages) : past.downSent = past.downGot \o r
      BY <1>1 DEF Heard
    <3>2. m \in AnyMessages
      BY <2>2 DEF Messages, AnyMessages
    <3>3. past.downGot \in Seq(AnyMessages)
      BY <1>1, AnyLength DEF DownTyped
    <3>. DEFINE g == past.downGot
                r2 == Append(r, m)
    <3>. HIDE DEF m, g
    <3>4. r2 \in Seq(AnyMessages) /\ Append(g \o r, m) = g \o r2
      <4>1. g \in Seq(AnyMessages)
        BY <3>3 DEF g
      <4>2. r2 \in Seq(AnyMessages)
        BY <3>2
      <4>3. Append(g \o r, m) = g \o Append(r, m)
        BY ONLY <3>2, <4>1, r \in Seq(AnyMessages), SMTT(60)
      <4>. QED  BY <4>2, <4>3
    <3>. HIDE DEF r2
    <3>5. s = g \o r2
      BY <3>1, <3>4 DEF g
    <3>. QED  BY <2>3, <3>4, <3>5 DEF Heard, g
  <2>. QED  BY <2>6, <2>7, <2>8, <2>9 DEF LastInv
<1>3. CASE NodeWrites \/ NodeWriteFails \/ NodeEnds
  <2>1. /\ UNCHANGED <<engine, past>> /\ node'.todo = node.todo /\ node'.sim = node.sim
        /\ node'.at = node.at /\ node'.consoleOut = node.consoleOut
        /\ node'.pc = node.pc \/ (node'.pc = "closed" /\ engine'.closed)
    BY <1>1, <1>3 DEF NodeWrites, NodeWriteFails, NodeEnds, EndOfFile
  <2>2. Sayings' = Sayings /\ Unserved' = Unserved /\ Heard' /\ DownTyped'
    BY <1>1, <2>1 DEF Sayings, Unserved, Heard, DownTyped
  <2>3. NodeKnows'
    BY <1>1, <2>1, <2>2, KnowsKept
  <2>4. NodeDown'
    <3>1. CASE NodeWrites
      <4>1. PICK k \in Writes(node.out, down) :
              /\ down' = down \o First(node.out, k)
              /\ node' = [node EXCEPT !.out = Rest(@, k)]
        BY <3>1 DEF NodeWrites
      <4>2. ~engine.closed
        BY <3>1 DEF NodeWrites
      <4>. DEFINE out == Rest(node.out, k)
      <4>3. Flow(past.downSent, past.downGot, engine.in, down \o First(node.out, k), out, FALSE)
        BY <1>1, <4>2, FlowWrite DEF NodeDown
      <4>. HIDE DEF out
      <4>4. node'.out = out
        BY <1>1, <4>1 DEF out
      <4>. QED  BY <2>1, <4>1, <4>3, <4>4 DEF NodeDown
    <3>2. CASE NodeWriteFails \/ NodeEnds
      <4>1. engine.closed
        BY <3>2 DEF NodeWriteFails, NodeEnds, EndOfFile
      <4>. QED  BY <2>1, <4>1 DEF NodeDown
    <3>. QED  BY <1>3, <3>1, <3>2
  <2>. QED  BY <2>2, <2>3, <2>4 DEF LastInv
<1>. QED  BY <1>2, <1>3

\* Bytes are read, or a character taken from the console.
LEMMA LastReads ==
  ASSUME NInv, LastInv, NodeReads \/ NodeAsksPayload \/ CliReads
  PROVE  LastInv'
<1>1. /\ node \in [pc : NodePcs, in : Readers, out : Seq(Nat), todo : Seq(AnyMessages),
                   consoleIn : Seq(Nat), consoleOut : Seq(Nat), sim : Nat, at : Nat]
      /\ DownTyped /\ NodeDown /\ Heard /\ NodeKnows
  BY DEF NInv, NodeTyped, LastInv
<1>. HIDE DEF Readers, Messages, AnyMessages, NodePcs
<1>2. /\ UNCHANGED <<engine, past, down>> /\ node'.todo = node.todo /\ node'.sim = node.sim
      /\ node'.at = node.at /\ node'.consoleOut = node.consoleOut /\ node'.pc = node.pc
      /\ node'.out = node.out
  BY <1>1 DEF NodeReads, NodeAsksPayload, CliReads
<1>3. Sayings' = Sayings /\ Unserved' = Unserved /\ Heard' /\ DownTyped' /\ NodeDown'
  BY <1>1, <1>2 DEF Sayings, Unserved, Heard, DownTyped, NodeDown
<1>4. NodeKnows'
  BY <1>1, <1>2, <1>3, KnowsKept
<1>. QED  BY <1>3, <1>4 DEF LastInv

\* A message is got.  A tick's time is the engine's.
LEMMA LastHandles ==
  ASSUME PrintsFit, NInv, LastInv, HandleConsoleIn \/ HandleTick
  PROVE  LastInv'
<1>. DEFINE n == Len(past.upGot)
            m == past.upSent[n + 1]
            r == Rest(past.upSent, n + 1)
            got == Append(past.upGot, m)
<1>1. /\ node \in [pc : NodePcs, in : Readers, out : Seq(Nat), todo : Seq(AnyMessages),
                   consoleIn : Seq(Nat), consoleOut : Seq(Nat), sim : Nat, at : Nat]
      /\ past \in [upSent : Seq(Messages), upGot : Seq(Messages),
                   downSent : Seq(AnyMessages), downGot : {past.downGot}]
      /\ past.upSent \in Seq(AnyMessages) /\ n \in Nat /\ n <= Len(past.upSent)
      /\ engine.sim \in Nat
      /\ DownTyped /\ NodeDown /\ Heard /\ NodeKnows
  BY NInvTypes DEF NInv, NodeTyped, LastInv, EngineHalf
<1>2. \E kind \in {kConsoleIn, kTick} : NodeHandles(kind)
  BY DEF HandleConsoleIn, HandleTick
<1>3. kConsoleIn \in Nat /\ kTick \in Nat
  BY DEF kConsoleIn, kTick
<1>4. /\ n < Len(past.upSent) /\ m \in AnyMessages /\ Decoded(node.in) = m
      /\ node.pc = "read" /\ node.todo = << >> /\ UNCHANGED <<engine, up, down, said>>
      /\ past' = [past EXCEPT !.upGot = Append(@, m)] /\ Len(got) = n + 1
  BY <1>2, <1>3, NodeGets
<1>5. Unserved = TickOf(m) \o Ticks(r) /\ Ticks(r) \in Seq(Seq(Nat))
  <2>1. /\ r \in Seq(AnyMessages) /\ Rest(past.upSent, n) = << m >> \o r
        /\ << m >> \in Seq(AnyMessages)
    <3>. HIDE DEF n, AnyMessages, Messages
    <3>1. << m >> \in Seq(AnyMessages)
      BY <1>4
    <3>. QED  BY <1>1, <1>4, <3>1, Unread
  <2>. HIDE DEF r, m, AnyMessages
  <2>. DEFINE x == << m >>
  <2>2. x \in Seq(AnyMessages) /\ Ticks(x) = TickOf(m)
    BY <1>4, <2>1, TickAlgebra
  <2>. HIDE DEF x
  <2>3. Ticks(x \o r) = Ticks(x) \o Ticks(r)
    BY ONLY <2>1, <2>2, TickAlgebra, Zenon
  <2>4. Ticks(r) \in Seq(Seq(Nat))
    BY <2>1, TickAlgebra
  <2>. QED  BY <2>1, <2>2, <2>3, <2>4 DEF Unserved, n, x
<1>. HIDE DEF m, n, r, got, Readers, Messages, AnyMessages, NodePcs, Reader
<1>6. /\ past'.upSent = past.upSent /\ past'.upGot = got /\ past'.downSent = past.downSent
      /\ past'.downGot = past.downGot
  BY <1>1, <1>4 DEF got
<1>7. Unserved' = Ticks(r)
  BY <1>4, <1>6 DEF Unserved, r
<1>8. HandleTick => m.kind = kTick
  BY <1>4 DEF HandleTick, NodeHandles
<1>9. HandleConsoleIn => m.kind = kConsoleIn
  BY <1>4 DEF HandleConsoleIn, NodeHandles
<1>10. /\ node'.todo = << >> /\ node'.out = node.out /\ node'.sim = node.sim
       /\ node'.consoleOut = node.consoleOut
       /\ \/ TickOf(m) = << >> /\ node'.pc = "read" /\ node'.at = node.at
          \/ /\ TickOf(m) = << m.payload >> /\ m.payload = << node'.at >> /\ node'.pc = "loop"
  <2>1. CASE HandleConsoleIn
    <3>1. node' = [node EXCEPT !.in = Reader, !.consoleIn = @ \o m.payload]
      BY <1>4, <2>1 DEF HandleConsoleIn
    <3>2. TickOf(m) = << >>
      BY <1>9, <2>1 DEF TickOf, kConsoleIn, kTick
    <3>. QED  BY <1>1, <1>4, <3>1, <3>2
  <2>2. CASE HandleTick
    <3>. DEFINE at == m.payload
    <3>1. node' = IF Len(at) = 1
                  THEN [node EXCEPT !.in = Reader, !.pc = "loop", !.at = at[1]]
                  ELSE [node EXCEPT !.in = Reader, !.todo = Timeless]
      BY <1>4, <2>2 DEF HandleTick
    <3>2. at \in Seq(Nat)
      BY <1>4 DEF AnyMessages
    <3>3. CASE Len(at) = 1
      <4>1. node' = [node EXCEPT !.in = Reader, !.pc = "loop", !.at = at[1]]
        BY <3>1, <3>3
      <4>2. at = << at[1] >>
        BY <3>2, <3>3
      <4>3. TickOf(m) = << at >>
        BY <1>8, <2>2, <3>3 DEF TickOf
      <4>4. /\ node'.todo = << >> /\ node'.out = node.out /\ node'.sim = node.sim
            /\ node'.consoleOut = node.consoleOut /\ node'.at = at[1] /\ node'.pc = "loop"
        <5>. HIDE DEF at
        <5>. QED  BY <1>1, <1>4, <4>1
      <4>. QED  BY <4>2, <4>3, <4>4
    <3>4. CASE Len(at) # 1
      <4>1. node' = [node EXCEPT !.in = Reader, !.todo = << >>]
        BY <3>1, <3>4 DEF Timeless
      <4>2. TickOf(m) = << >>
        BY <3>4 DEF TickOf
      <4>. QED  BY <1>1, <1>4, <4>1, <4>2
    <3>. QED  BY <3>3, <3>4
  <2>. QED  BY <2>1, <2>2
<1>11. Sayings' = Sayings /\ Heard' /\ DownTyped' /\ NodeDown'
  <2>1. << >> \in Seq(Messages)
    BY EmptySeq
  <2>. QED  BY <1>1, <1>4, <1>6, <1>10, <2>1 DEF Sayings, Heard, DownTyped, NodeDown
<1>12. NodeKnows'
  <2>1. CASE TickOf(m) = << >> /\ node'.pc = "read" /\ node'.at = node.at
    <3>1. Unserved' = Unserved
      <4>1. << >> \o Ticks(r) = Ticks(r)
        BY <1>5
      <4>. QED  BY <1>5, <1>7, <2>1, <4>1
    <3>. QED  BY <1>1, <1>4, <1>6, <1>10, <1>11, <2>1, <3>1, KnowsKept
  <2>2. CASE TickOf(m) = << m.payload >> /\ m.payload = << node'.at >> /\ node'.pc = "loop"
    <3>1. /\ node.consoleOut = << >>
          /\ \/ Unserved = << >> /\ node.sim = engine.sim
             \/ Unserved = << << engine.sim >> >> /\ \E k \in EngineLumps : engine.sim = node.sim + k
      BY <1>1, <1>4 DEF NodeKnows, WhileReading
    <3>. DEFINE x == m.payload
                y == Ticks(r)
    <3>2. Unserved = << x >> \o y /\ y \in Seq(Seq(Nat)) /\ x \in Seq(Nat)
      <4>1. m.payload \in Seq(Nat)
        BY <1>4 DEF AnyMessages
      <4>. QED  BY <1>5, <2>2, <4>1
    <3>. HIDE DEF x, y
    <3>4. << engine.sim >> \in Seq(Nat)
      BY <1>1
    <3>5. << x >> \o y # << >> /\ (<< x >> \o y = << << engine.sim >> >> => x = << engine.sim >> /\ y = << >>)
      <4>. DEFINE e == << engine.sim >>
                  A == Seq(Nat)
      <4>1. e \in A /\ x \in A /\ y \in Seq(A)
        BY <3>2, <3>4
      <4>. HIDE DEF e, A
      <4>2. << x >> \o y # << >> /\ (<< x >> \o y = << e >> => x = e /\ y = << >>)
        BY ONLY <4>1, OneInAll
      <4>. QED  BY <4>2 DEF e
    <3>6. x = << engine.sim >> /\ y = << >> /\ \E k \in EngineLumps : engine.sim = node.sim + k
      BY <3>1, <3>2, <3>5
    <3>7. node'.at = engine.sim
      BY <2>2, <3>6 DEF x
    <3>8. WhileLooping'
      <4>1. PICK k \in EngineLumps : engine.sim = node.sim + k
        BY <3>6
      <4>2. k \in Nat /\ 0 \in Nat /\ 0 + k = k
        BY EngineEndAssumption
      <4>3. Len(<< >>) = 0
        OBVIOUS
      <4>4. Len(node'.consoleOut) <= PassMax * 0
        <5>1. Len(node'.consoleOut) = 0 /\ PassMax * 0 = 0
          BY <1>10, <3>1, <4>3, PrintsAreShort
        <5>. QED  BY <5>1
      <4>5. node'.at = node'.sim + k
        BY <1>10, <3>7, <4>1
      <4>6. \E done, left \in Nat : /\ done + left = k /\ node'.at = node'.sim + left
                                    /\ Len(node'.consoleOut) <= PassMax * done
        BY <4>2, <4>4, <4>5
      <4>7. Unserved' = << >> /\ node'.at = engine'.sim
        BY <1>4, <1>7, <3>6, <3>7 DEF y
      <4>. QED  BY <4>6, <4>7 DEF WhileLooping
    <3>9. Counted' /\ Ticked'
      BY <1>1, <1>4, <1>6 DEF NodeKnows, Counted, Ticked
    <3>. QED  BY <2>2, <3>8, <3>9 DEF NodeKnows
  <2>. QED  BY <1>10, <2>1, <2>2
<1>. QED  BY <1>11, <1>12 DEF LastInv

\* A pass of loop() ends: what it printed is within what the header can say, and after the
\* last one the acknowledgement is the last of what is to be sent.
LEMMA LastPass ==
  ASSUME PrintsFit, NInv, LastInv, EndPass
  PROVE  LastInv'
<1>1. /\ node \in [pc : NodePcs, in : Readers, out : Seq(Nat), todo : Seq(AnyMessages),
                   consoleIn : Seq(Nat), consoleOut : Seq(Nat), sim : Nat, at : Nat]
      /\ node.consoleOut \in Seq(Nat) /\ node.sim \in Nat /\ node.at \in Nat
      /\ past.downSent \in Seq(AnyMessages)
      /\ DownTyped /\ NodeDown /\ Heard /\ NodeKnows
  BY NInvTypes DEF NInv, NodeTyped, LastInv
<1>. DEFINE last == node.sim = node.at
<1>2. PICK p \in Passes :
        LET out == node.consoleOut \o p.print
        IN node' = [node EXCEPT
               !.pc = IF last THEN "read" ELSE "loop",
               !.sim = IF last THEN @ ELSE @ + 1,
               !.consoleOut = IF last THEN << >> ELSE out,
               !.todo = Drain(p.packet) \o (IF last THEN TickDone(out) ELSE << >>)]
  BY DEF EndPass
<1>3. node.pc = "loop" /\ UNCHANGED <<engine, down, past>>
  BY DEF EndPass, Idle
<1>. DEFINE out == node.consoleOut \o p.print
            d == Drain(p.packet)
<1>4. /\ p.print \in Seq(Nat) /\ p.packet \in Seq(Nat) /\ Len(p.packet) < Base * Base
      /\ Len(p.print) <= PassMax /\ PassMax \in Nat
  BY PassesAssumption, PrintsAreShort
<1>5. out \in Seq(Nat) /\ Len(out) = Len(node.consoleOut) + Len(p.print)
  BY <1>1, <1>4
<1>6. Unserved = << >> /\ node.at = engine.sim
  BY <1>1, <1>3 DEF NodeKnows, WhileLooping
<1>7. PICK k \in EngineLumps : \E done, left \in Nat :
        done + left = k /\ node.at = node.sim + left /\ Len(node.consoleOut) <= PassMax * done
  BY <1>1, <1>3 DEF NodeKnows, WhileLooping
<1>8. PICK done \in Nat : \E left \in Nat :
        done + left = k /\ node.at = node.sim + left /\ Len(node.consoleOut) <= PassMax * done
  BY <1>7
<1>9. PICK left \in Nat :
        done + left = k /\ node.at = node.sim + left /\ Len(node.consoleOut) <= PassMax * done
  BY <1>8
<1>10. Len(out) <= PassMax * (done + 1)
  <2>. DEFINE a == Len(node.consoleOut)
              b == Len(p.print)
              n == PassMax
              x == Len(out)
  <2>1. a \in Nat /\ b \in Nat /\ n \in Nat /\ a <= n * done /\ b <= n /\ x = a + b
    BY <1>1, <1>4, <1>5, <1>9
  <2>. HIDE DEF a, b, n, x
  <2>2. n * (done + 1) = n * done + n
    BY ONLY <2>1, done \in Nat, SMT
  <2>3. n * done \in Nat
    BY <2>1
  <2>4. x <= n * (done + 1)
    BY <2>1, <2>2, <2>3
  <2>. QED  BY <2>4 DEF n, x
<1>11. d \in Seq(Messages) /\ d \in Seq(AnyMessages)
  <2>1. d \in Seq(Messages)
    BY <1>4, DrainFits
  <2>. QED  BY <2>1, AnyLength
<1>12. Counted' /\ Ticked' /\ Unserved' = << >> /\ Heard'
  BY <1>1, <1>3, <1>6 DEF NodeKnows, Counted, Ticked, Unserved, Heard
<1>13. CASE last
  <2>. DEFINE t == TickDone(out)
  <2>1. left = 0 /\ done = k
    BY <1>1, <1>9, <1>13, EngineEndAssumption
  <2>2. Len(out) < Base * Base
    <3>1. PassMax * k + PassMax < Base * Base /\ k \in Nat
      BY PrintsAreShort, EngineEndAssumption
    <3>. DEFINE x == Len(out)
                n == PassMax
                b == Base * Base
    <3>2. n \in Nat /\ k \in Nat /\ x \in Nat /\ b \in Nat /\ x <= n * (k + 1) /\ n * k + n < b
      <4>1. x \in Nat /\ n \in Nat /\ k \in Nat
        <5>1. n \in Nat /\ k \in Nat
          BY <1>4, <3>1
        <5>2. x \in Nat
          <6>1. \A q \in Seq(Nat) : Len(q) \in Nat
            OBVIOUS
          <6>2. out \in Seq(Nat)
            BY <1>5
          <6>. HIDE DEF out
          <6>. QED  BY ONLY <6>1, <6>2, Zenon
        <5>. QED  BY <5>1, <5>2
      <4>2. b \in Nat
        BY FramingAssumption
      <4>3. x <= n * (k + 1)
        BY <1>10, <2>1
      <4>. QED  BY <3>1, <4>1, <4>2, <4>3
    <3>. HIDE DEF x, n, b
    <3>3. n * (k + 1) = n * k + n
      BY ONLY <3>2, SMT
    <3>4. n * k \in Nat
      BY <3>2
    <3>5. x < b
      BY <3>2, <3>3, <3>4
    <3>. QED  BY <3>5 DEF x, b
  <2>3. t \in Seq(Messages) /\ EndsInAck(t)
    <3>. HIDE DEF out
    <3>. QED  BY <1>1, <1>5, <2>2, TickDoneFits
  <2>4. node' = [node EXCEPT !.pc = "read", !.sim = node.sim, !.consoleOut = << >>, !.todo = d \o t]
    BY <1>2, <1>13
  <2>. HIDE DEF t, d, out, Readers, Messages, AnyMessages, NodePcs
  <2>5. t \in Seq(AnyMessages)
    BY <2>3, AnyLength
  <2>. DEFINE more == d \o t
  <2>6. more \in Seq(Messages) /\ EndsInAck(more)
    <3>1. more \in Seq(Messages)
      BY <1>11, <2>3
    <3>. QED  BY <1>11, <2>3, <2>5, <3>1, AckJoined
  <2>. HIDE DEF more
  <2>7. /\ node'.pc = "read" /\ node'.sim = node.sim /\ node'.consoleOut = << >>
        /\ node'.todo = more /\ node'.out = node.out
    BY <1>1, <2>4 DEF more
  <2>8. WhileReading'
    BY <1>3, <1>6, <1>12, <1>13, <2>7 DEF WhileReading
  <2>9. EndsInAck(Sayings')
    <3>1. more \in Seq(AnyMessages)
      BY <2>6, AnyLength
    <3>2. Sayings' = past.downSent \o more
      BY <1>3, <2>7 DEF Sayings
    <3>. QED  BY <1>1, <2>6, <3>1, <3>2, AckJoined
  <2>10. DownTyped' /\ NodeDown'
    BY <1>1, <1>3, <2>6, <2>7 DEF DownTyped, NodeDown
  <2>11. EndsInAck(Sayings)'
    BY <2>9 DEF EndsInAck
  <2>. QED  BY <1>12, <2>7, <2>8, <2>10, <2>11 DEF LastInv, NodeKnows
<1>14. CASE ~last
  <2>1. node' = [node EXCEPT !.pc = "loop", !.sim = node.sim + 1, !.consoleOut = out, !.todo = d \o << >>]
    BY <1>2, <1>14
  <2>. HIDE DEF d, out, Readers, Messages, AnyMessages, NodePcs
  <2>2. d \o << >> = d
    BY <1>11
  <2>3. /\ node'.pc = "loop" /\ node'.sim = node.sim + 1 /\ node'.consoleOut = out
        /\ node'.todo = d /\ node'.out = node.out /\ node'.at = node.at
    BY <1>1, <2>1, <2>2
  <2>4. left # 0 /\ left - 1 \in Nat /\ done + 1 \in Nat
    BY <1>1, <1>9, <1>14
  <2>5. (done + 1) + (left - 1) = k /\ node'.at = node'.sim + (left - 1)
    BY <1>1, <1>9, <2>3, <2>4
  <2>6. Len(node'.consoleOut) <= PassMax * (done + 1)
    BY <1>10, <2>3
  <2>7. \E a, b \in Nat : /\ a + b = k /\ node'.at = node'.sim + b
                          /\ Len(node'.consoleOut) <= PassMax * a
    BY <2>4, <2>5, <2>6
  <2>8. WhileLooping'
    BY <1>3, <1>6, <1>12, <2>3, <2>7 DEF WhileLooping
  <2>9. DownTyped' /\ NodeDown'
    BY <1>1, <1>3, <1>11, <2>3 DEF DownTyped, NodeDown
  <2>. QED  BY <1>12, <2>3, <2>8, <2>9 DEF LastInv, NodeKnows
<1>. QED  BY <1>13, <1>14

\* An engine that waits for nothing has heard every acknowledgement there is, and the node
\* is reading.
LEMMA Settled ==
  ASSUME NInv, LastInv, ~engine.closed, ~engine.waiting
  PROVE  /\ node.pc = "read" /\ Unserved = << >>
         /\ \A r \in Seq(AnyMessages) : Sayings = past.downGot \o r => Acks(r) = << >>
<1>1. /\ past.downGot \in Seq(AnyMessages) /\ Sayings \in Seq(AnyMessages)
      /\ past.upSent \in Seq(AnyMessages) /\ Len(past.upGot) \in Nat
      /\ Len(past.upGot) <= Len(past.upSent) /\ NodeKnows /\ node.pc \in NodePcs
  <2>1. past.downGot \in Seq(Messages)
    BY DEF LastInv, DownTyped
  <2>. QED  BY <2>1, NInvTypes, AnyLength DEF LastInv
<1>2. PICK due \in Seq(Seq(Nat)) :
        Serving(due) /\ Balance(past.upSent, Len(past.upGot), Sayings, due)
  BY DEF NInv, NothingMissed, NodeOwes
<1>3. Unserved \in Seq(Seq(Nat))
  <2>. DEFINE n == Len(past.upGot)
  <2>1. n \in Nat /\ n <= Len(past.upSent)
    BY <1>1
  <2>. HIDE DEF n, AnyMessages
  <2>2. Rest(past.upSent, n) \in Seq(AnyMessages)
    BY <1>1, <2>1, RestOf DEF Rest
  <2>. QED  BY <2>2, TickAlgebra DEF Unserved, n
<1>4. Len(Ticks(past.upSent)) = Len(Acks(past.downGot))
  BY <1>1 DEF NodeKnows, Counted
<1>5. ASSUME NEW r \in Seq(AnyMessages), Sayings = past.downGot \o r
      PROVE  Acks(r) = << >> /\ due = << >> /\ Unserved = << >>
  <2>. DEFINE a == Acks(past.downGot)
              b == Acks(r)
              u == Unserved
              g == past.downGot
              A == Seq(Nat)
  <2>1. a \in Seq(A) /\ b \in Seq(A) /\ u \in Seq(A) /\ due \in Seq(A)
    <3>. HIDE DEF AnyMessages
    <3>. QED  BY <1>1, <1>2, <1>3, <1>5, AckAlgebra
  <2>2. Acks(g \o r) = Acks(g) \o b
    <3>1. g \in Seq(AnyMessages)
      BY <1>1
    <3>. HIDE DEF g, AnyMessages
    <3>. QED  BY ONLY <1>5, <3>1, AckAlgebra, Zenon
  <2>3. Ticks(past.upSent) = (a \o b) \o (due \o u)
    BY <1>2, <1>5, <2>2 DEF Balance, Unserved
  <2>. HIDE DEF a, b, u, A
  <2>4. Len((a \o b) \o (due \o u)) = (Len(a) + Len(b)) + (Len(due) + Len(u))
    BY <2>1
  <2>5. /\ Len(a) \in Nat /\ Len(b) \in Nat /\ Len(due) \in Nat /\ Len(u) \in Nat
        /\ (Len(b) = 0 => b = << >>) /\ (Len(due) = 0 => due = << >>) /\ (Len(u) = 0 => u = << >>)
    BY <2>1
  <2>6. Len(a) = (Len(a) + Len(b)) + (Len(due) + Len(u))
    BY <1>4, <2>3, <2>4 DEF a
  <2>7. Len(b) = 0 /\ Len(due) = 0 /\ Len(u) = 0
    BY <2>5, <2>6
  <2>8. b = << >> /\ due = << >> /\ u = << >>
    BY <2>5, <2>7
  <2>. QED  BY <2>8 DEF b, u
<1>6. \E r \in Seq(AnyMessages) : Sayings = past.downGot \o r
  <2>1. PICK r \in Seq(AnyMessages) : past.downSent = past.downGot \o r
    BY DEF LastInv, Heard
  <2>. DEFINE g == past.downGot
              t == node.todo
              q == r \o t
  <2>2. g \in Seq(AnyMessages) /\ t \in Seq(AnyMessages)
    BY <1>1, NInvTypes
  <2>. HIDE DEF g, t, AnyMessages
  <2>3. q \in Seq(AnyMessages) /\ (g \o r) \o t = g \o (r \o t)
    BY ONLY <2>1, <2>2, r \in Seq(AnyMessages), SMTT(60)
  <2>4. Sayings = g \o q
    BY <2>1, <2>3 DEF Sayings, g, t
  <2>. HIDE DEF q
  <2>. QED  BY <2>3, <2>4 DEF g
<1>7. due = << >> /\ Unserved = << >>
  BY <1>5, <1>6
<1>8. node.pc = "read"
  <2>1. node.pc # "closed"
    BY <1>1 DEF NodeKnows
  <2>2. node.pc # "loop"
    <3>1. << << node.at >> >> # << >>
      <4>. DEFINE x == << node.at >>
      <4>. HIDE DEF x
      <4>1. Len(<< x >>) = 1 /\ Len(<< >>) = 0
        OBVIOUS
      <4>2. << x >> # << >>
        BY <4>1
      <4>. QED  BY <4>2 DEF x
    <3>. QED  BY <1>2, <1>7, <3>1 DEF Serving
  <2>. QED  BY <1>1, <2>1, <2>2 DEF NodePcs
<1>. QED  BY <1>5, <1>7, <1>8

\* A message is sent: it is unread.
LEMMA UnservedSent ==
  ASSUME NInv, NEW m \in Messages, past' = [past EXCEPT !.upSent = Append(@, m)]
  PROVE  /\ Unserved' = Unserved \o TickOf(m)
         /\ Ticks(past'.upSent) = Ticks(past.upSent) \o TickOf(m)
         /\ Unserved \in Seq(Seq(Nat)) /\ Ticks(past.upSent) \in Seq(Seq(Nat))
         /\ past'.downGot = past.downGot /\ past'.downSent = past.downSent
<1>1. /\ past \in [upSent : Seq(Messages), upGot : Seq(Messages),
                   downSent : Seq(AnyMessages), downGot : {past.downGot}]
      /\ past.upSent \in Seq(AnyMessages) /\ Len(past.upGot) \in Nat
      /\ Len(past.upGot) <= Len(past.upSent)
  BY NInvTypes DEF NInv, EngineHalf
<1>2. m \in AnyMessages
  BY DEF Messages, AnyMessages
<1>. DEFINE s == past.upSent
            n == Len(past.upGot)
            r == Rest(s, n)
<1>3. s \in Seq(AnyMessages) /\ n \in Nat /\ n <= Len(s)
  BY <1>1
<1>4. /\ past'.upSent = Append(s, m) /\ past'.upGot = past.upGot
      /\ past'.downGot = past.downGot /\ past'.downSent = past.downSent
  <2>. HIDE DEF Messages, AnyMessages
  <2>. QED  BY <1>1
<1>. HIDE DEF s, n, Messages, AnyMessages
<1>5. r \in Seq(AnyMessages) /\ Rest(Append(s, m), n) = Append(r, m)
  BY <1>2, <1>3, Unread
<1>6. Unserved = Ticks(r) /\ Unserved' = Ticks(Append(r, m))
  BY <1>4, <1>5 DEF Unserved, s, n
<1>. HIDE DEF r
<1>7. Ticks(Append(r, m)) = Ticks(r) \o TickOf(m) /\ Ticks(Append(s, m)) = Ticks(s) \o TickOf(m)
  BY <1>2, <1>3, <1>5, TickAlgebra
<1>8. Ticks(r) \in Seq(Seq(Nat)) /\ Ticks(s) \in Seq(Seq(Nat))
  BY <1>3, <1>5, TickAlgebra
<1>. QED  BY <1>4, <1>6, <1>7, <1>8 DEF s

LEMMA LastEngine ==
  ASSUME NInv, LastInv, EngineMoves, UNCHANGED <<node, said>>
  PROVE  LastInv'
<1>1. /\ EngineHalf /\ DownTyped /\ NodeDown /\ Heard /\ NodeKnows
      /\ past \in [upSent : Seq(Messages), upGot : Seq(Messages),
                   downSent : Seq(AnyMessages), downGot : {past.downGot}]
      /\ engine.in \in Readers /\ down \in Seq(Nat) /\ node.out \in Seq(Nat) /\ engine.sim \in Nat
  BY NInvTypes DEF NInv, LastInv, EngineHalf
<1>. HIDE DEF Readers, Messages, AnyMessages
<1>2. /\ past'.downSent = past.downSent /\ past'.downGot \in Seq(Messages)
      /\ NodeDown' /\ DownTyped'
  <2>. DEFINE out == node.out
  <2>1. /\ past.downSent \in Seq(Messages) /\ past.downGot \in Seq(Messages) /\ out \in Seq(Nat)
        /\ (~engine.closed => Flow(past.downSent, past.downGot, engine.in, down, out, FALSE))
    BY <1>1 DEF DownTyped, NodeDown
  <2>. HIDE DEF out
  <2>2. /\ past'.downSent = past.downSent /\ past'.downGot \in Seq(Messages)
        /\ (~engine'.closed => Flow(past'.downSent, past'.downGot, engine'.in, down', out, FALSE))
    BY <1>1, <2>1, EngineDownward
  <2>. QED  BY <1>1, <2>2 DEF NodeDown, DownTyped, out
<1>3. Sayings' = Sayings
  BY <1>2 DEF Sayings
<1>4. CASE ~engine.closed /\ \E m \in Messages : SentOther(m)
  <2>1. PICK m \in Messages : SentOther(m)
    BY <1>4
  <2>2. past' = [past EXCEPT !.upSent = Append(@, m)] /\ TickOf(m) = << >>
    BY <2>1 DEF SentOther
  <2>3. /\ Unserved' = Unserved \o << >> /\ Ticks(past'.upSent) = Ticks(past.upSent) \o << >>
        /\ Unserved \in Seq(Seq(Nat)) /\ Ticks(past.upSent) \in Seq(Seq(Nat))
        /\ past'.downGot = past.downGot
    BY <2>2, UnservedSent
  <2>4. Unserved' = Unserved /\ Ticks(past'.upSent) = Ticks(past.upSent)
    BY <2>3
  <2>5. NodeKnows'
    BY <1>1, <1>3, <1>4, <2>1, <2>3, <2>4, KnowsKept DEF SentOther
  <2>6. Heard'
    BY <1>1, <1>2, <2>3 DEF Heard
  <2>. QED  BY <1>2, <2>5, <2>6 DEF LastInv
<1>5. CASE ~engine.closed /\ \E k \in EngineLumps : \E m \in Messages : SentTick(m, k)
  <2>1. PICK k \in EngineLumps : \E m \in Messages : SentTick(m, k)
    BY <1>5
  <2>2. PICK m \in Messages : SentTick(m, k)
    BY <2>1
  <2>3. /\ past' = [past EXCEPT !.upSent = Append(@, m)] /\ m = Message(kTick, << engine.sim + k >>)
        /\ ~engine.waiting /\ engine'.waiting = TRUE
        /\ engine'.sim = engine.sim + k /\ engine'.closed = FALSE
    BY <2>2 DEF SentTick
  <2>. DEFINE t == << engine.sim + k >>
  <2>4. k \in Nat /\ t \in Seq(Nat) /\ Len(t) = 1
    BY <1>1, EngineEndAssumption
  <2>5. TickOf(m) = << t >>
    BY <2>3, <2>4 DEF TickOf, Message
  <2>. HIDE DEF t
  <2>6. /\ Unserved' = Unserved \o << t >> /\ Ticks(past'.upSent) = Ticks(past.upSent) \o << t >>
        /\ Ticks(past.upSent) \in Seq(Seq(Nat)) /\ past'.downGot = past.downGot
    BY <2>3, <2>5, UnservedSent
  <2>7. node.pc = "read" /\ Unserved = << >>
    BY <1>5, <2>3, Settled
  <2>8. node.consoleOut = << >> /\ node.sim = engine.sim
    <3>1. << << engine.sim >> >> # << >>
      BY <1>1
    <3>. QED  BY <1>1, <2>7, <3>1 DEF NodeKnows, WhileReading
  <2>9. Unserved' = << t >>
    <3>1. << >> \o << t >> = << t >>
      BY <2>4
    <3>. QED  BY <2>6, <2>7, <3>1
  <2>10. WhileReading'
    <3>1. engine'.sim = node'.sim + k /\ node'.consoleOut = << >>
      BY <2>3, <2>8
    <3>2. Unserved' = << << engine'.sim >> >>
      BY <2>3, <2>9 DEF t
    <3>. QED  BY <3>1, <3>2 DEF WhileReading
  <2>. DEFINE x == Ticks(past.upSent)
  <2>11. x \in Seq(Seq(Nat)) /\ Ticks(past'.upSent) = x \o << t >>
    BY <2>6
  <2>12. Len(x) = Len(Acks(past.downGot))
    BY <1>1, <1>5, <2>3 DEF NodeKnows, Counted
  <2>. HIDE DEF x
  <2>13. Len(x \o << t >>) = Len(x) + 1 /\ x \o << t >> # << >>
    <3>1. Len(x \o << t >>) = Len(x) + 1 /\ Len(x) \in Nat
      BY <2>4, <2>11
    <3>. DEFINE y == x \o << t >>
    <3>. HIDE DEF y
    <3>2. Len(y) = Len(x) + 1
      BY <3>1 DEF y
    <3>3. Len(<< >>) = 0
      OBVIOUS
    <3>4. y # << >>
      BY <3>1, <3>2, <3>3
    <3>. QED  BY <3>1, <3>4 DEF y
  <2>14. Counted' /\ Ticked'
    BY <2>3, <2>6, <2>11, <2>12, <2>13 DEF Counted, Ticked
  <2>15. node'.pc = "read" /\ Heard'
    BY <1>1, <1>2, <2>6, <2>7 DEF Heard
  <2>16. Acks(Sayings') # << >> => EndsInAck(Sayings')
    BY <1>1, <1>3, <2>7 DEF NodeKnows
  <2>17. (Acks(Sayings) # << >> => EndsInAck(Sayings))'
    BY <2>16 DEF EndsInAck
  <2>18. NodeKnows'
    BY <2>10, <2>14, <2>15, <2>17 DEF NodeKnows
  <2>. QED  BY <1>2, <2>15, <2>18 DEF LastInv
<1>6. CASE ~engine.closed /\ GotMessage
  <2>. DEFINE d == Decoded(engine.in)
              g == past.downGot
              s == past.downSent
  <2>1. /\ past' = [past EXCEPT !.downGot = Append(@, d)] /\ Whole(engine.in)
        /\ engine'.sim = engine.sim /\ engine'.closed = FALSE
        /\ engine'.waiting = (engine.waiting /\ d.kind # kAck)
    BY <1>6 DEF GotMessage
  <2>2. /\ Len(g) < Len(s) /\ d = s[Len(g) + 1] /\ d \in Messages
    <3>. DEFINE out == node.out
    <3>1. /\ g \in Seq(Messages) /\ s \in Seq(Messages) /\ out \in Seq(Nat)
          /\ Flow(s, g, engine.in, down, out, FALSE)
      BY <1>1, <1>6 DEF DownTyped, NodeDown
    <3>. HIDE DEF g, s, out
    <3>2. /\ Len(g) < Len(s) /\ Decoded(engine.in) = s[Len(g) + 1] /\ Decoded(engine.in) \in Messages
      <4>1. Whole(engine.in) /\ engine.in \in Readers /\ down \in Seq(Nat)
        BY <1>1, <2>1
      <4>. QED  BY ONLY <3>1, <4>1, FlowDecode
    <3>. QED  BY <3>2
  <2>3. d \in AnyMessages
    BY <2>2 DEF Messages, AnyMessages
  <2>. HIDE DEF d
  <2>4. /\ past'.downGot = Append(g, d) /\ past'.upSent = past.upSent /\ past'.upGot = past.upGot
    BY <1>1, <2>1
  <2>5. g \in Seq(AnyMessages) /\ s \in Seq(AnyMessages) /\ node.todo \in Seq(AnyMessages)
    BY <1>1, AnyLength DEF DownTyped
  <2>6. PICK r \in Seq(AnyMessages) : s = g \o r
    BY <1>1 DEF Heard
  <2>. DEFINE t == Tail(r)
  <2>. HIDE DEF g, s
  <2>7. r # << >> /\ d = Head(r)
    <3>1. Len(g \o r) = Len(g) + Len(r) /\ Len(g) \in Nat /\ Len(r) \in Nat /\ Len(<< >>) = 0
      BY <2>5
    <3>2. Len(r) # 0
      BY <2>2, <2>6, <3>1
    <3>3. (g \o r)[Len(g) + 1] = r[1]
      BY <2>5, <3>2
    <3>. QED  BY <2>2, <2>6, <3>2, <3>3
  <2>8. t \in Seq(AnyMessages) /\ Append(g, d) \o t = s /\ r = << d >> \o t
    <3>1. t \in Seq(AnyMessages) /\ Append(g, Head(r)) \o t = g \o r
      BY <2>5, <2>7, HeadMoved
    <3>2. << >> \in Seq(AnyMessages) /\ Append(<< >>, Head(r)) \o t = << >> \o r
      <4>. DEFINE e == << >>
      <4>1. e \in Seq(AnyMessages)
        BY EmptySeq
      <4>. HIDE DEF e
      <4>2. Append(e, Head(r)) \o Tail(r) = e \o r
        BY <2>7, <4>1, HeadMoved
      <4>. QED  BY <4>1, <4>2 DEF e
    <3>3. Append(<< >>, d) = << d >> /\ << >> \o r = r
      OBVIOUS
    <3>. QED  BY <2>6, <2>7, <3>1, <3>2, <3>3
  <2>. HIDE DEF t
  <2>9. Heard'
    BY <1>2, <2>4, <2>8 DEF Heard, s
  <2>10. Acks(Append(g, d)) = Acks(g) \o AckOf(d) /\ Acks(g) \in Seq(Seq(Nat))
    BY <2>3, <2>5, AckAlgebra
  <2>11. d.kind = kAck => engine.waiting
    <3>1. SUFFICES ASSUME d.kind = kAck, ~engine.waiting
                   PROVE  FALSE
      OBVIOUS
    <3>2. \A q \in Seq(AnyMessages) : Sayings = g \o q => Acks(q) = << >>
      BY <1>6, <3>1, Settled DEF g
    <3>. DEFINE w == node.todo
                q == t \o w
                x == << d >>
    <3>3. w \in Seq(AnyMessages) /\ x \in Seq(AnyMessages)
      BY <2>3, <2>5
    <3>. HIDE DEF w, x
    <3>4. q \in Seq(AnyMessages) /\ (g \o (x \o t)) \o w = g \o (x \o (t \o w))
      BY ONLY <2>5, <2>8, <3>3, SMTT(60)
    <3>5. x \o q \in Seq(AnyMessages)
      BY <3>3, <3>4
    <3>6. Sayings = g \o (x \o q)
      BY <2>6, <2>8, <3>4 DEF Sayings, s, w, x
    <3>. HIDE DEF q
    <3>7. Acks(x \o q) = << >>
      <4>. DEFINE z == x \o q
      <4>1. z \in Seq(AnyMessages) /\ Sayings = g \o z
        BY <3>5, <3>6
      <4>. HIDE DEF z
      <4>2. Acks(z) = << >>
        BY <3>2, <4>1
      <4>. QED  BY <4>2 DEF z
    <3>8. Acks(x \o q) = Acks(x) \o Acks(q)
      BY ONLY <3>3, <3>4, AckAlgebra, Zenon
    <3>9. Acks(x) = << d.payload >> /\ Acks(q) \in Seq(Seq(Nat)) /\ d.payload \in Seq(Nat)
      <4>1. Acks(x) = AckOf(d)
        BY <2>3, AckAlgebra DEF x
      <4>2. d.payload \in Seq(Nat)
        BY <2>3 DEF AnyMessages
      <4>. QED  BY <3>1, <3>4, <4>1, <4>2, AckAlgebra DEF AckOf
    <3>. DEFINE a == d.payload
                b == Acks(q)
                A == Seq(Nat)
    <3>10. a \in A /\ b \in Seq(A) /\ << a >> \o b = << >>
      BY <3>7, <3>8, <3>9
    <3>. HIDE DEF a, b, A
    <3>11. << a >> \o b # << >>
      BY ONLY <3>10, OneInAll
    <3>. QED  BY <3>10, <3>11
  <2>12. Counted'
    <3>1. Len(Ticks(past.upSent)) = Len(Acks(g)) + (IF engine.waiting THEN 1 ELSE 0)
      BY <1>1, <1>6 DEF NodeKnows, Counted, g
    <3>2. CASE d.kind = kAck
      <4>1. AckOf(d) = << d.payload >> /\ engine'.waiting = FALSE
        BY <2>1, <3>2 DEF AckOf
      <4>2. Len(Acks(g) \o << d.payload >>) = Len(Acks(g)) + 1 /\ Len(Acks(g)) \in Nat
        <5>1. d.payload \in Seq(Nat)
          BY <2>3 DEF AnyMessages
        <5>. QED  BY <2>10, <5>1
      <4>3. engine.waiting
        BY <2>11, <3>2
      <4>. QED  BY <2>4, <2>10, <3>1, <4>1, <4>2, <4>3 DEF Counted
    <3>3. CASE d.kind # kAck
      <4>1. AckOf(d) = << >> /\ engine'.waiting = engine.waiting
        <5>1. engine.waiting \in BOOLEAN
          BY <1>1 DEF EngineHalf
        <5>. QED  BY <2>1, <3>3, <5>1 DEF AckOf
      <4>2. Acks(g) \o << >> = Acks(g)
        BY <2>10
      <4>. QED  BY <2>4, <2>10, <3>1, <4>1, <4>2 DEF Counted
    <3>. QED  BY <3>2, <3>3
  <2>13. Ticked' /\ Unserved' = Unserved
    BY <1>1, <2>1, <2>4 DEF NodeKnows, Ticked, Unserved
  <2>14. (WhileReading => WhileReading') /\ (WhileLooping => WhileLooping')
    BY <2>1, <2>13 DEF WhileReading, WhileLooping
  <2>15. (Acks(Sayings) # << >> => EndsInAck(Sayings)) => (Acks(Sayings') # << >> => EndsInAck(Sayings'))
    BY <1>3
  <2>16. EndsInAck(Sayings') => EndsInAck(Sayings)'
    BY DEF EndsInAck
  <2>17. NodeKnows'
    BY <1>1, <1>6, <2>12, <2>13, <2>14, <2>15, <2>16 DEF NodeKnows
  <2>. QED  BY <1>2, <2>9, <2>17 DEF LastInv
<1>7. CASE Silent
  <2>1. /\ past' = past /\ engine'.sim = engine.sim /\ engine'.waiting = engine.waiting
        /\ (engine.closed => engine'.closed)
    BY <1>7 DEF Silent
  <2>2. Unserved' = Unserved /\ Heard'
    BY <1>1, <2>1 DEF Unserved, Heard
  <2>3. NodeKnows'
    BY <1>1, <1>3, <2>1, <2>2, KnowsKept
  <2>. QED  BY <1>2, <2>2, <2>3 DEF LastInv
<1>. QED  BY <1>1, <1>4, <1>5, <1>6, <1>7, EngineHistory

LEMMA LastInvStep ==
  ASSUME PrintsFit, NInv, LastInv, [BridgeNext]_bridgeVars
  PROVE  LastInv'
<1>1. CASE NodeWriteMsg \/ NodeWrites \/ NodeWriteFails \/ NodeEnds
  BY <1>1, LastWrites
<1>2. CASE NodeReads \/ NodeAsksPayload \/ CliReads
  BY <1>2, LastReads
<1>3. CASE HandleConsoleIn \/ HandleTick
  BY <1>3, LastHandles
<1>4. CASE EndPass
  BY <1>4, LastPass
<1>5. CASE EngineMoves /\ UNCHANGED <<node, said>>
  BY <1>5, LastEngine
<1>6. CASE EngineHasGone \/ UNCHANGED bridgeVars
  <2>1. UNCHANGED <<engine, node, up, down, past, said>>
    BY <1>6 DEF EngineHasGone, bridgeVars
  <2>2. Sayings' = Sayings /\ Unserved' = Unserved
    BY <2>1 DEF Sayings, Unserved
  <2>3. NodeKnows'
    BY <2>1, <2>2, KnowsKept DEF LastInv
  <2>. QED  BY <2>1, <2>3 DEF LastInv, DownTyped, NodeDown, Heard
<1>. QED  BY <1>1, <1>2, <1>3, <1>4, <1>5, <1>6 DEF BridgeNext, Node

\* With the acknowledgement the engine has everything the node printed and transmitted
\* until then, for a node that does not print more in a tick than the header can say.
THEOREM NodeAckIsLast ==
  ASSUME PrintsFit
  PROVE  BridgeSpec => []AckIsLast
PROOF
<1>1. BridgeInit => NInv /\ LastInv
  BY BridgeInitInv, LastInit
<1>2. NInv /\ LastInv /\ [BridgeNext]_bridgeVars => NInv' /\ LastInv'
  BY NInvStep, LastInvStep
<1>3. NInv /\ LastInv => AckIsLast
  <2>. SUFFICES ASSUME NInv, LastInv, engine.sim > 0, ~engine.waiting, ~engine.closed
                PROVE  /\ Payloads(past.downGot, kConsoleOut) = said.printed
                       /\ past.downGot = past.downSent
    BY DEF AckIsLast
  <2>1. /\ node.pc = "read" /\ Unserved = << >>
        /\ \A r \in Seq(AnyMessages) : Sayings = past.downGot \o r => Acks(r) = << >>
    BY Settled
  <2>2. /\ past.downGot \in Seq(AnyMessages) /\ past.downSent \in Seq(AnyMessages)
        /\ node.todo \in Seq(AnyMessages) /\ past.upSent \in Seq(AnyMessages)
        /\ Len(past.upGot) \in Nat /\ Len(past.upGot) <= Len(past.upSent)
        /\ said.printed \in Seq(Nat)
    BY NInvTypes, AnyLength DEF LastInv, DownTyped
  <2>. DEFINE g == past.downGot
              s == past.downSent
              w == node.todo
  <2>3. PICK r \in Seq(AnyMessages) : s = g \o r
    BY DEF LastInv, Heard
  <2>4. g \in Seq(AnyMessages) /\ s \in Seq(AnyMessages) /\ w \in Seq(AnyMessages)
    BY <2>2
  <2>. DEFINE q == r \o w
  <2>. HIDE DEF g, s, w, AnyMessages
  <2>5. q \in Seq(AnyMessages) /\ (g \o r) \o w = g \o (r \o w)
    BY ONLY <2>3, <2>4, r \in Seq(AnyMessages), SMTT(60)
  <2>6. Sayings = g \o q
    BY <2>3, <2>5 DEF Sayings, s, w
  <2>. HIDE DEF q
  <2>7. Acks(q) = << >>
    BY <2>1, <2>5, <2>6 DEF g
  <2>8. Acks(g \o q) = Acks(g) \o Acks(q)
    BY ONLY <2>4, <2>5, AckAlgebra, Zenon
  <2>9. Acks(Sayings) # << >>
    <3>1. Ticks(past.upSent) # << >>
      BY DEF LastInv, NodeKnows, Ticked
    <3>2. PICK due \in Seq(Seq(Nat)) :
            Serving(due) /\ Balance(past.upSent, Len(past.upGot), Sayings, due)
      BY DEF NInv, NothingMissed, NodeOwes
    <3>3. due = << >>
      BY <2>1, <3>2 DEF Serving
    <3>4. Ticks(past.upSent) = Acks(Sayings) \o (<< >> \o << >>)
      BY <2>1, <3>2, <3>3 DEF Balance, Unserved
    <3>5. << >> \o << >> = << >>
      OBVIOUS
    <3>. QED  BY <3>1, <3>4, <3>5
  <2>10. EndsInAck(g \o q)
    BY <2>1, <2>6, <2>9 DEF LastInv, NodeKnows
  <2>11. q = << >>
    <3>1. SUFFICES ASSUME q # << >>
                   PROVE  FALSE
      OBVIOUS
    <3>2. PICK t \in Seq(AnyMessages), m \in AnyMessages : m.kind = kAck /\ g \o q = Append(t, m)
      BY <2>10 DEF EndsInAck
    <3>. DEFINE l == Len(q)
                f == SubSeq(q, 1, l - 1)
    <3>3. l \in Nat \ {0} /\ q[l] \in AnyMessages /\ f \in Seq(AnyMessages)
      BY <2>5, <3>1
    <3>4. q = Append(f, q[l])
      <4>1. \A A : \A v \in Seq(A) : v # << >> =>
              Append(SubSeq(v, 1, Len(v) - 1), v[Len(v)]) = v
        BY FrontAndLast DEF Last
      <4>. HIDE DEF AnyMessages
      <4>. QED  BY ONLY <2>5, <3>1, <4>1, Zenon DEF f, l
    <3>5. q[l] = m
      <4>1. (g \o q)[Len(g \o q)] = q[l]
        BY <2>4, <2>5, <3>3
      <4>2. Append(t, m)[Len(Append(t, m))] = m
        OBVIOUS
      <4>. QED  BY <3>2, <4>1, <4>2
    <3>. HIDE DEF l, f
    <3>6. Acks(q) = Acks(f) \o << m.payload >>
      <4>1. Acks(Append(f, m)) = Acks(f) \o AckOf(m)
        BY <3>3, AckAlgebra
      <4>2. AckOf(m) = << m.payload >>
        BY <3>2 DEF AckOf
      <4>. QED  BY <3>4, <3>5, <4>1, <4>2
    <3>7. Acks(f) \in Seq(Seq(Nat)) /\ m.payload \in Seq(Nat)
      <4>1. m.payload \in Seq(Nat)
        BY DEF AnyMessages
      <4>. QED  BY <3>3, <4>1, AckAlgebra
    <3>8. Acks(f) \o << m.payload >> # << >>
      <4>. DEFINE a == Acks(f)
                  b == m.payload
                  A == Seq(Nat)
                  c == a \o << b >>
                  z == << >>
      <4>1. a \in Seq(A) /\ b \in A
        BY <3>7
      <4>. HIDE DEF a, b, A
      <4>2. Len(c) = Len(a) + 1 /\ Len(a) \in Nat /\ Len(z) = 0
        BY <4>1
      <4>. HIDE DEF c, z
      <4>3. c # z
        BY <4>2
      <4>. QED  BY <4>3 DEF a, b, c, z
    <3>. QED  BY <2>7, <3>6, <3>8
  <2>12. r = << >> /\ w = << >>
    <3>1. Len(r \o w) = Len(r) + Len(w) /\ Len(r) \in Nat /\ Len(w) \in Nat
      BY <2>4
    <3>2. Len(r \o w) = 0
      BY <2>11 DEF q
    <3>3. Len(r) = 0 /\ Len(w) = 0
      BY <3>1, <3>2
    <3>. QED  BY <2>4, <3>3
  <2>13. s = g
    BY <2>3, <2>4, <2>12
  <2>14. Payloads(g, kConsoleOut) = said.printed
    <3>1. g \o q = g
      BY <2>4, <2>11
    <3>2. node.consoleOut = << >>
      BY <2>1 DEF LastInv, NodeKnows, WhileReading
    <3>3. Payloads(g, kConsoleOut) \o << >> = said.printed
      BY <2>6, <3>1, <3>2 DEF NInv, NothingMissed, Printed
    <3>4. Payloads(g, kConsoleOut) \in Seq(Nat)
      BY <2>4, PayloadAlgebra DEF kConsoleOut
    <3>. QED  BY <3>3, <3>4
  <2>. QED  BY <2>13, <2>14 DEF g, s
<1>. QED  BY <1>1, <1>2, <1>3, PTL DEF BridgeSpec

\* Nothing that is sent or got is but by Sends, NodeHandles, NodeWriteMsg and EngineDecodes,
\* one message at a time, and what is got is the next of what was sent.
LEMMA NodeChannelStep ==
  ASSUME NInv, LastInv, [BridgeNext]_bridgeVars
  PROVE  [Up!Next]_(Up!vars) /\ [Down!Next]_(Down!vars)
<1>1. /\ past \in [upSent : Seq(Messages), upGot : Seq(Messages),
                   downSent : Seq(AnyMessages), downGot : {past.downGot}]
      /\ past.upSent \in Seq(Messages) /\ past.downSent \in Seq(Messages)
      /\ past.downGot \in Seq(Messages) /\ node.todo \in Seq(Messages)
      /\ engine.in \in Readers /\ down \in Seq(Nat) /\ node.out \in Seq(Nat)
      /\ NodeDown /\ EngineHalf
  BY NInvTypes DEF NInv, EngineHalf, LastInv, DownTyped
<1>. HIDE DEF Readers, Messages, AnyMessages
<1>2. ASSUME NEW m, past' = [past EXCEPT !.upSent = Append(@, m)], m \in Messages
      PROVE  [Up!Next]_(Up!vars) /\ [Down!Next]_(Down!vars)
  <2>1. /\ past'.upSent = Append(past.upSent, m) /\ past'.upGot = past.upGot
        /\ past'.downSent = past.downSent /\ past'.downGot = past.downGot
    BY <1>1, <1>2
  <2>2. Len(Append(past.upSent, m)) = Len(past.upSent) + 1
          /\ SubSeq(Append(past.upSent, m), 1, Len(past.upSent)) = past.upSent
    BY <1>1, <1>2, AppendPrefix
  <2>. QED  BY <2>1, <2>2 DEF Up!Next, Up!Send, Up!vars, Down!vars
<1>3. ASSUME NEW m, past' = [past EXCEPT !.downSent = Append(@, m)], m \in Messages
      PROVE  [Up!Next]_(Up!vars) /\ [Down!Next]_(Down!vars)
  <2>1. /\ past'.upSent = past.upSent /\ past'.upGot = past.upGot
        /\ past'.downSent = Append(past.downSent, m) /\ past'.downGot = past.downGot
    BY <1>1, <1>3
  <2>2. Len(Append(past.downSent, m)) = Len(past.downSent) + 1
          /\ SubSeq(Append(past.downSent, m), 1, Len(past.downSent)) = past.downSent
    BY <1>1, <1>3, AppendPrefix
  <2>. QED  BY <2>1, <2>2 DEF Down!Next, Down!Send, Up!vars, Down!vars
<1>4. ASSUME past' = past
      PROVE  [Up!Next]_(Up!vars) /\ [Down!Next]_(Down!vars)
  BY <1>4 DEF Up!vars, Down!vars
<1>5. CASE HandleConsoleIn \/ HandleTick
  <2>1. kConsoleIn \in Nat /\ kTick \in Nat /\ \E kind \in {kConsoleIn, kTick} : NodeHandles(kind)
    BY <1>5 DEF HandleConsoleIn, HandleTick, kConsoleIn, kTick
  <2>2. PICK kind \in Nat : NodeHandles(kind)
    BY <2>1
  <2>3. /\ past' = [past EXCEPT !.upGot = Append(@, past.upSent[Len(past.upGot) + 1])]
        /\ Len(past.upGot) < Len(past.upSent)
    BY <2>2, NodeGets
  <2>4. /\ past'.upGot = Append(past.upGot, past.upSent[Len(past.upGot) + 1])
        /\ past'.upSent = past.upSent
        /\ past'.downSent = past.downSent /\ past'.downGot = past.downGot
    BY <1>1, <2>3
  <2>. QED  BY <2>3, <2>4 DEF Up!Next, Up!Receive, Up!vars, Down!vars
<1>6. CASE ~engine.closed /\ GotMessage
  <2>1. Whole(engine.in) /\ past' = [past EXCEPT !.downGot = Append(@, Decoded(engine.in))]
    BY <1>6 DEF GotMessage
  <2>2. Flow(past.downSent, past.downGot, engine.in, down, node.out, FALSE)
    BY <1>1, <1>6 DEF NodeDown
  <2>3. /\ Len(past.downGot) < Len(past.downSent)
        /\ Decoded(engine.in) = past.downSent[Len(past.downGot) + 1]
    BY <1>1, <2>1, <2>2, FlowDecode
  <2>4. /\ past'.downGot = Append(past.downGot, past.downSent[Len(past.downGot) + 1])
        /\ past'.downSent = past.downSent
        /\ past'.upSent = past.upSent /\ past'.upGot = past.upGot
    BY <1>1, <2>1, <2>3
  <2>. QED  BY <2>3, <2>4 DEF Down!Next, Down!Receive, Up!vars, Down!vars
<1>7. CASE EngineMoves
  BY <1>1, <1>2, <1>4, <1>6, <1>7, EngineHistory DEF SentOther, SentTick, Silent
<1>8. CASE NodeWriteMsg
  <2>1. past' = [past EXCEPT !.downSent = Append(@, Head(node.todo))] /\ node.todo # << >>
    BY <1>8 DEF NodeWriteMsg
  <2>2. Head(node.todo) \in Messages
    BY <1>1, <2>1, HeadTailProperties
  <2>. QED  BY <1>3, <2>1, <2>2
<1>9. CASE \/ NodeWrites \/ NodeWriteFails \/ NodeReads \/ NodeAsksPayload \/ NodeEnds
           \/ CliReads \/ EndPass \/ EngineHasGone \/ UNCHANGED bridgeVars
  <2>1. past' = past
    BY <1>9 DEF NodeWrites, NodeWriteFails, NodeReads, NodeAsksPayload, NodeEnds, CliReads,
                EndPass, EngineHasGone, bridgeVars
  <2>. QED  BY <1>4, <2>1
<1>. QED  BY <1>5, <1>7, <1>8, <1>9 DEF BridgeNext, Node

\* Each direction of a native node's socket is a channel as well, for a node that does not
\* print more in a tick than the header can say.
THEOREM NodeSocketsAreChannels ==
  ASSUME PrintsFit
  PROVE  BridgeSpec => KeepsChannels
PROOF
<1>1. BridgeInit => NInv /\ LastInv
  BY BridgeInitInv, LastInit
<1>2. NInv /\ LastInv /\ [BridgeNext]_bridgeVars => NInv' /\ LastInv'
  BY NInvStep, LastInvStep
<1>3. BridgeInit => Up!Init /\ Down!Init
  BY DEF BridgeInit, EngineInit, Up!Init, Down!Init
<1>4. NInv /\ LastInv /\ [BridgeNext]_bridgeVars => [Up!Next]_(Up!vars) /\ [Down!Next]_(Down!vars)
  BY NodeChannelStep
<1>. QED  BY <1>1, <1>2, <1>3, <1>4, PTL DEF BridgeSpec, KeepsChannels, Up!Spec, Down!Spec
=============================================================================
