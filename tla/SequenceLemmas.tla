----------------------------- MODULE SequenceLemmas -----------------------------
(***************************************************************************)
(* Sequences, and sequences put together: what the proofs about the nodes  *)
(* and about their sockets keep needing.                                   *)
(***************************************************************************)
EXTENDS Gathering, SequenceTheorems, WellFoundedInduction, TLAPS

Last(s) == s[Len(s)]

\* A sequence is a prefix of itself with one more.
LEMMA AppendPrefix ==
  ASSUME NEW A, NEW s \in Seq(A), NEW m \in A
  PROVE  Len(Append(s, m)) = Len(s) + 1 /\ SubSeq(Append(s, m), 1, Len(s)) = s
PROOF
<1>. DEFINE t == Append(s, m)
            u == SubSeq(t, 1, Len(s))
<1>1. t \in Seq(A) /\ Len(t) = Len(s) + 1 /\ Len(s) \in Nat /\ \A i \in 1..Len(s) : t[i] = s[i]
  OBVIOUS
<1>2. u \in Seq(A) /\ Len(u) = Len(s) /\ \A i \in 1..Len(s) : u[i] = t[i]
  BY <1>1
<1>. HIDE DEF t, u
<1>3. u = s
  BY <1>1, <1>2, SeqEqual
<1>. QED  BY <1>1, <1>3 DEF t, u

\* One element joined to a sequence, and two.
LEMMA JoinedTwo ==
  ASSUME NEW A, NEW s \in Seq(A), NEW m \in A, NEW n \in A
  PROVE  /\ s \o << >> = s /\ s \o << m >> = Append(s, m)
         /\ s \o << m, n >> = Append(Append(s, m), n)
<1>1. s \o << >> = s /\ s \o << m >> = Append(s, m)
  OBVIOUS
<1>. DEFINE t == Append(Append(s, m), n)
            u == s \o << m, n >>
            k == Len(s)
<1>2. /\ t \in Seq(A) /\ Len(t) = k + 2 /\ k \in Nat
      /\ t[k + 1] = m /\ t[k + 2] = n /\ \A i \in 1..k : t[i] = s[i]
  OBVIOUS
<1>3. << m, n >> \in Seq(A) /\ Len(<< m, n >>) = 2 /\ << m, n >>[1] = m /\ << m, n >>[2] = n
  OBVIOUS
<1>4. /\ u \in Seq(A) /\ Len(u) = k + 2
      /\ u[k + 1] = m /\ u[k + 2] = n /\ \A i \in 1..k : u[i] = s[i]
  BY <1>3, ConcatProperties
<1>. HIDE DEF t, u, k
<1>5. \A i \in 1..(k + 2) : i \in 1..k \/ i = k + 1 \/ i = k + 2
  BY <1>2
<1>6. t = u
  BY <1>2, <1>4, <1>5
<1>. QED
  BY <1>1, <1>6 DEF t, u

\* Two elements are one joined to another.
LEMMA Pair ==
  ASSUME NEW A, NEW m \in A, NEW n \in A
  PROVE  << m >> \o << n >> = << m, n >>
<1>1. << m >> \in Seq(A) /\ Len(<< m >>) = 1 /\ << m >>[1] = m
  OBVIOUS
<1>2. << m >> \o << n >> = Append(<< m >>, n)
  BY <1>1, JoinedTwo
<1>. DEFINE t == Append(<< m >>, n)
<1>3. t \in Seq(A) /\ Len(t) = 2 /\ t[1] = m /\ t[2] = n
  BY <1>1
<1>4. << m, n >> \in Seq(A) /\ Len(<< m, n >>) = 2 /\ << m, n >>[1] = m /\ << m, n >>[2] = n
  OBVIOUS
<1>5. \A i \in 1..2 : i = 1 \/ i = 2
  OBVIOUS
<1>. HIDE DEF t
<1>6. t = << m, n >>
  BY <1>3, <1>4, <1>5, SeqEqual
<1>. QED
  BY <1>2, <1>6 DEF t

\* A sequence is its last element after the rest.
LEMMA FrontAndLast ==
  ASSUME NEW A, NEW s \in Seq(A), s # << >>
  PROVE  Append(SubSeq(s, 1, Len(s) - 1), Last(s)) = s
<1>. DEFINE n == Len(s)
            t == SubSeq(s, 1, n - 1)
            u == Append(t, s[n])
<1>1. n \in Nat /\ n # 0
  BY EmptySeq
<1>2. t \in Seq(A) /\ Len(t) = n - 1 /\ \A i \in 1..(n - 1) : t[i] = s[i]
  <2>1. /\ n \in Nat /\ n # 0 /\ 1 \in 1..(n + 1) /\ n - 1 \in (1 - 1)..n
        /\ (n - 1) - 1 + 1 = n - 1
        /\ \A i \in 1..(n - 1) : i \in Nat /\ i \in 1..n /\ 1 + i - 1 = i
    <3>. HIDE DEF n
    <3>. QED
      BY <1>1
  <2>2. \A i \in 1..(n - 1) : s[i] \in A
    BY <2>1
  <2>3. /\ t \in Seq(A) /\ Len(t) = IF 1 <= n - 1 THEN (n - 1) - 1 + 1 ELSE 0
        /\ \A i \in 1..((n - 1) - 1 + 1) : t[i] = s[1 + i - 1]
    <3>. HIDE DEF n
    <3>1. 1 \in Int /\ n - 1 \in Int
      BY <2>1
    <3>. QED
      BY ONLY <2>2, <3>1, SubSeqProperties DEF t
  <2>. HIDE DEF t, n
  <2>. QED
    BY <2>1, <2>3
<1>3. s[n] \in A
  BY <1>1
<1>. HIDE DEF t
<1>4. u \in Seq(A) /\ Len(u) = n /\ u[n] = s[n] /\ \A i \in 1..(n - 1) : u[i] = s[i]
  BY <1>1, <1>2, <1>3
<1>5. \A i \in 1..n : i \in 1..(n - 1) \/ i = n
  BY <1>1
<1>. HIDE DEF u
<1>6. u = s
  BY <1>4, <1>5
<1>. QED
  BY <1>6 DEF u, t, Last

\* A sequence of one element is empty once that is taken.
LEMMA LastTaken ==
  ASSUME NEW A, NEW s \in Seq(A), s # << >>, Len(s) <= 1
  PROVE  Tail(s) = << >>
<1>. DEFINE t == Tail(s)
            n == Len(s)
<1>1. t \in Seq(A) /\ n \in Nat /\ n # 0 /\ Len(t) = n - 1
  BY EmptySeq
<1>2. n <= 1
  OBVIOUS
<1>. HIDE DEF n
<1>3. Len(t) = 0
  BY <1>1, <1>2
<1>. QED
  BY <1>1, <1>3, EmptySeq

\* The whole of a sequence, and what comes after it.
LEMMA WholeSeq ==
  ASSUME NEW S, NEW s \in Seq(S)
  PROVE  SubSeq(s, 1, Len(s)) = s /\ SubSeq(s, Len(s) + 1, Len(s)) = << >>
<1>1. Len(s) \in Nat /\ Len(s) + 1 \in 1..(Len(s) + 1)
  OBVIOUS
<1>2. SubSeq(s, 1, Len(s)) = s
  OBVIOUS
<1>3. SubSeq(s, Len(s) + 1, Len(s)) = << >>
  BY <1>1, SubSeqEmpty
<1>. QED
  BY <1>2, <1>3

\* The first of what is left of a sequence, and the rest.
LEMMA NextCommand ==
  ASSUME NEW S, NEW s \in Seq(S), NEW k \in 1..(Len(s) + 1), NEW todo,
         todo = SubSeq(s, k, Len(s))
  PROVE  /\ todo = << >> => k = Len(s) + 1
         /\ k = Len(s) + 1 => todo = << >>
         /\ todo # << >> => /\ k \in 1..Len(s) /\ k + 1 \in 1..(Len(s) + 1)
                            /\ Head(todo) = s[k] /\ Tail(todo) = SubSeq(s, k + 1, Len(s))
<1>. DEFINE n == Len(s)
<1>1. /\ n \in Nat /\ todo \in Seq(S) /\ Len(todo) = n - k + 1 /\ k \in Nat
      /\ \A i \in 1..(n - k + 1) : todo[i] = s[k + i - 1]
  BY SubSeqProperties
<1>2. todo = << >> <=> k = n + 1
  <2>1. todo = << >> <=> Len(todo) = 0
    BY <1>1, EmptySeq
  <2>. HIDE DEF n
  <2>. QED
    BY <1>1, <2>1
<1>3. ASSUME todo # << >>
      PROVE  /\ k \in 1..n /\ k + 1 \in 1..(n + 1)
             /\ Head(todo) = s[k] /\ Tail(todo) = SubSeq(s, k + 1, n)
  <2>1. k \in 1..n /\ k + 1 \in 1..(n + 1)
    BY <1>1, <1>2, <1>3
  <2>2. Head(todo) = s[k]
    BY <1>1, <1>3, <2>1
  <2>. DEFINE u == SubSeq(s, k + 1, n)
              v == Tail(todo)
  <2>3. u \in Seq(S) /\ Len(u) = n - k /\ \A i \in 1..(n - k) : u[i] = s[k + i]
    BY <1>1, <2>1, SubSeqProperties
  <2>4. v \in Seq(S) /\ Len(v) = n - k /\ \A i \in 1..(n - k) : v[i] = s[k + i]
    BY <1>1, <1>3, <2>1
  <2>. HIDE DEF u, v
  <2>5. u = v
    BY <2>3, <2>4
  <2>. QED
    BY <2>1, <2>2, <2>5 DEF u, v
<1>. QED
  BY <1>2, <1>3

\* The first of two sequences joined is where the join begins.
LEMMA TailJoined ==
  ASSUME NEW A, NEW s \in Seq(A), s # << >>, NEW t \in Seq(A)
  PROVE  /\ s \o t \in Seq(A) /\ s \o t # << >> /\ Head(s \o t) = Head(s) /\ Head(s) \in A
         /\ Tail(s) \in Seq(A) /\ Tail(s) \o t = Tail(s \o t)
PROOF
<1>1. Len(s) \in Nat \ {0} /\ Tail(s) \in Seq(A) /\ Head(s) \in A /\ Head(s) = s[1]
  BY EmptySeq, HeadTailProperties
<1>2. s \o t \in Seq(A) /\ s \o t # << >> /\ Head(s \o t) = s[1]
  BY <1>1
<1>3. Tail(s) \o t = Tail(s \o t)
  <2>. DEFINE l == Tail(s) \o t
              r == Tail(s \o t)
  <2>1. /\ Len(Tail(s)) = Len(s) - 1 /\ Len(t) \in Nat /\ Len(s \o t) = Len(s) + Len(t)
        /\ l \in Seq(A) /\ Len(l) = (Len(s) - 1) + Len(t)
        /\ r \in Seq(A) /\ Len(r) = (Len(s) + Len(t)) - 1
    BY <1>1, <1>2
  <2>2. ASSUME NEW i \in 1..Len(l)
        PROVE  l[i] = r[i]
    BY <1>1, <1>2, <2>1
  <2>. HIDE DEF l, r
  <2>3. Len(l) = Len(r)
    BY <1>1, <2>1
  <2>4. l = r
    BY <2>1, <2>2, <2>3, SeqEqual
  <2>. QED  BY <2>4 DEF l, r
<1>. QED  BY <1>1, <1>2, <1>3

\* Nothing is lost if the first of one sequence is moved to the end of another.
LEMMA HeadMoved ==
  ASSUME NEW A, NEW s \in Seq(A), NEW t \in Seq(A), t # << >>
  PROVE  /\ Head(t) \in A /\ Tail(t) \in Seq(A) /\ Append(s, Head(t)) \in Seq(A)
         /\ Append(s, Head(t)) \o Tail(t) = s \o t
<1>1. Head(t) \in A /\ Tail(t) \in Seq(A) /\ Len(t) \in Nat \ {0} /\ Len(Tail(t)) = Len(t) - 1
        /\ Head(t) = t[1] /\ \A i \in 1..(Len(t) - 1) : Tail(t)[i] = t[i + 1]
  BY EmptySeq, HeadTailProperties
<1>. DEFINE u == Append(s, Head(t))
            h == Head(t)
            x == Tail(t)
            l == u \o x
            r == s \o t
<1>2. /\ u \in Seq(A) /\ Len(u) = Len(s) + 1 /\ u[Len(s) + 1] = h /\ \A i \in 1..Len(s) : u[i] = s[i]
      /\ Len(s) \in Nat
  BY <1>1
<1>. HIDE DEF u, h, x
<1>3. /\ l \in Seq(A) /\ Len(l) = Len(u) + Len(x)
      /\ \A i \in 1..(Len(u) + Len(x)) : l[i] = IF i <= Len(u) THEN u[i] ELSE x[i - Len(u)]
  <2>1. u \in Seq(A) /\ x \in Seq(A)
    BY <1>1, <1>2 DEF x
  <2>. QED  BY <2>1, ConcatProperties
<1>4. /\ r \in Seq(A) /\ Len(r) = Len(s) + Len(t)
      /\ \A i \in 1..(Len(s) + Len(t)) : r[i] = IF i <= Len(s) THEN s[i] ELSE t[i - Len(s)]
  BY ConcatProperties
<1>. HIDE DEF l, r
<1>5. Len(l) = Len(r)
  BY <1>1, <1>2, <1>3, <1>4 DEF x
<1>6. ASSUME NEW i \in 1..Len(l)
      PROVE  l[i] = r[i]
  <2>. DEFINE a == Len(s)
              b == Len(t)
  <2>1. /\ a \in Nat /\ b \in Nat \ {0} /\ Len(u) = a + 1 /\ Len(x) = b - 1 /\ i \in 1..(a + b)
        /\ h = t[1] /\ \A j \in 1..(b - 1) : x[j] = t[j + 1]
    BY <1>1, <1>2, <1>3 DEF x, h
  <2>2. /\ i \in 1..(Len(u) + Len(x)) /\ l[i] = IF i <= a + 1 THEN u[i] ELSE x[i - (a + 1)]
        /\ r[i] = IF i <= a THEN s[i] ELSE t[i - a]
        /\ u[a + 1] = h /\ \A j \in 1..a : u[j] = s[j]
    BY <1>2, <1>3, <1>4, <2>1
  <2>. HIDE DEF a, b
  <2>3. CASE i <= a
    BY <2>1, <2>2, <2>3
  <2>4. CASE i = a + 1
    BY <2>1, <2>2, <2>4
  <2>5. CASE i > a + 1
    <3>1. i - (a + 1) \in 1..(b - 1) /\ (i - (a + 1)) + 1 = i - a /\ ~(i <= a) /\ ~(i <= a + 1)
      BY <2>1, <2>5
    <3>. QED  BY <2>1, <2>2, <3>1
  <2>. QED  BY <2>1, <2>3, <2>4, <2>5
<1>7. l = r
  BY <1>3, <1>4, <1>5, <1>6, SeqEqual
<1>. QED  BY <1>1, <1>2, <1>7 DEF l, r, u, x, h

-----------------------------------------------------------------------------
\* Induction over the numbers, by way of sets of them.

\* The natural numbers are well ordered.
LEMMA Lowest ==
  ASSUME NEW T \in SUBSET Nat, T # {}
  PROVE  \E n \in T : \A m \in T : n <= m
<1>. DEFINE R == OpToRel(<, Nat)
<1>1. IsWellFoundedOn(R, Nat)
  BY NatLessThanWellFounded
<1>2. \A m, n \in Nat : m < n => <<m, n>> \in R
  BY DEF OpToRel
<1>. HIDE DEF R
<1>3. PICK n \in T : \A m \in T : ~ (<<m, n>> \in R)
  BY <1>1, WFMin
<1>4. \A m \in T : ~(m < n)
  BY <1>2, <1>3
<1>. QED
  BY <1>4

\* A set of numbers with 0 and with the next of each is all of them.
LEMMA Induction ==
  ASSUME NEW S \in SUBSET Nat, 0 \in S, \A n \in S : n + 1 \in S
  PROVE  S = Nat
<1>. SUFFICES ASSUME Nat \ S # {}
              PROVE  FALSE
  OBVIOUS
<1>1. PICK n \in Nat \ S : \A m \in Nat \ S : n <= m
  BY Lowest
<1>2. n # 0 /\ n - 1 \in Nat
  BY <1>1
<1>3. n - 1 \in S
  BY <1>1, <1>2
<1>. QED
  BY <1>1, <1>3

-----------------------------------------------------------------------------
\* What FlattenSeq() has put together after each of its steps.
Steps(f, ps) ==
  f = [i \in 1..Len(ps) |-> IF i = 1 THEN ps[i] ELSE f[i - 1] \o ps[i]]

LEMMA StepsAre ==
  ASSUME NEW ps, NEW f, Steps(f, ps)
  PROVE  /\ DOMAIN f = 1..Len(ps)
         /\ \A i \in 1..Len(ps) : f[i] = IF i = 1 THEN ps[i] ELSE f[i - 1] \o ps[i]
<1>1. DOMAIN f = 1..Len(ps)
  <2>. DEFINE g == [i \in 1..Len(ps) |-> IF i = 1 THEN ps[i] ELSE f[i - 1] \o ps[i]]
  <2>1. DOMAIN g = 1..Len(ps)
    OBVIOUS
  <2>2. f = g
    BY Zenon DEF Steps
  <2>. HIDE DEF g
  <2>. QED
    BY <2>1, <2>2
<1>2. \A i \in 1..Len(ps) : f[i] = IF i = 1 THEN ps[i] ELSE f[i - 1] \o ps[i]
  BY Zenon DEF Steps
<1>. QED
  BY <1>1, <1>2

\* They depend on what there is so far and on nothing else.
LEMMA StepsAgree ==
  ASSUME NEW A, NEW ps \in Seq(A), NEW qs \in Seq(A), Len(ps) <= Len(qs),
         \A i \in 1..Len(ps) : qs[i] = ps[i],
         NEW f, Steps(f, ps), NEW g, Steps(g, qs)
  PROVE  \A i \in 1..Len(ps) : g[i] = f[i]
<1>. DEFINE T == {i \in 1..Len(ps) : g[i] # f[i]}
<1>1. /\ \A i \in 1..Len(ps) : f[i] = IF i = 1 THEN ps[i] ELSE f[i - 1] \o ps[i]
      /\ \A i \in 1..Len(qs) : g[i] = IF i = 1 THEN qs[i] ELSE g[i - 1] \o qs[i]
  BY StepsAre
<1>2. Len(ps) \in Nat /\ Len(qs) \in Nat
  OBVIOUS
<1>. SUFFICES ASSUME T # {}
              PROVE  FALSE
  OBVIOUS
<1>3. T \in SUBSET Nat
  BY <1>2
<1>4. PICK i \in T : \A j \in T : i <= j
  BY <1>3, Lowest
<1>5. i \in 1..Len(ps) /\ i \in 1..Len(qs) /\ g[i] # f[i]
  BY <1>2, <1>4
<1>6. i # 1 => g[i - 1] = f[i - 1]
  <2>1. i # 1 => i - 1 \in 1..Len(ps) /\ ~(i <= i - 1)
    BY <1>2, <1>5
  <2>. QED
    BY <1>4, <2>1
<1>7. f[i] = IF i = 1 THEN ps[i] ELSE f[i - 1] \o ps[i]
  BY <1>1, <1>5, Zenon
<1>8. g[i] = IF i = 1 THEN ps[i] ELSE g[i - 1] \o ps[i]
  BY <1>1, <1>5, Zenon
<1>. QED
  BY <1>5, <1>6, <1>7, <1>8, Zenon

\* One more step.
LEMMA StepsGoOn ==
  ASSUME NEW A, NEW ps \in Seq(A), NEW p \in A, NEW f, Steps(f, ps)
  PROVE  \E g : /\ Steps(g, Append(ps, p))
                /\ g[Len(ps) + 1] = IF Len(ps) = 0 THEN p ELSE f[Len(ps)] \o p
<1>. DEFINE n == Len(ps)
            qs == Append(ps, p)
            last == IF n = 0 THEN p ELSE f[n] \o p
            g == [i \in 1..(n + 1) |-> IF i = n + 1 THEN last ELSE f[i]]
            h == [i \in 1..(n + 1) |-> IF i = 1 THEN qs[i] ELSE g[i - 1] \o qs[i]]
<1>1. /\ n \in Nat /\ Len(qs) = n + 1 /\ qs[n + 1] = p
      /\ \A i \in 1..n : qs[i] = ps[i]
  OBVIOUS
<1>2. \A i \in 1..n : f[i] = IF i = 1 THEN ps[i] ELSE f[i - 1] \o ps[i]
  BY StepsAre
<1>. HIDE DEF qs, last, n
<1>3. /\ \A i \in 1..n : g[i] = f[i]
      /\ g[n + 1] = last
  BY <1>1
<1>4. \A i \in 1..(n + 1) : g[i] = IF i = 1 THEN qs[i] ELSE g[i - 1] \o qs[i]
  <2>1. ASSUME NEW i \in 1..(n + 1), i = n + 1
        PROVE  g[i] = IF i = 1 THEN qs[i] ELSE g[i - 1] \o qs[i]
    <3>1. CASE n = 0
      BY <1>1, <1>3, <2>1, <3>1 DEF last
    <3>2. CASE n # 0
      <4>1. i # 1 /\ i - 1 = n /\ n \in 1..n
        BY <1>1, <2>1, <3>2
      <4>2. g[i] = f[n] \o p /\ g[i - 1] = f[n] /\ qs[i] = p
        BY <1>1, <1>3, <2>1, <3>2, <4>1 DEF last
      <4>. HIDE DEF g
      <4>. QED
        BY <4>1, <4>2
    <3>. QED
      BY <3>1, <3>2
  <2>2. ASSUME NEW i \in 1..(n + 1), i # n + 1
        PROVE  g[i] = IF i = 1 THEN qs[i] ELSE g[i - 1] \o qs[i]
    <3>1. i \in 1..n /\ (i # 1 => i - 1 \in 1..n)
      BY <1>1, <2>2
    <3>2. g[i] = f[i] /\ qs[i] = ps[i] /\ (i # 1 => g[i - 1] = f[i - 1])
      BY <1>1, <1>3, <3>1
    <3>. HIDE DEF g
    <3>. QED
      BY <1>2, <3>1, <3>2, Zenon
  <2>. QED
    BY <2>1, <2>2
<1>5. g = h
  <2>1. \A i \in 1..(n + 1) : g[i] = h[i]
    BY <1>4, Zenon
  <2>. QED
    BY <2>1, Zenon
<1>. HIDE DEF g
<1>6. Steps(g, qs)
  BY <1>1, <1>5, Zenon DEF Steps
<1>. QED
  BY <1>3, <1>6, Zenon DEF qs, last, n

LEMMA StepsExist ==
  ASSUME NEW A, NEW ps \in Seq(A)
  PROVE  \E f : Steps(f, ps)
<1>. DEFINE S == {n \in Nat : \A qs \in Seq(A) : Len(qs) = n => \E f : Steps(f, qs)}
<1>1. 0 \in S
  <2>. SUFFICES ASSUME NEW qs \in Seq(A), Len(qs) = 0
                PROVE  \E f : Steps(f, qs)
    OBVIOUS
  <2>. DEFINE f == [i \in 1..Len(qs) |-> 0]
              g == [i \in 1..Len(qs) |-> IF i = 1 THEN qs[i] ELSE f[i - 1] \o qs[i]]
  <2>1. f = g
    OBVIOUS
  <2>. HIDE DEF f
  <2>2. Steps(f, qs)
    BY <2>1, Zenon DEF Steps
  <2>. QED
    BY <2>2
<1>2. \A n \in S : n + 1 \in S
  <2>. SUFFICES ASSUME NEW n \in S
                PROVE  n + 1 \in S
    OBVIOUS
  <2>1. n \in Nat /\ \A rs \in Seq(A) : Len(rs) = n => \E f : Steps(f, rs)
    OBVIOUS
  <2>. SUFFICES ASSUME NEW qs \in Seq(A), Len(qs) = n + 1
                PROVE  \E f : Steps(f, qs)
    BY <2>1
  <2>. DEFINE rs == SubSeq(qs, 1, n)
  <2>2. rs \in Seq(A) /\ Len(rs) = n /\ qs[n + 1] \in A /\ qs = Append(rs, qs[n + 1])
    BY <2>1
  <2>3. PICK f : Steps(f, rs)
    BY <2>1, <2>2
  <2>. HIDE DEF rs
  <2>4. \E g : Steps(g, Append(rs, qs[n + 1]))
    BY <2>2, <2>3, StepsGoOn
  <2>. QED
    BY <2>2, <2>4
<1>3. S \in SUBSET Nat
  OBVIOUS
<1>. HIDE DEF S
<1>4. S = Nat
  BY <1>1, <1>2, <1>3, Induction
<1>5. Len(ps) \in S
  BY <1>4
<1>. QED
  BY <1>5 DEF S

\* Nothing put together; a sequence more; two lots of them.
LEMMA FlatEmpty == Seqs!FlattenSeq(<< >>) = << >>
BY DEF Seqs!FlattenSeq

LEMMA FlatLast ==
  ASSUME NEW A, NEW ps \in Seq(A), ps # << >>, NEW f, Steps(f, ps)
  PROVE  Seqs!FlattenSeq(ps) = f[Len(ps)]
<1>. DEFINE g == CHOOSE g : Steps(g, ps)
<1>1. Len(ps) # 0 /\ Len(ps) \in 1..Len(ps) /\ Len(ps) <= Len(ps)
  OBVIOUS
<1>2. Seqs!FlattenSeq(ps) = g[Len(ps)]
  BY <1>1, Zenon DEF Seqs!FlattenSeq, Steps
<1>3. Steps(g, ps)
  BY Zenon
<1>. HIDE DEF g
<1>4. \A i \in 1..Len(ps) : g[i] = f[i]
  BY <1>1, <1>3, StepsAgree
<1>. QED
  BY <1>1, <1>2, <1>4

LEMMA FlatAppend ==
  ASSUME NEW A, NEW ps \in Seq(Seq(A)), NEW p \in Seq(A)
  PROVE  Seqs!FlattenSeq(Append(ps, p)) = Seqs!FlattenSeq(ps) \o p
<1>. DEFINE n == Len(ps)
<1>1. PICK f : Steps(f, ps)
  BY StepsExist
<1>2. PICK g : /\ Steps(g, Append(ps, p))
               /\ g[n + 1] = IF n = 0 THEN p ELSE f[n] \o p
  BY <1>1, StepsGoOn
<1>3. Append(ps, p) \in Seq(Seq(A)) /\ Append(ps, p) # << >> /\ Len(Append(ps, p)) = n + 1
  <2>1. ASSUME NEW B, NEW qs \in Seq(B), NEW q \in B
        PROVE  Append(qs, q) \in Seq(B) /\ Append(qs, q) # << >> /\ Len(Append(qs, q)) = Len(qs) + 1
    OBVIOUS
  <2>. QED
    BY <2>1
<1>4. Seqs!FlattenSeq(Append(ps, p)) = g[n + 1]
  BY <1>2, <1>3, FlatLast
<1>5. CASE ps = << >>
  <2>1. n = 0 /\ << >> \o p = p
    BY <1>5
  <2>. QED
    BY <1>2, <1>4, <1>5, <2>1, FlatEmpty
<1>6. CASE ps # << >>
  <2>1. n # 0 /\ Seqs!FlattenSeq(ps) = f[n]
    BY <1>1, <1>6, FlatLast
  <2>. QED
    BY <1>2, <1>4, <2>1
<1>. QED
  BY <1>5, <1>6

LEMMA FlatType ==
  ASSUME NEW A, NEW ps \in Seq(Seq(A))
  PROVE  Seqs!FlattenSeq(ps) \in Seq(A)
<1>. DEFINE S == {n \in Nat : \A qs \in Seq(Seq(A)) : Len(qs) = n => Seqs!FlattenSeq(qs) \in Seq(A)}
<1>1. 0 \in S
  <2>1. \A qs \in Seq(Seq(A)) : Len(qs) = 0 => qs = << >>
    OBVIOUS
  <2>2. << >> \in Seq(A)
    OBVIOUS
  <2>. QED
    BY <2>1, <2>2, FlatEmpty
<1>2. \A n \in S : n + 1 \in S
  <2>. SUFFICES ASSUME NEW n \in S, NEW qs \in Seq(Seq(A)), Len(qs) = n + 1
                PROVE  Seqs!FlattenSeq(qs) \in Seq(A)
    OBVIOUS
  <2>. DEFINE rs == SubSeq(qs, 1, n)
              q == qs[n + 1]
  <2>1. rs \in Seq(Seq(A)) /\ Len(rs) = n /\ q \in Seq(A) /\ qs = Append(rs, q)
    OBVIOUS
  <2>2. Seqs!FlattenSeq(rs) \in Seq(A)
    BY <2>1
  <2>. HIDE DEF rs, q
  <2>3. Seqs!FlattenSeq(qs) = Seqs!FlattenSeq(rs) \o q
    BY <2>1, FlatAppend
  <2>. QED
    BY <2>1, <2>2, <2>3
<1>3. S \in SUBSET Nat
  OBVIOUS
<1>. HIDE DEF S
<1>4. S = Nat
  BY <1>1, <1>2, <1>3, Induction
<1>5. Len(ps) \in S
  BY <1>4
<1>. QED
  BY <1>5 DEF S

LEMMA FlatJoin ==
  ASSUME NEW A, NEW ps \in Seq(Seq(A)), NEW qs \in Seq(Seq(A))
  PROVE  Seqs!FlattenSeq(ps \o qs) = Seqs!FlattenSeq(ps) \o Seqs!FlattenSeq(qs)
<1>. DEFINE Joins(rs) == Seqs!FlattenSeq(ps \o rs) = Seqs!FlattenSeq(ps) \o Seqs!FlattenSeq(rs)
            S == {n \in Nat : \A rs \in Seq(Seq(A)) : Len(rs) = n => Joins(rs)}
<1>0. Seqs!FlattenSeq(ps) \in Seq(A)
  BY FlatType
<1>1. 0 \in S
  <2>1. \A rs \in Seq(Seq(A)) : Len(rs) = 0 => rs = << >>
    OBVIOUS
  <2>2. ps \o << >> = ps /\ Seqs!FlattenSeq(ps) \o << >> = Seqs!FlattenSeq(ps)
    BY <1>0
  <2>. QED
    BY <2>1, <2>2, FlatEmpty
<1>2. \A n \in S : n + 1 \in S
  <2>. SUFFICES ASSUME NEW n \in S
                PROVE  n + 1 \in S
    OBVIOUS
  <2>0. n \in Nat /\ \A rs \in Seq(Seq(A)) : Len(rs) = n => Joins(rs)
    OBVIOUS
  <2>. SUFFICES ASSUME NEW rs \in Seq(Seq(A)), Len(rs) = n + 1
                PROVE  Joins(rs)
    BY <2>0
  <2>. DEFINE front == SubSeq(rs, 1, n)
              r == rs[n + 1]
  <2>1. front \in Seq(Seq(A)) /\ Len(front) = n /\ r \in Seq(A) /\ rs = Append(front, r)
    BY <2>0
  <2>2. Joins(front)
    BY <2>0, <2>1
  <2>. HIDE DEF front, r
  <2>3. ps \o front \in Seq(Seq(A)) /\ ps \o rs = Append(ps \o front, r)
    BY <2>1
  <2>4. /\ Seqs!FlattenSeq(rs) = Seqs!FlattenSeq(front) \o r
        /\ Seqs!FlattenSeq(ps \o rs) = Seqs!FlattenSeq(ps \o front) \o r
    BY <2>1, <2>3, FlatAppend
  <2>5. Seqs!FlattenSeq(front) \in Seq(A)
    BY <2>1, FlatType
  <2>6. (Seqs!FlattenSeq(ps) \o Seqs!FlattenSeq(front)) \o r
          = Seqs!FlattenSeq(ps) \o (Seqs!FlattenSeq(front) \o r)
    <3>. DEFINE x == Seqs!FlattenSeq(ps)
                y == Seqs!FlattenSeq(front)
    <3>1. x \in Seq(A) /\ y \in Seq(A) /\ r \in Seq(A)
      BY <1>0, <2>1, <2>5
    <3>. HIDE DEF x, y
    <3>2. (x \o y) \o r = x \o (y \o r)
      BY ONLY <3>1, SMTT(60)
    <3>. QED
      BY <3>2 DEF x, y
  <2>7. Seqs!FlattenSeq(ps \o rs) = (Seqs!FlattenSeq(ps) \o Seqs!FlattenSeq(front)) \o r
    BY <2>2, <2>4
  <2>. HIDE DEF Joins
  <2>8. (Seqs!FlattenSeq(ps) \o Seqs!FlattenSeq(front)) \o r
          = Seqs!FlattenSeq(ps) \o Seqs!FlattenSeq(rs)
    BY <2>4, <2>6, Zenon
  <2>. QED
    BY <2>7, <2>8, Zenon DEF Joins
<1>3. S \in SUBSET Nat
  OBVIOUS
<1>. HIDE DEF S
<1>4. S = Nat
  BY <1>1, <1>2, <1>3, Induction
<1>5. Len(qs) \in S
  BY <1>4
<1>. QED
  BY <1>5 DEF S

-----------------------------------------------------------------------------
\* Joining sequences is associative, and an empty one adds nothing.
LEMMA Joining ==
  ASSUME NEW A, NEW x \in Seq(A), NEW y \in Seq(A), NEW z \in Seq(A)
  PROVE  /\ x \o y \in Seq(A) /\ Len(x \o y) = Len(x) + Len(y)
         /\ (x \o y) \o z = x \o (y \o z)
         /\ x \o << >> = x /\ << >> \o x = x
         /\ x \o y = << >> => x = << >> /\ y = << >>
<1>1. x \o y \in Seq(A) /\ Len(x \o y) = Len(x) + Len(y)
  OBVIOUS
<1>2. (x \o y) \o z = x \o (y \o z)
  BY SMTT(60)
<1>3. x \o << >> = x /\ << >> \o x = x
  OBVIOUS
<1>4. x \o y = << >> => x = << >> /\ y = << >>
  <2>. SUFFICES ASSUME x \o y = << >>
                PROVE  x = << >> /\ y = << >>
    OBVIOUS
  <2>1. Len(x) + Len(y) = 0 /\ Len(x) \in Nat /\ Len(y) \in Nat
    BY <1>1
  <2>2. Len(x) = 0 /\ Len(y) = 0
    BY <2>1
  <2>. QED
    BY <2>2, EmptySeq
<1>. QED
  BY <1>1, <1>2, <1>3, <1>4

\* A sequence is a prefix of what it is joined to.
LEMMA JoinedPrefix ==
  ASSUME NEW A, NEW s \in Seq(A), NEW t \in Seq(A)
  PROVE  Len(s) <= Len(s \o t) /\ SubSeq(s \o t, 1, Len(s)) = s
<1>. DEFINE u == s \o t
            v == SubSeq(u, 1, Len(s))
<1>1. /\ u \in Seq(A) /\ Len(u) = Len(s) + Len(t) /\ Len(s) \in Nat /\ Len(t) \in Nat
      /\ \A i \in 1..Len(s) : u[i] = s[i]
  OBVIOUS
<1>2. Len(s) <= Len(u)
  BY <1>1
<1>. HIDE DEF u
<1>3. v \in Seq(A) /\ Len(v) = Len(s) /\ \A i \in 1..Len(s) : v[i] = u[i]
  BY <1>1, <1>2
<1>. HIDE DEF v
<1>4. v = s
  BY <1>1, <1>3, SeqEqual
<1>. QED  BY <1>2, <1>4 DEF u, v

\* What comes after the first n elements of a sequence with one more.
LEMMA RestAppend ==
  ASSUME NEW A, NEW s \in Seq(A), NEW m \in A, NEW n \in Nat, n <= Len(s)
  PROVE  SubSeq(Append(s, m), n + 1, Len(s) + 1) = Append(SubSeq(s, n + 1, Len(s)), m)
<1>. DEFINE k == Len(s)
            t == Append(s, m)
            r == SubSeq(s, n + 1, k)
            u == SubSeq(t, n + 1, k + 1)
            v == Append(r, m)
<1>1. /\ k \in Nat /\ t \in Seq(A) /\ Len(t) = k + 1 /\ t[k + 1] = m
      /\ \A i \in 1..k : t[i] = s[i]
  OBVIOUS
<1>2. r \in Seq(A) /\ Len(r) = k - n /\ \A i \in 1..(k - n) : r[i] = s[n + i]
  <2>1. \A i \in (n + 1)..k : s[i] \in A
    OBVIOUS
  <2>. HIDE DEF k
  <2>2. /\ r \in Seq(A) /\ Len(r) = IF n + 1 <= k THEN k - (n + 1) + 1 ELSE 0
        /\ \A i \in 1..(k - (n + 1) + 1) : r[i] = s[(n + 1) + i - 1]
    BY <1>1, <2>1, SubSeqProperties DEF r
  <2>3. n <= k
    BY DEF k
  <2>. HIDE DEF r
  <2>. QED
    BY <1>1, <2>2, <2>3
<1>3. u \in Seq(A) /\ Len(u) = k + 1 - n /\ \A i \in 1..(k + 1 - n) : u[i] = t[n + i]
  <2>1. \A i \in (n + 1)..(k + 1) : t[i] \in A
    BY <1>1
  <2>3. n <= k
    BY DEF k
  <2>. HIDE DEF k, t
  <2>2. /\ u \in Seq(A) /\ Len(u) = IF n + 1 <= k + 1 THEN (k + 1) - (n + 1) + 1 ELSE 0
        /\ \A i \in 1..((k + 1) - (n + 1) + 1) : u[i] = t[(n + 1) + i - 1]
    BY <1>1, <2>1, SubSeqProperties DEF u
  <2>. HIDE DEF u
  <2>4. /\ (k + 1) - (n + 1) + 1 = k + 1 - n /\ n + 1 <= k + 1
        /\ \A i \in 1..(k + 1 - n) : (n + 1) + i - 1 = n + i
    BY <1>1, <2>3
  <2>. QED
    BY <2>2, <2>4
<1>4. u = v
  <2>. HIDE DEF r, u, t
  <2>1. v \in Seq(A) /\ Len(v) = (k - n) + 1 /\ v[(k - n) + 1] = m /\ \A i \in 1..(k - n) : v[i] = r[i]
    BY <1>2
  <2>2. n <= k
    BY DEF k
  <2>. HIDE DEF v, k
  <2>3. ASSUME NEW i \in 1..Len(u)
        PROVE  u[i] = v[i]
    <3>1. CASE i = (k - n) + 1
      <4>1. n + i = k + 1
        BY <1>1, <2>2, <3>1
      <4>. QED
        BY <1>1, <1>3, <2>1, <3>1, <4>1
    <3>2. CASE i # (k - n) + 1
      <4>1. i \in 1..(k - n) /\ n + i \in 1..k
        BY <1>1, <1>3, <2>2, <3>2
      <4>. QED
        BY <1>1, <1>2, <1>3, <2>1, <4>1
    <3>. QED
      BY <3>1, <3>2
  <2>4. Len(u) = Len(v)
    BY <1>1, <1>3, <2>1, <2>2
  <2>. QED
    BY <1>3, <2>1, <2>3, <2>4, SeqEqual
<1>. QED
  BY <1>4 DEF t, u, v, r, k

\* What comes before and after the first n, and the first of what comes after.
LEMMA RestOf ==
  ASSUME NEW A, NEW s \in Seq(A), NEW n \in Nat, n <= Len(s)
  PROVE  /\ SubSeq(s, n + 1, Len(s)) \in Seq(A)
         /\ SubSeq(s, 1, n) \o SubSeq(s, n + 1, Len(s)) = s
         /\ n < Len(s) => /\ s[n + 1] \in A
                          /\ SubSeq(s, n + 1, Len(s)) = << s[n + 1] >> \o SubSeq(s, n + 2, Len(s))
<1>. DEFINE k == Len(s)
            r == SubSeq(s, n + 1, k)
<1>2. r \in Seq(A)
  OBVIOUS
<1>5. SubSeq(s, 1, n) \o r = s
  <2>1. SubSeq(s, 1, n) \o SubSeq(s, n + 1, Len(s)) = SubSeq(s, 1, Len(s))
    <3>1. 1 \in 1..(Len(s) + 1) /\ n \in (1 - 1)..Len(s) /\ Len(s) \in n..Len(s)
      OBVIOUS
    <3>. QED
      BY <3>1, ConcatAdjacentSubSeq
  <2>2. SubSeq(s, 1, Len(s)) = s
    BY SubSeqFull
  <2>. QED
    BY <2>1, <2>2
<1>6. ASSUME n < k
      PROVE  s[n + 1] \in A /\ r = << s[n + 1] >> \o SubSeq(s, n + 2, k)
  <2>1. SubSeq(s, n + 1, n + 1) \o SubSeq(s, (n + 1) + 1, k) = SubSeq(s, n + 1, k)
    <3>1. n + 1 \in 1..(Len(s) + 1) /\ n + 1 \in ((n + 1) - 1)..Len(s) /\ Len(s) \in (n + 1)..Len(s)
      BY <1>6
    <3>. QED
      BY <3>1, ConcatAdjacentSubSeq
  <2>2. s[n + 1] \in A /\ (n + 1) + 1 = n + 2 /\ n + 1 \in 1..Len(s)
    BY <1>6
  <2>3. SubSeq(s, n + 1, n + 1) = << s[n + 1] >>
    <3>. DEFINE w == SubSeq(s, n + 1, n + 1)
    <3>1. /\ w \in Seq(A)
          /\ Len(w) = IF n + 1 <= n + 1 THEN (n + 1) - (n + 1) + 1 ELSE 0
          /\ \A i \in 1..((n + 1) - (n + 1) + 1) : w[i] = s[(n + 1) + i - 1]
      <4>1. n + 1 \in Int /\ \A i \in (n + 1)..(n + 1) : s[i] \in A
        BY <2>2
      <4>. QED
        BY ONLY <4>1, SubSeqProperties
    <3>. HIDE DEF w
    <3>2. (n + 1) - (n + 1) + 1 = 1 /\ 1 \in 1..1 /\ (n + 1) + 1 - 1 = n + 1
      OBVIOUS
    <3>3. Len(w) = 1 /\ w[1] = s[n + 1]
      BY <3>1, <3>2
    <3>4. w = << w[1] >>
      BY <3>1, <3>3
    <3>. QED
      BY <3>3, <3>4 DEF w
  <2>. QED
    BY <2>1, <2>2, <2>3
<1>. QED
  BY <1>2, <1>5, <1>6

-----------------------------------------------------------------------------
\* What a function says of each element, put together.
Gather(s, f) == Seqs!FlattenSeq([i \in 1..Len(s) |-> f[s[i]]])

LEMMA GatherPieces ==
  ASSUME NEW M, NEW A, NEW f \in [M -> Seq(A)], NEW s \in Seq(M)
  PROVE  /\ [i \in 1..Len(s) |-> f[s[i]]] \in Seq(Seq(A))
         /\ Len([i \in 1..Len(s) |-> f[s[i]]]) = Len(s)
<1>1. \A i \in 1..Len(s) : s[i] \in M
  OBVIOUS
<1>. DEFINE B == Seq(A)
            n == Len(s)
<1>2. n \in Nat /\ \A i \in 1..n : f[s[i]] \in B
  BY <1>1
<1>. HIDE DEF B, n
<1>3. [i \in 1..n |-> f[s[i]]] \in Seq(B) /\ Len([i \in 1..n |-> f[s[i]]]) = n
  BY <1>2
<1>. QED
  BY <1>3 DEF B, n

LEMMA GatherType ==
  ASSUME NEW M, NEW A, NEW f \in [M -> Seq(A)], NEW s \in Seq(M)
  PROVE  Gather(s, f) \in Seq(A)
<1>. DEFINE g == [i \in 1..Len(s) |-> f[s[i]]]
<1>1. g \in Seq(Seq(A))
  BY GatherPieces
<1>. HIDE DEF g
<1>2. Seqs!FlattenSeq(g) \in Seq(A)
  BY <1>1, FlatType
<1>. QED
  BY <1>2 DEF Gather, g

LEMMA GatherNone ==
  ASSUME NEW f
  PROVE  Gather(<< >>, f) = << >>
<1>1. [i \in 1..Len(<< >>) |-> f[<< >>[i]]] = << >>
  OBVIOUS
<1>. QED
  BY <1>1, FlatEmpty DEF Gather

LEMMA GatherAppend ==
  ASSUME NEW M, NEW A, NEW f \in [M -> Seq(A)], NEW s \in Seq(M), NEW m \in M
  PROVE  Gather(Append(s, m), f) = Gather(s, f) \o f[m]
<1>. DEFINE t == Append(s, m)
            g == [i \in 1..Len(s) |-> f[s[i]]]
            h == [i \in 1..Len(t) |-> f[t[i]]]
            B == Seq(A)
<1>1. /\ t \in Seq(M) /\ Len(t) = Len(s) + 1 /\ Len(s) \in Nat /\ t[Len(s) + 1] = m
      /\ \A i \in 1..Len(s) : t[i] = s[i]
  OBVIOUS
<1>2. g \in Seq(B) /\ Len(g) = Len(s) /\ \A i \in 1..Len(s) : g[i] = f[s[i]]
  BY GatherPieces
<1>. HIDE DEF t
<1>3. h \in Seq(B) /\ Len(h) = Len(s) + 1 /\ \A i \in 1..(Len(s) + 1) : h[i] = f[t[i]]
  BY <1>1, GatherPieces
<1>4. f[m] \in B
  OBVIOUS
<1>. HIDE DEF g, h, B
<1>5. h = Append(g, f[m])
  <2>. DEFINE u == Append(g, f[m])
  <2>1. /\ u \in Seq(B) /\ Len(u) = Len(s) + 1 /\ u[Len(s) + 1] = f[m]
        /\ \A i \in 1..Len(s) : u[i] = g[i]
    BY <1>1, <1>2, <1>4
  <2>. HIDE DEF u
  <2>2. ASSUME NEW i \in 1..Len(h)
        PROVE  h[i] = u[i]
    <3>1. i = Len(s) + 1 \/ i \in 1..Len(s)
      BY <1>1, <1>3
    <3>. QED
      BY <1>1, <1>2, <1>3, <2>1, <3>1
  <2>3. h = u
    BY <1>3, <2>1, <2>2, SeqEqual
  <2>. QED
    BY <2>3 DEF u
<1>6. Seqs!FlattenSeq(Append(g, f[m])) = Seqs!FlattenSeq(g) \o f[m]
  BY <1>2, <1>4, FlatAppend DEF B
<1>7. Gather(s, f) = Seqs!FlattenSeq(g) /\ Gather(t, f) = Seqs!FlattenSeq(h)
  BY DEF Gather, g, h
<1>. QED
  BY <1>5, <1>6, <1>7 DEF t

LEMMA GatherOne ==
  ASSUME NEW M, NEW A, NEW f \in [M -> Seq(A)], NEW m \in M
  PROVE  << m >> \in Seq(M) /\ Gather(<< m >>, f) = f[m]
<1>1. << >> \in Seq(M) /\ << m >> = Append(<< >>, m) /\ << m >> \in Seq(M)
  OBVIOUS
<1>2. Gather(<< m >>, f) = << >> \o f[m]
  BY <1>1, GatherAppend, GatherNone
<1>3. f[m] \in Seq(A)
  OBVIOUS
<1>. QED
  BY <1>1, <1>2, <1>3, Joining

LEMMA GatherJoin ==
  ASSUME NEW M, NEW A, NEW f \in [M -> Seq(A)], NEW s \in Seq(M), NEW t \in Seq(M)
  PROVE  s \o t \in Seq(M) /\ Gather(s \o t, f) = Gather(s, f) \o Gather(t, f)
<1>. DEFINE g == [i \in 1..Len(s) |-> f[s[i]]]
            h == [i \in 1..Len(t) |-> f[t[i]]]
            b == [i \in 1..Len(s \o t) |-> f[(s \o t)[i]]]
            B == Seq(A)
<1>1. s \o t \in Seq(M)
  OBVIOUS
<1>2. g \in Seq(B) /\ Len(g) = Len(s) /\ \A i \in 1..Len(s) : g[i] = f[s[i]]
  BY GatherPieces
<1>3. h \in Seq(B) /\ Len(h) = Len(t) /\ \A i \in 1..Len(t) : h[i] = f[t[i]]
  BY GatherPieces
<1>4. b \in Seq(B) /\ Len(b) = Len(s \o t) /\ \A i \in 1..Len(s \o t) : b[i] = f[(s \o t)[i]]
  BY <1>1, GatherPieces
<1>5. /\ Len(s) \in Nat /\ Len(t) \in Nat /\ Len(s \o t) = Len(s) + Len(t)
      /\ \A i \in 1..(Len(s) + Len(t)) : (s \o t)[i] = IF i <= Len(s) THEN s[i] ELSE t[i - Len(s)]
  BY ConcatProperties
<1>. HIDE DEF g, h, b, B
<1>6. b = g \o h
  <2>. DEFINE u == g \o h
  <2>1. /\ u \in Seq(B) /\ Len(u) = Len(s) + Len(t)
        /\ \A i \in 1..(Len(s) + Len(t)) : u[i] = IF i <= Len(s) THEN g[i] ELSE h[i - Len(s)]
    <3>1. ASSUME NEW G, NEW x \in Seq(G), NEW y \in Seq(G)
          PROVE  /\ x \o y \in Seq(G) /\ Len(x \o y) = Len(x) + Len(y)
                 /\ \A i \in 1..(Len(x) + Len(y)) :
                      (x \o y)[i] = IF i <= Len(x) THEN x[i] ELSE y[i - Len(x)]
      BY ConcatProperties
    <3>2. /\ g \o h \in Seq(B) /\ Len(g \o h) = Len(g) + Len(h)
          /\ \A i \in 1..(Len(g) + Len(h)) :
               (g \o h)[i] = IF i <= Len(g) THEN g[i] ELSE h[i - Len(g)]
      BY ONLY <1>2, <1>3, <3>1, Zenon
    <3>3. Len(g) = Len(s) /\ Len(h) = Len(t)
      BY <1>2, <1>3
    <3>. QED
      BY ONLY <3>2, <3>3, Zenon
  <2>. HIDE DEF u
  <2>2. ASSUME NEW i \in 1..Len(b)
        PROVE  b[i] = u[i]
    <3>1. CASE i <= Len(s)
      <4>1. i \in 1..Len(s) /\ i \in 1..(Len(s) + Len(t))
        BY <1>4, <1>5, <3>1
      <4>2. b[i] = f[(s \o t)[i]] /\ (s \o t)[i] = s[i] /\ u[i] = g[i]
        BY <1>4, <1>5, <2>1, <3>1, <4>1
      <4>. QED
        BY <1>2, <4>1, <4>2
    <3>2. CASE ~(i <= Len(s))
      <4>1. i - Len(s) \in 1..Len(t) /\ i \in 1..(Len(s) + Len(t))
        BY <1>4, <1>5, <3>2
      <4>2. b[i] = f[(s \o t)[i]] /\ (s \o t)[i] = t[i - Len(s)] /\ u[i] = h[i - Len(s)]
        BY <1>4, <1>5, <2>1, <3>2, <4>1
      <4>. QED
        BY <1>3, <4>1, <4>2
    <3>. QED
      BY <3>1, <3>2
  <2>3. b = u
    BY <1>4, <1>5, <2>1, <2>2, SeqEqual
  <2>. QED
    BY <2>3 DEF u
<1>7. Seqs!FlattenSeq(g \o h) = Seqs!FlattenSeq(g) \o Seqs!FlattenSeq(h)
  BY <1>2, <1>3, FlatJoin DEF B
<1>8. Gather(s, f) = Seqs!FlattenSeq(g) /\ Gather(t, f) = Seqs!FlattenSeq(h) /\ Gather(s \o t, f) = Seqs!FlattenSeq(b)
  BY DEF Gather, g, h, b
<1>. QED
  BY <1>1, <1>6, <1>7, <1>8
=============================================================================
