--------------------------- MODULE FileStoreProofs ---------------------------
(***************************************************************************)
(* What a node stores, for every number of nodes, of File variables and of *)
(* files, every length and every buffer size of the C library: that it is  *)
(* on the disk once it is closed, that it is what is read, that a walk     *)
(* misses nothing, and that a node's storage is its own.                   *)
(***************************************************************************)
EXTENDS FileStore, SequenceTheorems, TLAPS

FileType ==
  [mode : {"none", "rb", "wb", "dir"}, path : Places \cup {<< >>},
   ino : Inodes \cup {NoInode}, at : Nat, buf : Seq(Nat), walking : BOOLEAN,
   left : SUBSET Places]

PastType ==
  [meant : [Inodes -> Seq(Nat)], stale : SUBSET Slots, tell : [Slots -> Nat],
   there : [Slots -> SUBSET Places], seen : [Slots -> SUBSET Places]]

TypeOK ==
  /\ tree \in [Places -> {"none", "file", "folder"}]
  /\ data \in [Inodes -> Seq(Nat)]
  /\ file \in [Slots -> FileType]
  /\ owner \in [Slots -> Nodes]
  /\ run \in [Nodes -> {"up", "exit", "down"}]
  /\ past \in PastType

WritesTo(s, i) == file[s].mode = "wb" /\ file[s].ino = i

\* What has reached a file and what its writer still holds are what was meant, the writer
\* stands where it should, and it has its file to itself; the file has a name or had one.
WriterRight(s) ==
  file[s].mode = "wb" =>
    /\ file[s].ino \in Inodes
    /\ file[s].ino \in Places => tree[file[s].ino] = "file"
    /\ \A t \in Slots : WritesTo(t, file[s].ino) => t = s
    /\ Overlay(data[file[s].ino], file[s].at, file[s].buf) = past.meant[file[s].ino]
    /\ file[s].at + Len(file[s].buf) = past.tell[s]

\* What a reader has read ahead is what its file has there, unless it has a writer.
AheadRight(s) ==
  /\ \A t \in Slots : ~WritesTo(t, file[s].ino)
  /\ \A i \in 1..Len(file[s].buf) :
       /\ past.tell[s] + i <= Len(data[file[s].ino])
       /\ file[s].buf[i] = data[file[s].ino][past.tell[s] + i]

ReaderRight(s) ==
  file[s].mode = "rb" =>
    /\ file[s].ino \in Inodes
    /\ file[s].at - Len(file[s].buf) = past.tell[s]
    /\ s \notin past.stale => AheadRight(s)

\* A variable without a stream stands nowhere.
AtRest(s) == file[s].mode \notin {"rb", "wb"} => past.tell[s] = 0

StreamsRight == \A s \in Slots : WriterRight(s) /\ ReaderRight(s) /\ AtRest(s)

\* What nobody writes is as it was meant.
Settled ==
  \A i \in Inodes : (\A s \in Slots : ~WritesTo(s, i)) => data[i] = past.meant[i]

\* A walk has still to answer with just those of the entries it began with that it has not
\* answered with, and they are there, or it is free of its promise.
WalkRight(s) ==
  /\ ~file[s].walking => past.there[s] = {}
  /\ past.there[s] # {} => file[s].left = past.there[s] \ past.seen[s]
  /\ \A q \in past.there[s] :
       Len(q) = 3 /\ (q \notin past.seen[s] => tree[q] # "none")
WalksRight == \A s \in Slots : WalkRight(s)

\* Folders are made in a working directory and nowhere deeper.
FoldersFlat == \A p \in Places : tree[p] = "folder" => Len(p) = 2

IInv == TypeOK /\ StreamsRight /\ Settled /\ WalksRight /\ FoldersFlat

-----------------------------------------------------------------------------
\* Bytes written over a file.

Longer(m, n) == IF m > n THEN m ELSE n

\* What a file is when bytes have been written at an offset.
LEMMA OverlayBytes ==
  ASSUME NEW d \in Seq(Nat), NEW at \in Nat, NEW u \in Seq(Nat), u # << >>
  PROVE  /\ Overlay(d, at, u) \in Seq(Nat)
         /\ Len(Overlay(d, at, u)) = Longer(Len(d), at + Len(u))
         /\ \A i \in 1..Longer(Len(d), at + Len(u)) :
              Overlay(d, at, u)[i] = IF i > at /\ i <= at + Len(u) THEN u[i - at]
                                     ELSE IF i <= Len(d) THEN d[i] ELSE 0
PROOF
<1>. DEFINE n == Longer(Len(d), at + Len(u))
            F(i) == IF i > at /\ i <= at + Len(u) THEN u[i - at]
                    ELSE IF i <= Len(d) THEN d[i] ELSE 0
            o == [i \in 1..n |-> F(i)]
<1>1. Overlay(d, at, u) = o
  BY DEF Overlay, Longer
<1>2. n \in Nat
  BY DEF Longer
<1>3. ASSUME NEW i \in 1..n  PROVE F(i) \in Nat
  <2>1. i > at /\ i <= at + Len(u) => i - at \in 1..Len(u)
    BY <1>2
  <2>2. i <= Len(d) => i \in 1..Len(d)
    BY <1>2
  <2>. QED  BY <2>1, <2>2
<1>. HIDE DEF n
<1>4. o \in Seq(Nat) /\ Len(o) = n /\ \A i \in 1..n : o[i] = F(i)
  BY <1>2, <1>3
<1>. HIDE DEF o
<1>. QED  BY <1>1, <1>4 DEF n

\* Nothing written changes nothing.
LEMMA OverlayNothing ==
  ASSUME NEW d, NEW at
  PROVE  Overlay(d, at, << >>) = d
BY DEF Overlay

\* It stays a sequence of bytes.
LEMMA OverlayType ==
  ASSUME NEW d \in Seq(Nat), NEW at \in Nat, NEW u \in Seq(Nat)
  PROVE  Overlay(d, at, u) \in Seq(Nat)
<1>1. CASE u = << >>
  BY <1>1, OverlayNothing
<1>2. CASE u # << >>
  BY <1>2, OverlayBytes
<1>. QED  BY <1>1, <1>2

\* Bytes written in two parts, one after the other, are those written at once.
LEMMA OverlayJoined ==
  ASSUME NEW d \in Seq(Nat), NEW at \in Nat, NEW u \in Seq(Nat), NEW v \in Seq(Nat)
  PROVE  Overlay(Overlay(d, at, u), at + Len(u), v) = Overlay(d, at, u \o v)
PROOF
<1>1. CASE u = << >>
  <2>1. Len(u) = 0 /\ u \o v = v
    BY <1>1
  <2>2. Overlay(d, at, u) = d /\ at + Len(u) = at
    BY <1>1, <2>1, OverlayNothing
  <2>. QED  BY <2>1, <2>2
<1>2. CASE v = << >>
  <2>1. u \o v = u
    BY <1>2
  <2>. QED  BY <1>2, <2>1, OverlayNothing
<1>3. CASE u # << >> /\ v # << >>
  <2>. DEFINE a == Len(u)
              b == Len(v)
              n == Len(d)
              w == u \o v
              e == Overlay(d, at, u)
              l == Overlay(e, at + a, v)
              r == Overlay(d, at, w)
  <2>1. /\ a \in Nat /\ b \in Nat /\ n \in Nat /\ a # 0 /\ b # 0
        /\ w \in Seq(Nat) /\ Len(w) = a + b /\ w # << >>
        /\ \A i \in 1..(a + b) : w[i] = IF i <= a THEN u[i] ELSE v[i - a]
    BY <1>3
  <2>2. /\ e \in Seq(Nat) /\ Len(e) = Longer(n, at + a)
        /\ \A i \in 1..Longer(n, at + a) :
             e[i] = IF i > at /\ i <= at + a THEN u[i - at]
                    ELSE IF i <= n THEN d[i] ELSE 0
    BY <1>3, OverlayBytes
  <2>3. /\ r \in Seq(Nat) /\ Len(r) = Longer(n, at + (a + b))
        /\ \A i \in 1..Longer(n, at + (a + b)) :
             r[i] = IF i > at /\ i <= at + (a + b) THEN w[i - at]
                    ELSE IF i <= n THEN d[i] ELSE 0
    <3>. DEFINE c == Len(w)
    <3>1. /\ r \in Seq(Nat) /\ Len(r) = Longer(n, at + c)
          /\ \A i \in 1..Longer(n, at + c) :
               r[i] = IF i > at /\ i <= at + c THEN w[i - at]
                      ELSE IF i <= n THEN d[i] ELSE 0
      <4>. HIDE DEF w
      <4>. QED  BY <2>1, OverlayBytes
    <3>2. c = a + b
      BY <2>1
    <3>. HIDE DEF c, w, a, b, r
    <3>. QED  BY <3>1, <3>2
  <2>4. at + a \in Nat
    BY <2>1
  <2>. HIDE DEF e
  <2>5. /\ l \in Seq(Nat) /\ Len(l) = Longer(Len(e), (at + a) + b)
        /\ \A i \in 1..Longer(Len(e), (at + a) + b) :
             l[i] = IF i > at + a /\ i <= (at + a) + b THEN v[i - (at + a)]
                    ELSE IF i <= Len(e) THEN e[i] ELSE 0
    <3>. HIDE DEF a
    <3>. QED  BY <1>3, <2>2, <2>4, OverlayBytes
  <2>. DEFINE N == Longer(n, at + (a + b))
  <2>6. N \in Nat /\ Longer(Len(e), (at + a) + b) = N
    <3>. HIDE DEF a, b, n
    <3>. QED  BY <2>1, <2>2 DEF Longer
  <2>7. /\ Len(l) = N /\ Len(r) = N
    BY <2>3, <2>5, <2>6
  <2>8. ASSUME NEW i \in 1..N  PROVE l[i] = r[i]
    <3>. HIDE DEF a, b, n, l, r, w
    <3>1. /\ i \in Nat /\ i >= 1
          /\ l[i] = IF i > at + a /\ i <= (at + a) + b THEN v[i - (at + a)]
                    ELSE IF i <= Len(e) THEN e[i] ELSE 0
      BY <2>5, <2>6
    <3>2. CASE i > at + a /\ i <= at + (a + b)
      <4>1. l[i] = v[i - (at + a)]
        BY <2>1, <3>1, <3>2
      <4>2. i - at \in 1..(a + b) /\ ~(i - at <= a) /\ (i - at) - a = i - (at + a)
        BY <2>1, <3>1, <3>2
      <4>3. r[i] = w[i - at]
        BY <2>1, <2>3, <3>1, <3>2
      <4>4. w[i - at] = v[i - (at + a)]
        BY <2>1, <4>2
      <4>. QED  BY <4>1, <4>3, <4>4
    <3>3. CASE i > at /\ i <= at + a
      <4>1. i <= Longer(n, at + a) /\ i \in 1..Longer(n, at + a)
        BY <2>1, <3>1, <3>3 DEF Longer
      <4>2. l[i] = e[i]
        BY <2>1, <2>2, <2>5, <2>6, <3>1, <3>3, <4>1
      <4>3. e[i] = u[i - at]
        BY <2>2, <3>3, <4>1
      <4>4. i - at \in 1..(a + b) /\ i - at <= a
        BY <2>1, <3>1, <3>3
      <4>5. r[i] = w[i - at]
        BY <2>1, <2>3, <3>1, <3>3
      <4>. QED  BY <2>1, <4>2, <4>3, <4>4, <4>5
    <3>4. CASE ~(i > at /\ i <= at + (a + b))
      <4>1. ~(i > at + a /\ i <= (at + a) + b) /\ ~(i > at /\ i <= at + a)
        BY <2>1, <3>1, <3>4
      <4>2. r[i] = IF i <= n THEN d[i] ELSE 0
        BY <2>3, <3>4
      <4>3. l[i] = IF i <= Len(e) THEN e[i] ELSE 0
        BY <2>5, <2>6, <4>1
      <4>4. i <= Longer(n, at + a) => i \in 1..Longer(n, at + a)
        BY <2>1, <3>1 DEF Longer
      <4>5. i <= Longer(n, at + a) => e[i] = IF i <= n THEN d[i] ELSE 0
        BY <2>2, <4>1, <4>4
      <4>6. ~(i <= Longer(n, at + a)) => ~(i <= n)
        BY <2>1, <3>1 DEF Longer
      <4>. QED  BY <2>2, <4>2, <4>3, <4>5, <4>6
    <3>. QED  BY <2>1, <3>1, <3>2, <3>3, <3>4
  <2>. HIDE DEF l, r
  <2>9. l = r
    <3>. HIDE DEF N
    <3>. QED  BY <2>3, <2>5, <2>7, <2>8, SeqEqual DEF l, r
  <2>. QED  BY <2>9 DEF l, r, e, w
<1>. QED  BY <1>1, <1>2, <1>3
-----------------------------------------------------------------------------
\* Places and inodes.

\* A path under a directory is one name longer.
LEMMA UnderLength ==
  ASSUME NEW d, NEW path \in Seq(STRING)
  PROVE  Len(Under(d, path)) = 1 + Len(path)
BY DEF Under

\* A place has two names or three; a removed file's inode is none.
LEMMA PlaceLength ==
  ASSUME NEW p \in Places
  PROVE  Len(p) \in {2, 3}
<1>1. PICK d \in Dirs, q \in Files \cup Folders : p = Under(d, q)
  BY SMT DEF Places
<1>2. q \in Seq(STRING)
  BY StoreAssumption
<1>3. Len(q) = 1 \/ Len(q) = 2
  BY StoreAssumption
<1>4. Len(p) = 1 + Len(q)
  BY <1>1, <1>2, UnderLength, Zenon
<1>. DEFINE n == Len(q)
            m == Len(p)
<1>5. (n = 1 \/ n = 2) /\ m = 1 + n
  BY <1>3, <1>4
<1>. HIDE DEF n, m
<1>6. m \in {2, 3}
  BY ONLY <1>5
<1>. QED  BY <1>6 DEF m

LEMMA SlotInode ==
  ASSUME NEW s \in Slots
  PROVE  <<s>> \in Inodes /\ <<s>> \notin Places
<1>1. Len(<<s>>) = 1
  OBVIOUS
<1>. QED  BY <1>1, PlaceLength DEF Inodes

\* The shim's paths lead to places, and folders are not inside another.
LEMMA FullPlace ==
  ASSUME NEW n \in Nodes, NEW path \in Files \cup Folders
  PROVE  /\ Full(n, path) \in Places /\ Full(n, path) \in Inodes
         /\ path \in Folders => Len(Full(n, path)) = 2
<1>1. Cwd[n] \in Dirs /\ path \in Seq(STRING)
  BY StoreAssumption DEF Dirs
<1>2. Full(n, path) \in Places /\ Full(n, path) \in Inodes
  BY <1>1 DEF Full, Places, Inodes
<1>3. path \in Folders => Len(path) = 1
  BY StoreAssumption
<1>4. Len(Full(n, path)) = 1 + Len(path)
  BY <1>1, UnderLength, Zenon DEF Full
<1>. DEFINE k == Len(path)
            m == Len(Full(n, path))
<1>5. (path \in Folders => k = 1) /\ m = 1 + k
  BY <1>3, <1>4
<1>. HIDE DEF k, m
<1>6. path \in Folders => m = 2
  BY ONLY <1>5
<1>. QED  BY <1>2, <1>6 DEF m

\* No stream is at no inode.
LEMMA NoInodeOut == NoInode \notin Inodes
<1>1. Len(NoInode) = 0
  BY DEF NoInode
<1>2. \A s \in Slots : Len(<<s>>) = 1
  OBVIOUS
<1>. QED  BY <1>1, <1>2, PlaceLength DEF Inodes

\* The Files that firmware holds.
LEMMA FileShapes ==
  /\ NoFile \in FileType /\ NoFile.mode = "none" /\ NoFile.ino = NoInode
  /\ ~NoFile.walking /\ NoFile.left = {} /\ NoFile.path = << >>
  /\ \A i \in Inodes : \A m \in {"rb", "wb"} :
       /\ Opened(m, i) \in FileType /\ Opened(m, i).mode = m /\ Opened(m, i).ino = i
       /\ Opened(m, i).at = 0 /\ Opened(m, i).buf = << >> /\ ~Opened(m, i).walking
  /\ \A p \in Places : /\ OpenedFolder(p) \in FileType /\ OpenedFolder(p).mode = "dir"
                       /\ ~OpenedFolder(p).walking
<1>1. << >> \in Seq(Nat)
  OBVIOUS
<1>2. NoFile \in FileType
  BY <1>1 DEF NoFile, FileType
<1>. QED  BY <1>2 DEF NoFile, FileType, Opened, OpenedFolder

-----------------------------------------------------------------------------
\* What a call must leave as it was.

SameStream(t) ==
  /\ file'[t].mode = file[t].mode /\ file'[t].ino = file[t].ino
  /\ file'[t].at = file[t].at /\ file'[t].buf = file[t].buf

\* A call that moves one stream, and changes no file with a stream but the one it writes.
LEMMA OneStream ==
  ASSUME IInv, NEW s \in Slots, NEW i,
         \A t \in Slots : t # s =>
           /\ SameStream(t) /\ past'.tell[t] = past.tell[t]
           /\ t \in past.stale => t \in past'.stale
           /\ ~WritesTo(t, i)
           /\ file[t].mode = "rb" /\ file[t].ino = i => t \in past'.stale,
         file[s].mode = "wb" => file[s].ino = i,
         file'[s].mode = "wb" => file'[s].ino = i,
         \A j \in Inodes : j # i =>
           \/ data'[j] = data[j] /\ past'.meant[j] = past.meant[j]
           \/ data'[j] = past'.meant[j] /\ \A t \in Slots : file'[t].ino # j,
         \A p \in Places : tree[p] = "file" => tree'[p] = "file",
         WriterRight(s)', ReaderRight(s)', AtRest(s)',
         i \in Inodes /\ file'[s].mode # "wb" => data'[i] = past'.meant[i]
  PROVE  StreamsRight' /\ Settled'
<1>1. ASSUME NEW t \in Slots, t # s, file'[t].mode = "wb"
      PROVE  WriterRight(t)'
  <2>1. /\ file[t].mode = "wb" /\ file[t].ino \in Inodes /\ file[t].ino # i
        /\ file[t].ino \in Places => tree[file[t].ino] = "file"
        /\ \A u \in Slots : WritesTo(u, file[t].ino) => u = t
        /\ Overlay(data[file[t].ino], file[t].at, file[t].buf) = past.meant[file[t].ino]
        /\ file[t].at + Len(file[t].buf) = past.tell[t]
    BY <1>1 DEF IInv, StreamsRight, WriterRight, SameStream, WritesTo
  <2>2. \A u \in Slots : WritesTo(u, file[t].ino)' => u = t
    BY <1>1, <2>1 DEF WritesTo, SameStream
  <2>3. /\ data'[file[t].ino] = data[file[t].ino]
        /\ past'.meant[file[t].ino] = past.meant[file[t].ino]
    BY <1>1, <2>1 DEF SameStream
  <2>. QED  BY <1>1, <2>1, <2>2, <2>3 DEF WriterRight, SameStream, WritesTo
<1>2. ASSUME NEW t \in Slots, t # s, file'[t].mode = "rb"
      PROVE  ReaderRight(t)'
  <2>1. /\ file[t].mode = "rb" /\ file[t].ino \in Inodes
        /\ file[t].at - Len(file[t].buf) = past.tell[t]
        /\ t \notin past.stale => AheadRight(t)
    BY <1>2 DEF IInv, StreamsRight, ReaderRight, SameStream
  <2>2. ASSUME t \notin past'.stale
        PROVE  AheadRight(t)'
    <3>1. file[t].ino # i /\ AheadRight(t)
      BY <1>2, <2>1, <2>2
    <3>2. data'[file[t].ino] = data[file[t].ino]
      BY <1>2, <2>1, <3>1 DEF SameStream
    <3>3. \A u \in Slots : ~WritesTo(u, file[t].ino)'
      <4>1. file'[t].ino = file[t].ino
        BY <1>2 DEF SameStream
      <4>2. \A u \in Slots : ~(file[u].mode = "wb" /\ file[u].ino = file[t].ino)
        BY <3>1 DEF AheadRight, WritesTo
      <4>3. \A u \in Slots : ~(file'[u].mode = "wb" /\ file'[u].ino = file[t].ino)
        BY <3>1, <4>2 DEF SameStream
      <4>. QED  BY <4>1, <4>3 DEF WritesTo
    <3>4. /\ file'[t].ino = file[t].ino /\ file'[t].buf = file[t].buf
          /\ past'.tell[t] = past.tell[t]
      BY <1>2 DEF SameStream
    <3>5. \A k \in 1..Len(file[t].buf) :
            /\ past.tell[t] + k <= Len(data[file[t].ino])
            /\ file[t].buf[k] = data[file[t].ino][past.tell[t] + k]
      BY <3>1 DEF AheadRight
    <3>. QED  BY <3>2, <3>3, <3>4, <3>5 DEF AheadRight
  <2>. QED  BY <1>2, <2>1, <2>2 DEF ReaderRight, SameStream
<1>3. ASSUME NEW t \in Slots, t # s
      PROVE  AtRest(t)'
  BY <1>3 DEF IInv, StreamsRight, AtRest, SameStream
<1>5. StreamsRight'
  BY <1>1, <1>2, <1>3 DEF StreamsRight, WriterRight, ReaderRight
<1>4. ASSUME NEW j \in Inodes, \A t \in Slots : ~WritesTo(t, j)'
      PROVE  data'[j] = past'.meant[j]
  <2>1. CASE j = i
    <3>1. CASE file'[s].mode = "wb"
      BY <1>4, <2>1, <3>1 DEF WritesTo
    <3>. QED  BY <1>4, <2>1, <3>1
  <2>2. CASE j # i
    <3>1. \A t \in Slots : ~WritesTo(t, j)
      BY <1>4, <2>2 DEF WritesTo, SameStream
    <3>2. data[j] = past.meant[j]
      BY <3>1 DEF IInv, Settled
    <3>. QED  BY <2>2, <3>2
  <2>. QED  BY <2>1, <2>2
<1>. QED  BY <1>4, <1>5 DEF Settled

\* A call that leaves the files as they are, and the streams but for one that writes not.
LEMMA QuietStream ==
  ASSUME IInv, NEW s \in Slots,
         \A t \in Slots : t # s =>
           /\ SameStream(t) /\ past'.tell[t] = past.tell[t]
           /\ t \in past.stale => t \in past'.stale,
         file[s].mode # "wb", file'[s].mode # "wb",
         data' = data, past'.meant = past.meant,
         \A p \in Places : tree[p] = "file" => tree'[p] = "file",
         ReaderRight(s)', AtRest(s)'
  PROVE  StreamsRight' /\ Settled'
<1>1. \A t \in Slots : file[t].mode \in {"rb", "wb"} => file[t].ino # NoInode
  BY NoInodeOut DEF IInv, StreamsRight, WriterRight, ReaderRight
<1>2. \A t \in Slots : t # s =>
           /\ SameStream(t) /\ past'.tell[t] = past.tell[t]
           /\ t \in past.stale => t \in past'.stale
           /\ ~WritesTo(t, NoInode)
           /\ file[t].mode = "rb" /\ file[t].ino = NoInode => t \in past'.stale
  BY <1>1 DEF WritesTo
<1>3. WriterRight(s)'
  BY DEF WriterRight
<1>. QED  BY <1>2, <1>3, NoInodeOut, OneStream

\* The walks that go on as they were, and those that end.
LEMMA WalksKept ==
  ASSUME IInv,
         \A t \in Slots :
           \/ past'.there[t] = {}
           \/ /\ file'[t].walking = file[t].walking /\ file'[t].left = file[t].left
              /\ past'.there[t] = past.there[t] /\ past'.seen[t] = past.seen[t],
         \A p \in Places : tree[p] # "none" => tree'[p] # "none",
         \A p \in Places : tree'[p] = "folder" => tree[p] = "folder" \/ Len(p) = 2
  PROVE  WalksRight' /\ FoldersFlat'
<1>1. FoldersFlat'
  BY DEF IInv, FoldersFlat
<1>2. ASSUME NEW t \in Slots
      PROVE  WalkRight(t)'
  <2>1. WalkRight(t) /\ past.there[t] \subseteq Places
    BY DEF IInv, WalksRight, TypeOK, PastType
  <2>. QED  BY <2>1 DEF WalkRight
<1>. QED  BY <1>1, <1>2 DEF WalksRight
-----------------------------------------------------------------------------
\* The calls, one by one.

LEMMA InitKeeps == Init => IInv
<1>. SUFFICES ASSUME Init PROVE IInv
  OBVIOUS
<1>1. << >> \in Seq(Nat) /\ [i \in Inodes |-> << >>] \in [Inodes -> Seq(Nat)]
  OBVIOUS
<1>2. /\ tree \in [Places -> {"none", "file", "folder"}] /\ data \in [Inodes -> Seq(Nat)]
      /\ file \in [Slots -> FileType] /\ owner \in [Slots -> Nodes]
      /\ run \in [Nodes -> {"up", "exit", "down"}]
  BY <1>1, FileShapes, StoreAssumption DEF Init
<1>3. past \in PastType
  BY <1>1 DEF Init, PastType
<1>4. \A s \in Slots : file[s].mode = "none" /\ ~file[s].walking
  BY FileShapes DEF Init
<1>5. StreamsRight
  BY <1>4 DEF Init, StreamsRight, WriterRight, ReaderRight, AtRest
<1>6. Settled
  BY DEF Init, Settled
<1>7. WalksRight
  BY <1>4 DEF Init, WalksRight, WalkRight
<1>8. FoldersFlat
  BY DEF Init, FoldersFlat
<1>. QED  BY <1>2, <1>3, <1>5, <1>6, <1>7, <1>8 DEF IInv, TypeOK

\* A variable that holds nothing.
LEMMA Free ==
  ASSUME IInv, NEW s \in Slots, file[s] = NoFile
  PROVE  /\ file[s].mode = "none" /\ past.tell[s] = 0 /\ past.there[s] = {}
         /\ file[s].ino = NoInode
BY FileShapes DEF IInv, StreamsRight, AtRest, WalksRight, WalkRight

\* A reader just opened stands at the beginning of its file.
LEMMA Begins ==
  ASSUME IInv, NEW s \in Slots, NEW p \in Inodes, file'[s] = Opened("rb", p),
         past'.tell[s] = 0, Writers(p) # {} => s \in past'.stale, data' = data,
         \A t \in Slots : t # s => SameStream(t)
  PROVE  ReaderRight(s)'
<1>1. /\ file'[s].mode = "rb" /\ file'[s].ino = p /\ file'[s].at = 0
      /\ file'[s].buf = << >>
  BY FileShapes
<1>2. Len(file'[s].buf) = 0
  BY <1>1
<1>3. ASSUME s \notin past'.stale
      PROVE  \A t \in Slots : ~(file'[t].mode = "wb" /\ file'[t].ino = p)
  BY <1>1, <1>3 DEF Writers, Streams, SameStream
<1>. QED  BY <1>1, <1>2, <1>3 DEF ReaderRight, AheadRight, WritesTo

LEMMA OpenReadKeeps ==
  ASSUME IInv, NEW s \in Slots, NEW path \in Files \cup Folders, OpenRead(s, path)
  PROVE  IInv'
<1>. DEFINE p == Full(owner[s], path)
            g == IF tree[p] = "folder" THEN OpenedFolder(p) ELSE Opened("rb", p)
            stale == IF Writers(p) = {} THEN past.stale ELSE past.stale \cup {s}
<1>1. owner[s] \in Nodes /\ p \in Places /\ p \in Inodes
  BY FullPlace DEF IInv, TypeOK
<1>2. /\ file[s] = NoFile /\ file' = [file EXCEPT ![s] = g]
      /\ past' = [past EXCEPT !.stale = stale]
      /\ UNCHANGED <<tree, data, owner, run>>
  BY DEF OpenRead, Opening
<1>. HIDE DEF p
<1>3. g \in FileType /\ (g = Opened("rb", p) \/ g = OpenedFolder(p))
  BY <1>1, FileShapes
<1>4. /\ past' \in PastType /\ past'.meant = past.meant /\ past'.tell = past.tell
      /\ past'.there = past.there /\ past'.seen = past.seen /\ past'.stale = stale
  <2>1. stale \in SUBSET Slots
    BY DEF IInv, TypeOK, PastType
  <2>. HIDE DEF stale
  <2>. QED  BY <1>2, <2>1 DEF IInv, TypeOK, PastType
<1>. HIDE DEF g
<1>5. /\ file' \in [Slots -> FileType] /\ file'[s] = g
      /\ \A t \in Slots : t # s => file'[t] = file[t]
  BY <1>2, <1>3 DEF IInv, TypeOK
<1>6. TypeOK'
  BY <1>2, <1>4, <1>5 DEF IInv, TypeOK
<1>7. \A t \in Slots : t # s => SameStream(t)
  BY <1>5 DEF SameStream
<1>8. ReaderRight(s)' /\ AtRest(s)' /\ file'[s].mode # "wb"
  <2>1. past'.tell[s] = 0 /\ (Writers(p) # {} => s \in past'.stale)
    BY <1>2, <1>4, Free
  <2>2. CASE g = Opened("rb", p)
    <3>1. file'[s].mode = "rb"
      BY <1>1, <1>5, <2>2, FileShapes
    <3>. QED  BY <1>1, <1>2, <1>5, <1>7, <2>1, <2>2, <3>1, Begins DEF AtRest
  <2>3. CASE g = OpenedFolder(p)
    <3>1. file'[s].mode = "dir"
      BY <1>1, <1>5, <2>3, FileShapes
    <3>. QED  BY <2>1, <3>1 DEF ReaderRight, AtRest
  <2>. QED  BY <1>3, <2>2, <2>3
<1>9. file[s].mode # "wb"
  BY <1>2, Free
<1>10. \A t \in Slots : t \in past.stale => t \in past'.stale
  BY <1>4
<1>11. StreamsRight' /\ Settled'
  BY <1>2, <1>4, <1>7, <1>8, <1>9, <1>10, QuietStream
<1>12. WalksRight' /\ FoldersFlat'
  <2>1. past'.there[s] = {}
    BY <1>2, <1>4, Free
  <2>. QED  BY <1>2, <1>4, <1>5, <2>1, WalksKept
<1>. QED  BY <1>6, <1>11, <1>12 DEF IInv

\* What is above a place is in a working directory.
LEMMA AboveLength ==
  ASSUME NEW p \in Places, NEW q \in Above(p)
  PROVE  Len(p) = 3 /\ Len(q) = 2
PROOF
<1>1. Len(p) = 3 /\ q = SubSeq(p, 1, 2)
  BY DEF Above
<1>2. \A i \in 1..2 : p[i] \in {p[1], p[2]}
  OBVIOUS
<1>. QED  BY <1>1, <1>2, SubSeqProperties

\* Folders made take nothing away.
LEMMA MakeKeeps ==
  ASSUME IInv, NEW ps, \A p \in ps : Len(p) = 2, tree' = MakeFolders(tree, ps),
         UNCHANGED <<data, file, owner, run, past>>
  PROVE  IInv'
<1>1. /\ tree' \in [Places -> {"none", "file", "folder"}]
      /\ \A p \in Places : tree[p] # "none" => tree'[p] = tree[p]
      /\ \A p \in Places : tree'[p] = "folder" => tree[p] = "folder" \/ Len(p) = 2
  BY DEF IInv, TypeOK, MakeFolders
<1>2. TypeOK'
  BY <1>1 DEF IInv, TypeOK
<1>3. StreamsRight' /\ Settled'
  BY <1>1 DEF IInv, StreamsRight, WriterRight, ReaderRight, AheadRight, AtRest, Settled,
    WritesTo
<1>4. WalksRight' /\ FoldersFlat'
  BY <1>1, WalksKept
<1>. QED  BY <1>2, <1>3, <1>4 DEF IInv
LEMMA OpenWriteKeeps ==
  ASSUME IInv, NEW s \in Slots, NEW path \in Files, OpenWrite(s, path)
  PROVE  IInv'
<1>. DEFINE p == Full(owner[s], path)
            g == Opened("wb", p)
            stale == past.stale \cup Readers(p)
            meant == [past.meant EXCEPT ![p] = << >>]
<1>1. owner[s] \in Nodes /\ p \in Places /\ p \in Inodes
  BY FullPlace DEF IInv, TypeOK
<1>2. /\ file[s] = NoFile /\ file' = [file EXCEPT ![s] = g] /\ Writers(p) = {}
      /\ tree' = [MakeFolders(tree, Above(p)) EXCEPT ![p] = "file"]
      /\ data' = [data EXCEPT ![p] = << >>]
      /\ past' = [past EXCEPT !.meant[p] = << >>, !.stale = stale]
      /\ UNCHANGED <<owner, run>>
  BY DEF OpenWrite, Opening, Truncated
<1>. HIDE DEF p
<1>3. /\ g \in FileType /\ g.mode = "wb" /\ g.ino = p /\ g.at = 0 /\ g.buf = << >>
      /\ ~g.walking
  BY <1>1, FileShapes
<1>4. << >> \in Seq(Nat) /\ Len(<< >>) = 0
  OBVIOUS
<1>5. /\ past' \in PastType /\ past'.meant = meant /\ past'.tell = past.tell
      /\ past'.there = past.there /\ past'.seen = past.seen /\ past'.stale = stale
  <2>1. stale \in SUBSET Slots
    BY DEF IInv, TypeOK, PastType, Readers, Streams
  <2>2. meant \in [Inodes -> Seq(Nat)]
    BY <1>1, <1>4 DEF IInv, TypeOK, PastType
  <2>3. past' = [past EXCEPT !.meant = meant, !.stale = stale]
    BY <1>2
  <2>. HIDE DEF stale, meant
  <2>. QED  BY <2>1, <2>2, <2>3 DEF IInv, TypeOK, PastType
<1>6. /\ data' \in [Inodes -> Seq(Nat)] /\ data'[p] = << >> /\ past'.meant[p] = << >>
      /\ \A j \in Inodes : j # p => data'[j] = data[j] /\ past'.meant[j] = past.meant[j]
  BY <1>1, <1>2, <1>4, <1>5 DEF IInv, TypeOK, PastType
<1>7. /\ tree' \in [Places -> {"none", "file", "folder"}] /\ tree'[p] = "file"
      /\ \A q \in Places : tree[q] # "none" => tree'[q] # "none"
      /\ \A q \in Places : tree[q] = "file" => tree'[q] = "file"
      /\ \A q \in Places : tree'[q] = "folder" => tree[q] = "folder" \/ Len(q) = 2
  BY <1>1, <1>2, AboveLength DEF IInv, TypeOK, MakeFolders
<1>. HIDE DEF g, meant
<1>8. /\ file' \in [Slots -> FileType] /\ file'[s] = g
      /\ \A t \in Slots : t # s => file'[t] = file[t]
  BY <1>2, <1>3 DEF IInv, TypeOK
<1>9. TypeOK'
  BY <1>2, <1>5, <1>6, <1>7, <1>8 DEF IInv, TypeOK
<1>10. \A t \in Slots : ~(file[t].mode = "wb" /\ file[t].ino = p)
  BY <1>2 DEF Writers, Streams
<1>11. \A t \in Slots : t # s =>
         /\ SameStream(t) /\ past'.tell[t] = past.tell[t]
         /\ t \in past.stale => t \in past'.stale
         /\ ~WritesTo(t, p)
         /\ file[t].mode = "rb" /\ file[t].ino = p => t \in past'.stale
  BY <1>5, <1>8, <1>10 DEF SameStream, WritesTo, Readers, Streams
<1>12. WriterRight(s)' /\ ReaderRight(s)' /\ AtRest(s)'
  <2>1. Overlay(<< >>, 0, << >>) = << >>
    BY OverlayNothing
  <2>2. past.tell[s] = 0
    BY <1>2, Free
  <2>3. \A t \in Slots : file'[t].mode = "wb" /\ file'[t].ino = p => t = s
    BY <1>10, <1>8
  <2>4. Overlay(data'[p], g.at, g.buf) = past'.meant[p] /\ g.at + Len(g.buf) = past'.tell[s]
    BY <1>3, <1>4, <1>5, <1>6, <2>1, <2>2
  <2>. QED  BY <1>1, <1>3, <1>7, <1>8, <2>3, <2>4 DEF WriterRight, ReaderRight, AtRest, WritesTo
<1>13. file[s].mode # "wb" /\ past'.there[s] = {}
  BY <1>2, <1>5, Free
<1>14. file'[s].mode = "wb" /\ file'[s].ino = p
  BY <1>3, <1>8
<1>15. StreamsRight' /\ Settled'
  <2>1. \A j \in Inodes : j # p =>
          \/ data'[j] = data[j] /\ past'.meant[j] = past.meant[j]
          \/ data'[j] = past'.meant[j] /\ \A t \in Slots : file'[t].ino # j
    BY <1>6
  <2>2. file[s].mode = "wb" => file[s].ino = p
    BY <1>13
  <2>3. file'[s].mode = "wb" => file'[s].ino = p
    BY <1>14
  <2>4. p \in Inodes /\ file'[s].mode # "wb" => data'[p] = past'.meant[p]
    BY <1>14
  <2>5. \A q \in Places : tree[q] = "file" => tree'[q] = "file"
    BY <1>7
  <2>. QED  BY <1>11, <1>12, <2>1, <2>2, <2>3, <2>4, <2>5, OneStream, Zenon
<1>16. WalksRight' /\ FoldersFlat'
  BY <1>5, <1>7, <1>8, <1>13, WalksKept
<1>. QED  BY <1>9, <1>15, <1>16 DEF IInv

\* Once a writer moves: it has its inode to itself, and what changes there is unread.
LEMMA WriterMoves ==
  ASSUME IInv, NEW s \in Slots, file[s].mode = "wb", NEW g \in FileType,
         file' = [file EXCEPT ![s] = g], g.mode = "wb", g.ino = file[s].ino,
         g.walking = file[s].walking, g.left = file[s].left,
         NEW d \in Seq(Nat), data' = [data EXCEPT ![file[s].ino] = d],
         past' \in PastType,
         \A j \in Inodes : j # file[s].ino => past'.meant[j] = past.meant[j],
         \A t \in Slots :
           /\ t # s => past'.tell[t] = past.tell[t]
           /\ t \in past.stale \cup Readers(file[s].ino) => t \in past'.stale,
         past'.there = past.there, past'.seen = past.seen,
         Overlay(d, g.at, g.buf) = past'.meant[file[s].ino],
         g.at + Len(g.buf) = past'.tell[s],
         UNCHANGED <<tree, owner, run>>
  PROVE  IInv'
<1>. DEFINE i == file[s].ino
<1>1. /\ i \in Inodes
      /\ i \in Places => tree[i] = "file"
      /\ \A t \in Slots : WritesTo(t, i) => t = s
  BY DEF IInv, StreamsRight, WriterRight
<1>2. /\ file' \in [Slots -> FileType] /\ file'[s] = g
      /\ \A t \in Slots : t # s => file'[t] = file[t]
  BY DEF IInv, TypeOK
<1>3. /\ data' \in [Inodes -> Seq(Nat)] /\ data'[i] = d
      /\ \A j \in Inodes : j # i => data'[j] = data[j]
  <2>1. data' = [data EXCEPT ![i] = d] /\ data \in [Inodes -> Seq(Nat)] /\ i \in Inodes
    BY <1>1, Zenon DEF IInv, TypeOK
  <2>. HIDE DEF i
  <2>. DEFINE S == Seq(Nat)
  <2>2. d \in S /\ data \in [Inodes -> S]
    BY <2>1
  <2>. HIDE DEF S
  <2>3. /\ data' \in [Inodes -> S] /\ data'[i] = d
        /\ \A j \in Inodes : j # i => data'[j] = data[j]
    BY ONLY <2>1, <2>2
  <2>. QED  BY <2>3 DEF S
<1>4. TypeOK'
  BY <1>2, <1>3 DEF IInv, TypeOK
<1>5. \A t \in Slots : t # s =>
         /\ SameStream(t) /\ past'.tell[t] = past.tell[t]
         /\ t \in past.stale => t \in past'.stale
         /\ ~WritesTo(t, i)
         /\ file[t].mode = "rb" /\ file[t].ino = i => t \in past'.stale
  BY <1>1, <1>2 DEF SameStream, Readers, Streams
<1>6. file'[s].mode = "wb" /\ file'[s].ino = i
  BY <1>2
<1>7. \A j \in Inodes : j # i => data'[j] = data[j] /\ past'.meant[j] = past.meant[j]
  BY <1>3
<1>. HIDE DEF i
<1>8. \A t \in Slots : file'[t].mode = "wb" /\ file'[t].ino = i => t = s
  BY <1>1, <1>2 DEF WritesTo
<1>9. WriterRight(s)' /\ ReaderRight(s)' /\ AtRest(s)'
  <2>1. Overlay(data'[i], file'[s].at, file'[s].buf) = past'.meant[i]
    BY <1>2, <1>3 DEF i
  <2>2. file'[s].at + Len(file'[s].buf) = past'.tell[s]
    BY <1>2, Zenon
  <2>3. i \in Places => tree'[i] = "file"
    BY <1>1, Zenon
  <2>4. WriterRight(s)'
    BY <1>1, <1>6, <1>8, <2>1, <2>2, <2>3 DEF WriterRight, WritesTo
  <2>. QED  BY <1>6, <2>4 DEF ReaderRight, AtRest
<1>10. StreamsRight' /\ Settled'
  BY <1>5, <1>6, <1>7, <1>9, OneStream DEF i
<1>11. WalksRight' /\ FoldersFlat'
  BY <1>2, WalksKept
<1>. QED  BY <1>4, <1>10, <1>11 DEF IInv
\* What the type of a File says of its stream.
LEMMA StreamShape ==
  ASSUME IInv, NEW s \in Slots
  PROVE  /\ file[s] \in FileType /\ file[s].at \in Nat /\ file[s].buf \in Seq(Nat)
         /\ Len(file[s].buf) \in Nat /\ past.tell[s] \in Nat /\ owner[s] \in Nodes
         /\ file[s].mode \in {"rb", "wb"} =>
              /\ file[s].ino \in Inodes
              /\ data[file[s].ino] \in Seq(Nat) /\ past.meant[file[s].ino] \in Seq(Nat)
<1>1. /\ file[s] \in FileType /\ past \in PastType /\ owner[s] \in Nodes
      /\ data \in [Inodes -> Seq(Nat)]
  BY DEF IInv, TypeOK
<1>2. file[s].buf \in Seq(Nat) /\ file[s].at \in Nat
  BY <1>1 DEF FileType
<1>3. Len(file[s].buf) \in Nat
  BY <1>2
<1>4. past.tell[s] \in Nat /\ past.meant \in [Inodes -> Seq(Nat)]
  BY <1>1 DEF PastType
<1>5. file[s].mode \in {"rb", "wb"} => file[s].ino \in Inodes
  BY DEF IInv, StreamsRight, WriterRight, ReaderRight
<1>. QED  BY <1>1, <1>2, <1>3, <1>4, <1>5

Moved(f, at, buf) == [f EXCEPT !.at = at, !.buf = buf]

\* A stream moved is a File.
LEMMA MovedShape ==
  ASSUME NEW f \in FileType, NEW at \in Nat, NEW buf \in Seq(Nat)
  PROVE  /\ Moved(f, at, buf) \in FileType
         /\ Moved(f, at, buf).mode = f.mode /\ Moved(f, at, buf).ino = f.ino
         /\ Moved(f, at, buf).at = at /\ Moved(f, at, buf).buf = buf
         /\ Moved(f, at, buf).walking = f.walking /\ Moved(f, at, buf).left = f.left
<1>. DEFINE S == Seq(Nat)
<1>1. buf \in S /\ f \in [mode : {"none", "rb", "wb", "dir"}, path : Places \cup {<< >>},
        ino : Inodes \cup {NoInode}, at : Nat, buf : S, walking : BOOLEAN,
        left : SUBSET Places]
  BY DEF FileType
<1>. HIDE DEF S
<1>2. Moved(f, at, buf) \in
        [mode : {"none", "rb", "wb", "dir"}, path : Places \cup {<< >>},
         ino : Inodes \cup {NoInode}, at : Nat, buf : S, walking : BOOLEAN,
         left : SUBSET Places]
  BY <1>1 DEF Moved
<1>. QED  BY <1>1, <1>2 DEF FileType, S, Moved

\* A part of a buffer.
LEMMA PartOf ==
  ASSUME NEW u, NEW m \in Int, NEW n \in Int, \A i \in m..n : u[i] \in Nat,
         NEW l \in Nat, l = n - m + 1
  PROVE  /\ SubSeq(u, m, n) \in Seq(Nat) /\ Len(SubSeq(u, m, n)) = l
         /\ \A i \in 1..l : SubSeq(u, m, n)[i] = u[m + i - 1]
<1>. DEFINE a == SubSeq(u, m, n)
<1>1. a \in Seq(Nat) /\ \A i \in 1..(n - m + 1) : a[i] = u[m + i - 1]
  <2>1. a \in Seq(Nat)
    BY SubSeqProperties, Zenon
  <2>2. \A i \in 1..(n - m + 1) : a[i] = u[m + i - 1]
    BY SubSeqProperties
  <2>. QED  BY <2>1, <2>2
<1>0. Len(a) = IF m <= n THEN n - m + 1 ELSE 0
  BY SubSeqProperties
<1>. DEFINE z == Len(a)
<1>2. z = IF m <= n THEN n - m + 1 ELSE 0
  BY <1>0
<1>. HIDE DEF z
<1>3. z = l
  BY ONLY <1>2, l = n - m + 1, m \in Int, n \in Int, l \in Nat
<1>. HIDE DEF a
<1>. QED  BY <1>1, <1>3 DEF a, z

\* A buffer cut in two.
LEMMA CutInTwo ==
  ASSUME NEW u \in Seq(Nat), NEW k \in 0..Len(u)
  PROVE  LET a == SubSeq(u, 1, k)
             b == SubSeq(u, k + 1, Len(u))
         IN /\ a \in Seq(Nat) /\ b \in Seq(Nat) /\ Len(a) = k /\ Len(b) = Len(u) - k
            /\ a \o b = u
<1>. DEFINE a == SubSeq(u, 1, k)
            b == SubSeq(u, k + 1, Len(u))
            n == Len(u)
<1>1. n \in Nat /\ k \in Nat /\ k <= n
  OBVIOUS
<1>2. a \in Seq(Nat) /\ Len(a) = k /\ \A i \in 1..k : a[i] = u[i]
  <2>1. \A i \in 1..k : u[i] \in Nat
    BY <1>1
  <2>2. 1 \in Int /\ k \in Int
    BY <1>1
  <2>3. k = k - 1 + 1 /\ \A i \in 1..k : 1 + i - 1 = i
    BY ONLY <1>1
  <2>4. a \in Seq(Nat) /\ Len(a) = k /\ \A i \in 1..k : a[i] = u[1 + i - 1]
    BY ONLY <1>1, <2>1, <2>2, <2>3, PartOf
  <2>. HIDE DEF a
  <2>. QED  BY ONLY <2>3, <2>4
<1>3. b \in Seq(Nat) /\ Len(b) = n - k /\ \A i \in 1..(n - k) : b[i] = u[k + i]
  <2>1. \A i \in (k + 1)..n : u[i] \in Nat
    BY <1>1
  <2>2. k + 1 \in Int /\ n \in Int
    BY <1>1
  <2>. HIDE DEF n
  <2>. DEFINE l == n - k
              m == k + 1
  <2>3. l \in Nat /\ l = n - m + 1 /\ m \in Int /\ \A i \in 1..l : m + i - 1 = k + i
    BY ONLY <1>1
  <2>. HIDE DEF l, m
  <2>4. \A i \in m..n : u[i] \in Nat
    BY <2>1 DEF m
  <2>5. /\ SubSeq(u, m, n) \in Seq(Nat) /\ Len(SubSeq(u, m, n)) = l
        /\ \A i \in 1..l : SubSeq(u, m, n)[i] = u[m + i - 1]
    BY ONLY <1>1, <2>2, <2>3, <2>4, PartOf
  <2>6. b = SubSeq(u, m, n)
    BY DEF n, m
  <2>. HIDE DEF b
  <2>7. b \in Seq(Nat) /\ Len(b) = l /\ \A i \in 1..l : b[i] = u[k + i]
    BY ONLY <2>3, <2>5, <2>6
  <2>. QED  BY ONLY <2>7 DEF l
<1>. HIDE DEF a, b
<1>4. /\ a \o b \in Seq(Nat) /\ Len(a \o b) = k + (n - k)
      /\ \A i \in 1..(k + (n - k)) : (a \o b)[i] = IF i <= k THEN a[i] ELSE b[i - k]
  <2>1. a \in Seq(Nat) /\ b \in Seq(Nat)
    BY <1>2, <1>3
  <2>2. /\ a \o b \in Seq(Nat) /\ Len(a \o b) = Len(a) + Len(b)
        /\ \A i \in 1..(Len(a) + Len(b)) :
             (a \o b)[i] = IF i <= Len(a) THEN a[i] ELSE b[i - Len(a)]
    BY ONLY <2>1, ConcatProperties, Zenon
  <2>. DEFINE x == Len(a)
              y == Len(b)
  <2>3. x = k /\ y = n - k
    BY <1>2, <1>3
  <2>4. /\ a \o b \in Seq(Nat) /\ Len(a \o b) = x + y
        /\ \A i \in 1..(x + y) : (a \o b)[i] = IF i <= x THEN a[i] ELSE b[i - x]
    BY <2>2
  <2>. HIDE DEF x, y, n
  <2>. QED  BY ONLY <2>3, <2>4
<1>5. ASSUME NEW i \in 1..n  PROVE (a \o b)[i] = u[i]
  <2>. HIDE DEF n
  <2>1. i \in 1..(k + (n - k))
    BY <1>1
  <2>2. (a \o b)[i] = IF i <= k THEN a[i] ELSE b[i - k]
    BY <1>4, <2>1
  <2>3. CASE i <= k
    <3>1. i \in 1..k
      BY <1>1, <2>3
    <3>. QED  BY <1>2, <2>2, <2>3, <3>1
  <2>4. CASE ~(i <= k)
    <3>1. i - k \in 1..(n - k) /\ k + (i - k) = i
      BY <1>1, <2>4
    <3>. QED  BY <1>3, <2>2, <2>4, <3>1
  <2>. QED  BY <2>3, <2>4
<1>. DEFINE w == a \o b
<1>6. w \in Seq(Nat) /\ Len(w) = n /\ \A i \in 1..n : w[i] = u[i]
  BY <1>1, <1>4, <1>5
<1>. HIDE DEF w, n
<1>7. w = u
  BY <1>6, SeqEqual DEF n
<1>. QED  BY <1>2, <1>3, <1>7 DEF a, b, w, n

\* One byte more is a byte joined.
LEMMA AppendJoins ==
  ASSUME NEW u \in Seq(Nat), NEW b \in Nat
  PROVE  /\ Append(u, b) \in Seq(Nat) /\ Len(Append(u, b)) = Len(u) + 1
         /\ Append(u, b) = u \o << b >>
<1>. DEFINE n == Len(u)
            a == Append(u, b)
            c == u \o << b >>
<1>1. n \in Nat /\ << b >> \in Seq(Nat) /\ Len(<< b >>) = 1 /\ << b >>[1] = b
  OBVIOUS
<1>2. a \in Seq(Nat) /\ Len(a) = n + 1 /\ a[n + 1] = b /\ \A i \in 1..n : a[i] = u[i]
  BY <1>1
<1>3. /\ c \in Seq(Nat) /\ Len(c) = n + 1 /\ c[n + 1] = b /\ \A i \in 1..n : c[i] = u[i]
  BY <1>1
<1>. HIDE DEF a, c, n
<1>4. \A i \in 1..(n + 1) : a[i] = c[i]
  <2>1. \A i \in 1..(n + 1) : i \in 1..n \/ i = n + 1
    BY <1>1
  <2>. QED  BY <1>2, <1>3, <2>1
<1>5. a = c
  BY <1>2, <1>3, <1>4, SeqEqual
<1>. QED  BY <1>2, <1>5 DEF a, c, n

LEMMA WriteKeeps ==
  ASSUME IInv, NEW s \in Slots, Write(s)
  PROVE  IInv'
<1>. DEFINE f == file[s]
            i == f.ino
<1>1. PICK b \in Bytes : \E k \in WrittenOut(Append(f.buf, b)) :
        /\ data' = [data EXCEPT ![i] = Overlay(@, f.at, SubSeq(Append(f.buf, b), 1, k))]
        /\ file' = [file EXCEPT ![s].at = @ + k,
                      ![s].buf = SubSeq(Append(f.buf, b), k + 1, Len(Append(f.buf, b)))]
        /\ past' = [past EXCEPT !.meant[i] = Meant(i, past.tell[s], << b >>),
                                !.tell[s] = @ + 1, !.stale = @ \cup Readers(i)]
  BY DEF Write
<1>. DEFINE all == Append(f.buf, b)
<1>2. PICK k \in WrittenOut(all) :
        /\ data' = [data EXCEPT ![i] = Overlay(@, f.at, SubSeq(all, 1, k))]
        /\ file' = [file EXCEPT ![s].at = @ + k, ![s].buf = SubSeq(all, k + 1, Len(all))]
        /\ past' = [past EXCEPT !.meant[i] = Meant(i, past.tell[s], << b >>),
                                !.tell[s] = @ + 1, !.stale = @ \cup Readers(i)]
  BY <1>1
<1>3. f.mode = "wb" /\ UNCHANGED <<tree, owner, run>>
  BY DEF Write, Writer
<1>4. /\ i \in Inodes /\ Overlay(data[i], f.at, f.buf) = past.meant[i]
      /\ f.at + Len(f.buf) = past.tell[s]
  BY <1>3 DEF IInv, StreamsRight, WriterRight
<1>5. /\ f \in FileType /\ f.at \in Nat /\ f.buf \in Seq(Nat) /\ Len(f.buf) \in Nat
      /\ data[i] \in Seq(Nat) /\ past.meant[i] \in Seq(Nat) /\ past.tell[s] \in Nat
  BY <1>3, StreamShape
<1>6. b \in Nat /\ << b >> \in Seq(Nat) /\ << b >> # << >> /\ Len(<< b >>) = 1
  BY StoreAssumption
<1>7. all \in Seq(Nat) /\ Len(all) = Len(f.buf) + 1 /\ all = f.buf \o << b >>
  BY <1>5, <1>6, AppendJoins, Zenon
<1>. DEFINE u == SubSeq(all, 1, k)
            v == SubSeq(all, k + 1, Len(all))
            at == f.at + k
            g == Moved(f, at, v)
            d == Overlay(data[i], f.at, u)
            m == Overlay(past.meant[i], past.tell[s], << b >>)
            stale == past.stale \cup Readers(i)
            tell == past.tell[s] + 1
<1>. HIDE DEF f, i, all
<1>8. k \in 0..Len(all) /\ k \in Nat
  BY <1>7 DEF WrittenOut
<1>9. /\ u \in Seq(Nat) /\ v \in Seq(Nat) /\ Len(u) = k /\ Len(v) = Len(all) - k
      /\ u \o v = all
  BY <1>7, <1>8, CutInTwo
<1>10. /\ file' = [file EXCEPT ![s] = g] /\ data' = [data EXCEPT ![i] = d]
       /\ past' = [past EXCEPT !.meant = [@ EXCEPT ![i] = m],
                               !.tell = [@ EXCEPT ![s] = tell], !.stale = stale]
  BY <1>2 DEF f, Meant, Moved
<1>. HIDE DEF u, v
<1>11. at \in Nat
  BY <1>5, <1>8
<1>12. d \in Seq(Nat) /\ m \in Seq(Nat)
  BY <1>5, <1>6, <1>9, OverlayType
<1>13. Overlay(d, at, v) = m
  <2>. DEFINE h == data[i]
              from == f.at
              held == f.buf
              one == << b >>
              now == past.tell[s]
              meant == past.meant[i]
  <2>1. h \in Seq(Nat) /\ from \in Nat /\ held \in Seq(Nat) /\ one \in Seq(Nat)
    BY <1>5, <1>6
  <2>2. Overlay(h, from, held) = meant /\ from + Len(held) = now /\ all = held \o one
    BY <1>4, <1>7
  <2>. HIDE DEF h, from, held, one, now, meant
  <2>3. Overlay(Overlay(h, from, u), from + Len(u), v) = Overlay(h, from, u \o v)
    <3>1. u \in Seq(Nat) /\ v \in Seq(Nat)
      BY <1>9
    <3>. QED  BY ONLY <2>1, <3>1, OverlayJoined
  <2>4. Overlay(Overlay(h, from, held), from + Len(held), one) = Overlay(h, from, held \o one)
    BY ONLY <2>1, OverlayJoined
  <2>5. Overlay(Overlay(h, from, u), from + k, v) = Overlay(meant, now, one)
    BY <1>9, <2>2, <2>3, <2>4
  <2>. QED  BY <2>5 DEF h, from, now, one, meant
<1>14. at + Len(v) = tell
  <2>. DEFINE from == f.at
              n == Len(f.buf)
              c == Len(all)
              z == Len(v)
              now == past.tell[s]
  <2>1. from + n = now /\ c = n + 1 /\ z = c - k
    BY <1>4, <1>7, <1>9, Zenon
  <2>2. from \in Nat /\ n \in Nat
    BY <1>5
  <2>. HIDE DEF from, n, c, z, now
  <2>3. (from + k) + z = now + 1
    BY <1>8, <2>1, <2>2
  <2>. QED  BY <2>3 DEF from, z, now
<1>. HIDE DEF at
<1>15. /\ g \in FileType /\ g.mode = "wb" /\ g.ino = i /\ g.at = at /\ g.buf = v
       /\ g.walking = f.walking /\ g.left = f.left
  <2>1. /\ g \in FileType /\ g.mode = f.mode /\ g.ino = f.ino /\ g.at = at /\ g.buf = v
        /\ g.walking = f.walking /\ g.left = f.left
    <3>1. f \in FileType /\ at \in Nat /\ v \in Seq(Nat)
      BY <1>5, <1>9, <1>11
    <3>. QED  BY ONLY <3>1, MovedShape
  <2>. QED  BY <1>3, <2>1, Zenon DEF i
<1>. HIDE DEF g, d, m, stale, tell
<1>16. /\ past' \in PastType /\ past'.meant[i] = m /\ past'.tell[s] = tell
       /\ \A j \in Inodes : j # i => past'.meant[j] = past.meant[j]
       /\ \A t \in Slots : t # s => past'.tell[t] = past.tell[t]
       /\ past'.stale = stale /\ past'.there = past.there /\ past'.seen = past.seen
  <2>1. stale \in SUBSET Slots
    BY DEF IInv, TypeOK, PastType, stale, Readers, Streams
  <2>2. tell \in Nat
    BY <1>5 DEF tell
  <2>. DEFINE S == Seq(Nat)
              P == [meant : [Inodes -> S], stale : SUBSET Slots, tell : [Slots -> Nat],
                    there : [Slots -> SUBSET Places], seen : [Slots -> SUBSET Places]]
  <2>3. past \in P /\ m \in S
    BY <1>12 DEF IInv, TypeOK, PastType
  <2>. HIDE DEF S
  <2>4. /\ past' \in P /\ past'.meant[i] = m /\ past'.tell[s] = tell
        /\ \A j \in Inodes : j # i => past'.meant[j] = past.meant[j]
        /\ \A t \in Slots : t # s => past'.tell[t] = past.tell[t]
        /\ past'.stale = stale /\ past'.there = past.there /\ past'.seen = past.seen
    BY <1>4, <1>10, <2>1, <2>2, <2>3
  <2>. QED  BY <2>4 DEF S, PastType
<1>17. \A t \in Slots : t \in past.stale \cup Readers(i) => t \in past'.stale
  BY <1>16 DEF stale
<1>18. Overlay(d, g.at, g.buf) = past'.meant[i] /\ g.at + Len(g.buf) = past'.tell[s]
  BY <1>13, <1>14, <1>15, <1>16
<1>. QED  BY <1>3, <1>10, <1>12, <1>15, <1>16, <1>17, <1>18, WriterMoves DEF f, i
\* The history of a call that changes one position.
LEMMA Told ==
  ASSUME IInv, NEW s \in Slots, NEW n \in Nat, past' = [past EXCEPT !.tell[s] = n]
  PROVE  /\ past' \in PastType /\ past'.tell[s] = n
         /\ \A t \in Slots : t # s => past'.tell[t] = past.tell[t]
         /\ past'.meant = past.meant /\ past'.stale = past.stale
         /\ past'.there = past.there /\ past'.seen = past.seen
<1>. DEFINE M == [Inodes -> Seq(Nat)]
            P == [meant : M, stale : SUBSET Slots, tell : [Slots -> Nat],
                  there : [Slots -> SUBSET Places], seen : [Slots -> SUBSET Places]]
<1>1. past \in P
  BY DEF IInv, TypeOK, PastType
<1>. HIDE DEF M
<1>2. /\ past' \in P /\ past'.tell[s] = n
      /\ \A t \in Slots : t # s => past'.tell[t] = past.tell[t]
      /\ past'.meant = past.meant /\ past'.stale = past.stale
      /\ past'.there = past.there /\ past'.seen = past.seen
  BY <1>1
<1>. QED  BY <1>2 DEF M, PastType

\* A writer that writes out what it holds, and perhaps goes elsewhere.
LEMMA WritesOut ==
  ASSUME IInv, NEW s \in Slots, file[s].mode = "wb", data' = Out(s), NEW at \in Nat,
         file' = [file EXCEPT ![s].at = at, ![s].buf = << >>],
         past' \in PastType, past'.tell[s] = at,
         \A t \in Slots : t # s => past'.tell[t] = past.tell[t],
         past'.meant = past.meant, past'.stale = past.stale,
         past'.there = past.there, past'.seen = past.seen,
         UNCHANGED <<tree, owner, run>>
  PROVE  IInv'
<1>. DEFINE i == file[s].ino
            d == Overlay(data[i], file[s].at, file[s].buf)
            g == Moved(file[s], at, << >>)
<1>1. file' = [file EXCEPT ![s] = g] /\ data' = [data EXCEPT ![i] = d]
  BY DEF Moved, Out
<1>2. /\ file[s] \in FileType /\ file[s].at \in Nat /\ file[s].buf \in Seq(Nat)
      /\ data[i] \in Seq(Nat) /\ i \in Inodes
  BY StreamShape
<1>3. d \in Seq(Nat) /\ d = past.meant[i]
  <2>1. d = past.meant[i]
    BY DEF IInv, StreamsRight, WriterRight
  <2>2. past.meant[i] \in Seq(Nat)
    BY StreamShape
  <2>. QED  BY <2>1, <2>2
<1>4. << >> \in Seq(Nat) /\ Len(<< >>) = 0
  OBVIOUS
<1>5. /\ g \in FileType /\ g.mode = file[s].mode /\ g.ino = i /\ g.at = at /\ g.buf = << >>
      /\ g.walking = file[s].walking /\ g.left = file[s].left
  <2>. DEFINE none == << >>
  <2>1. file[s] \in FileType /\ at \in Nat /\ none \in Seq(Nat)
    BY <1>2, <1>4
  <2>. HIDE DEF none
  <2>. DEFINE h == Moved(file[s], at, none)
  <2>2. /\ h \in FileType /\ h.mode = file[s].mode /\ h.ino = i /\ h.at = at /\ h.buf = none
        /\ h.walking = file[s].walking /\ h.left = file[s].left
    BY ONLY <2>1, MovedShape
  <2>. QED  BY <2>2 DEF none
<1>6. \A t \in Slots : t \in past.stale \cup Readers(i) => t \in past'.stale
  <2>. SUFFICES ASSUME NEW t \in Slots, t \in Readers(i) PROVE t \in past.stale
    OBVIOUS
  <2>1. file[t].mode = "rb" /\ file[t].ino = i
    BY DEF Readers, Streams
  <2>. QED  BY <2>1 DEF IInv, StreamsRight, ReaderRight, AheadRight, WritesTo
<1>7. Overlay(d, g.at, g.buf) = past'.meant[i] /\ g.at + Len(g.buf) = past'.tell[s]
  <2>1. Overlay(d, at, << >>) = d
    BY OverlayNothing
  <2>2. at + 0 = at
    OBVIOUS
  <2>. HIDE DEF d, g
  <2>3. Overlay(d, g.at, g.buf) = d
    BY <1>5, <2>1
  <2>4. g.at + Len(g.buf) = at
    BY <1>4, <1>5, <2>2
  <2>. QED  BY <1>3, <2>3, <2>4
<1>8. \A j \in Inodes : j # i => past'.meant[j] = past.meant[j]
  OBVIOUS
<1>9. \A t \in Slots : /\ t # s => past'.tell[t] = past.tell[t]
                       /\ t \in past.stale \cup Readers(i) => t \in past'.stale
  BY <1>6
<1>10. /\ IInv /\ s \in Slots /\ file[s].mode = "wb" /\ g.mode = "wb"
       /\ past' \in PastType /\ past'.there = past.there /\ past'.seen = past.seen
       /\ UNCHANGED <<tree, owner, run>>
  BY <1>5
<1>. HIDE DEF d, g
<1>11. g \in FileType /\ d \in Seq(Nat)
  BY <1>3, <1>5
<1>12. /\ file' = [file EXCEPT ![s] = g] /\ data' = [data EXCEPT ![file[s].ino] = d]
       /\ g.ino = file[s].ino /\ g.walking = file[s].walking /\ g.left = file[s].left
  BY <1>1, <1>5
<1>13. /\ Overlay(d, g.at, g.buf) = past'.meant[file[s].ino]
       /\ g.at + Len(g.buf) = past'.tell[s]
  BY <1>7
<1>14. \A j \in Inodes : j # file[s].ino => past'.meant[j] = past.meant[j]
  BY <1>8
<1>15. \A t \in Slots :
         /\ t # s => past'.tell[t] = past.tell[t]
         /\ t \in past.stale \cup Readers(file[s].ino) => t \in past'.stale
  BY <1>9
<1>. QED  BY ONLY <1>10, <1>11, <1>12, <1>13, <1>14, <1>15, WriterMoves, Zenon

LEMMA FlushKeeps ==
  ASSUME IInv, NEW s \in Slots, Flush(s)
  PROVE  IInv'
<1>1. file[s].mode = "wb" /\ UNCHANGED <<tree, owner, run, past>> /\ data' = Out(s)
  BY DEF Flush, Writer
<1>. DEFINE at == file[s].at + Len(file[s].buf)
<1>2. file' = [file EXCEPT ![s].at = at, ![s].buf = << >>]
  BY DEF Flush
<1>3. past.tell[s] = at /\ at \in Nat /\ past \in PastType
  BY <1>1, StreamShape DEF IInv, StreamsRight, WriterRight, TypeOK
<1>. HIDE DEF at
<1>. QED  BY <1>1, <1>2, <1>3, WritesOut

\* A reader that moves: what it has ahead is what is there.
LEMMA ReaderMoves ==
  ASSUME IInv, NEW s \in Slots, file[s].mode = "rb", NEW at \in Nat, NEW buf \in Seq(Nat),
         file' = [file EXCEPT ![s] = Moved(file[s], at, buf)],
         past' \in PastType, at - Len(buf) = past'.tell[s],
         \A t \in Slots : t # s => past'.tell[t] = past.tell[t],
         past'.meant = past.meant, past'.stale = past.stale,
         past'.there = past.there, past'.seen = past.seen,
         s \notin past.stale =>
           \A k \in 1..Len(buf) :
             /\ past'.tell[s] + k <= Len(data[file[s].ino])
             /\ buf[k] = data[file[s].ino][past'.tell[s] + k],
         UNCHANGED <<tree, data, owner, run>>
  PROVE  IInv'
<1>. DEFINE g == Moved(file[s], at, buf)
<1>1. /\ g \in FileType /\ g.mode = "rb" /\ g.ino = file[s].ino /\ g.at = at
      /\ g.buf = buf /\ g.walking = file[s].walking /\ g.left = file[s].left
  <2>1. file[s] \in FileType
    BY StreamShape
  <2>. QED  BY <2>1, MovedShape
<1>. HIDE DEF g
<1>2. /\ file' \in [Slots -> FileType] /\ file'[s] = g
      /\ \A t \in Slots : t # s => file'[t] = file[t]
  BY <1>1 DEF IInv, TypeOK, g
<1>3. TypeOK'
  BY <1>2 DEF IInv, TypeOK
<1>4. \A t \in Slots : t # s => SameStream(t)
  BY <1>2 DEF SameStream
<1>5. ReaderRight(s)' /\ AtRest(s)' /\ file'[s].mode # "wb"
  <2>1. file[s].ino \in Inodes /\ (s \notin past.stale => AheadRight(s))
    BY DEF IInv, StreamsRight, ReaderRight
  <2>2. ASSUME s \notin past.stale
        PROVE  AheadRight(s)'
    <3>1. \A t \in Slots : ~(file[t].mode = "wb" /\ file[t].ino = file[s].ino)
      BY <2>1, <2>2 DEF AheadRight, WritesTo
    <3>2. \A t \in Slots : ~WritesTo(t, file[s].ino)'
      BY <1>1, <1>2, <3>1 DEF WritesTo
    <3>3. file'[s].buf = buf /\ file'[s].ino = file[s].ino
      BY <1>1, <1>2
    <3>. QED  BY <2>2, <3>2, <3>3 DEF AheadRight, WritesTo
  <2>. QED  BY <1>1, <1>2, <2>1, <2>2 DEF ReaderRight, AtRest
<1>6. StreamsRight' /\ Settled'
  BY <1>4, <1>5, QuietStream
<1>7. WalksRight' /\ FoldersFlat'
  BY <1>1, <1>2, WalksKept
<1>. QED  BY <1>3, <1>6, <1>7 DEF IInv

\* One that has nothing ahead.
LEMMA ReaderStands ==
  ASSUME IInv, NEW s \in Slots, file[s].mode = "rb", NEW at \in Nat,
         file' = [file EXCEPT ![s] = Moved(file[s], at, << >>)],
         past' \in PastType, at = past'.tell[s],
         \A t \in Slots : t # s => past'.tell[t] = past.tell[t],
         past'.meant = past.meant, past'.stale = past.stale,
         past'.there = past.there, past'.seen = past.seen,
         UNCHANGED <<tree, data, owner, run>>
  PROVE  IInv'
<1>1. << >> \in Seq(Nat) /\ at - Len(<< >>) = at
  OBVIOUS
<1>2. \A k \in 1..Len(<< >>) :
        /\ past'.tell[s] + k <= Len(data[file[s].ino])
        /\ << >>[k] = data[file[s].ino][past'.tell[s] + k]
  OBVIOUS
<1>3. at - Len(<< >>) = past'.tell[s]
  BY <1>1
<1>4. UNCHANGED <<tree, data, owner, run>>
  OBVIOUS
<1>. QED  BY <1>1, <1>2, <1>3, <1>4, ReaderMoves, Zenon

LEMMA SizeKeeps ==
  ASSUME IInv, NEW s \in Slots, SizeOfReader(s)
  PROVE  IInv'
<1>. DEFINE at == file[s].at - Len(file[s].buf)
<1>1. /\ file[s].mode = "rb" /\ UNCHANGED <<tree, data, owner, run, past>>
      /\ file' = [file EXCEPT ![s] = Moved(file[s], at, << >>)]
  BY DEF SizeOfReader, Reader, Moved
<1>2. at = past.tell[s] /\ at \in Nat /\ past \in PastType
  BY <1>1, StreamShape DEF IInv, StreamsRight, ReaderRight, TypeOK
<1>. HIDE DEF at
<1>. QED  BY <1>1, <1>2, ReaderStands

LEMMA SeekKeeps ==
  ASSUME IInv, NEW s \in Slots, Seek(s)
  PROVE  IInv'
<1>1. PICK at \in 0..MaxLen[owner[s]] :
        /\ (Reader(s) /\ UNCHANGED data) \/ (Writer(s) /\ data' = Out(s))
        /\ file' = [file EXCEPT ![s].at = at, ![s].buf = << >>]
        /\ past' = [past EXCEPT !.tell[s] = at]
  BY DEF Seek
<1>2. UNCHANGED <<tree, owner, run>>
  BY DEF Seek
<1>3. at \in Nat
  BY StreamShape, StoreAssumption
<1>4. /\ past' \in PastType /\ past'.tell[s] = at
      /\ \A t \in Slots : t # s => past'.tell[t] = past.tell[t]
      /\ past'.meant = past.meant /\ past'.stale = past.stale
      /\ past'.there = past.there /\ past'.seen = past.seen
  BY <1>1, <1>3, Told
<1>5. CASE Writer(s) /\ data' = Out(s)
  <2>1. file[s].mode = "wb"
    BY <1>5 DEF Writer
  <2>. QED  BY <1>1, <1>2, <1>3, <1>4, <1>5, <2>1, WritesOut
<1>6. CASE Reader(s) /\ UNCHANGED data
  <2>1. file[s].mode = "rb" /\ file' = [file EXCEPT ![s] = Moved(file[s], at, << >>)]
    BY <1>1, <1>6 DEF Reader, Moved
  <2>. QED  BY <1>2, <1>3, <1>4, <1>6, <2>1, ReaderStands
<1>. QED  BY <1>1, <1>5, <1>6
\* What a reader reads ahead is what its file has from where it stands.
LEMMA AheadBytes ==
  ASSUME NEW D \in Seq(Nat), NEW at \in Nat, NEW hi \in Nat, hi <= Len(D),
         NEW u, u = SubSeq(D, at + 1, hi), u # << >>
  PROVE  /\ u \in Seq(Nat) /\ Len(u) = hi - at
         /\ \A k \in 1..Len(u) : at + k <= Len(D) /\ u[k] = D[at + k]
<1>. DEFINE n == Len(D)
<1>1. n \in Nat /\ \A j \in 1..n : D[j] \in Nat
  OBVIOUS
<1>2. at < hi
  <2>. SUFFICES ASSUME hi < at + 1 PROVE FALSE
    OBVIOUS
  <2>. QED  BY SubSeqEmpty
<1>3. at + 1 \in Int /\ hi \in Int /\ \A j \in (at + 1)..hi : D[j] \in Nat
  <2>1. \A j \in (at + 1)..hi : j \in 1..n
    BY <1>1
  <2>. QED  BY <1>1, <2>1
<1>. HIDE DEF n
<1>4. /\ u \in Seq(Nat) /\ Len(u) = (hi - (at + 1)) + 1
      /\ \A k \in 1..((hi - (at + 1)) + 1) : u[k] = D[(at + 1) + k - 1]
  BY <1>2, <1>3, SubSeqProperties
<1>5. (hi - (at + 1)) + 1 = hi - at
  OBVIOUS
<1>. DEFINE z == Len(u)
<1>6. /\ u \in Seq(Nat) /\ z = hi - at /\ hi <= n
      /\ \A k \in 1..(hi - at) : u[k] = D[(at + 1) + k - 1]
  BY <1>4, <1>5 DEF n
<1>. HIDE DEF z
<1>7. ASSUME NEW k \in 1..z
      PROVE  at + k <= n /\ u[k] = D[at + k]
  <2>1. (at + 1) + k - 1 = at + k /\ k \in 1..(hi - at) /\ at + k <= n
    BY <1>1, <1>2, <1>6
  <2>. QED  BY <1>6, <2>1
<1>. QED  BY <1>6, <1>7 DEF z, n

LEMMA ReadKeeps ==
  ASSUME IInv, NEW s \in Slots, Read(s)
  PROVE  IInv'
<1>. DEFINE f == file[s]
            D == data[f.ino]
            all == IF f.buf = << >> THEN Ahead(f) ELSE f.buf
            at == IF f.buf = << >> THEN f.at + Len(all) ELSE f.at
            now == past.tell[s]
            rest == Tail(all)
<1>1. /\ f.mode = "rb" /\ all # << >> /\ UNCHANGED <<tree, data, owner, run>>
      /\ file' = [file EXCEPT ![s].buf = rest, ![s].at = IF f.buf = << >> THEN @ + Len(all) ELSE @]
      /\ past' = [past EXCEPT !.tell[s] = now + 1]
  BY DEF Read, Reader
<1>2. /\ f \in FileType /\ f.at \in Nat /\ f.buf \in Seq(Nat) /\ Len(f.buf) \in Nat
      /\ D \in Seq(Nat) /\ now \in Nat /\ f.ino \in Inodes
  BY <1>1, StreamShape
<1>3. /\ f.at - Len(f.buf) = now
      /\ s \notin past.stale =>
           \A k \in 1..Len(f.buf) : now + k <= Len(D) /\ f.buf[k] = D[now + k]
  BY <1>1 DEF IInv, StreamsRight, ReaderRight, AheadRight
<1>4. /\ all \in Seq(Nat) /\ at \in Nat /\ at - Len(all) = now
      /\ s \notin past.stale => \A k \in 1..Len(all) : now + k <= Len(D) /\ all[k] = D[now + k]
  <2>1. CASE f.buf = << >>
    <3>. DEFINE have == Len(D)
                hi == IF f.at + ReadCap < have THEN f.at + ReadCap ELSE have
                from == f.at
    <3>1. all = SubSeq(D, from + 1, hi) /\ at = from + Len(all)
      BY <2>1 DEF Ahead
    <3>2. from = now
      <4>1. Len(f.buf) = 0
        BY <2>1
      <4>. QED  BY <1>2, <1>3, <4>1
    <3>3. have \in Nat /\ ReadCap \in Nat
      BY <1>2, StoreAssumption
    <3>. HIDE DEF all, at, now, D, f
    <3>4. from \in Nat
      BY <1>2, <3>2
    <3>5. hi \in Nat /\ hi <= Len(D)
      <4>. HIDE DEF from
      <4>1. from + ReadCap \in Nat
        BY <3>3, <3>4
      <4>. HIDE DEF have
      <4>2. hi \in Nat /\ hi <= have
        BY <3>3, <4>1 DEF from
      <4>. QED  BY <4>2 DEF have
    <3>. HIDE DEF hi, from, have
    <3>6. /\ all \in Seq(Nat) /\ Len(all) = hi - from
          /\ \A k \in 1..Len(all) : from + k <= Len(D) /\ all[k] = D[from + k]
      <4>1. D \in Seq(Nat) /\ all # << >> /\ all = SubSeq(D, from + 1, hi)
        BY <1>1, <1>2, <3>1
      <4>. QED  BY ONLY <3>4, <3>5, <4>1, AheadBytes
    <3>. DEFINE z == Len(all)
    <3>7. z \in Nat
      BY <3>6
    <3>8. z = hi - from /\ at = from + z
      BY <3>1, <3>6
    <3>. HIDE DEF z
    <3>9. at \in Nat /\ at - z = now
      BY <3>2, <3>4, <3>7, <3>8
    <3>. QED  BY <3>2, <3>6, <3>9 DEF z
  <2>2. CASE f.buf # << >>
    BY <1>2, <1>3, <2>2
  <2>. QED  BY <2>1, <2>2
<1>5. file' = [file EXCEPT ![s] = Moved(f, at, rest)]
  BY <1>1 DEF Moved
<1>. HIDE DEF all, at, now, D
<1>6. /\ rest \in Seq(Nat) /\ Len(rest) = Len(all) - 1 /\ Len(all) \in Nat
      /\ \A k \in 1..(Len(all) - 1) : rest[k] = all[k + 1]
  BY <1>1, <1>4
<1>. HIDE DEF rest
<1>7. now + 1 \in Nat
  BY <1>2
<1>8. /\ past' \in PastType /\ past'.tell[s] = now + 1
      /\ \A t \in Slots : t # s => past'.tell[t] = past.tell[t]
      /\ past'.meant = past.meant /\ past'.stale = past.stale
      /\ past'.there = past.there /\ past'.seen = past.seen
  BY <1>1, <1>7, Told
<1>. DEFINE z == Len(all)
            y == Len(rest)
<1>9. z \in Nat /\ y = z - 1 /\ at - z = now /\ now \in Nat /\ at \in Nat
  BY <1>2, <1>4, <1>6
<1>10. s \notin past.stale =>
         \A k \in 1..y : now + 1 + k <= Len(D) /\ rest[k] = D[now + 1 + k]
  <2>. SUFFICES ASSUME s \notin past.stale, NEW k \in 1..y
                PROVE  now + 1 + k <= Len(D) /\ rest[k] = D[now + 1 + k]
    OBVIOUS
  <2>. HIDE DEF y, z
  <2>1. k + 1 \in 1..z /\ k \in 1..(z - 1) /\ now + (k + 1) = now + 1 + k
    BY <1>9
  <2>2. now + (k + 1) <= Len(D) /\ all[k + 1] = D[now + (k + 1)]
    BY <1>4, <2>1 DEF z
  <2>3. rest[k] = all[k + 1]
    BY <1>6, <2>1 DEF z
  <2>. QED  BY <2>1, <2>2, <2>3
<1>11. at - y = past'.tell[s]
  <2>. HIDE DEF y, z
  <2>1. at - y = now + 1
    BY <1>9
  <2>. QED  BY <1>8, <2>1
<1>12. /\ IInv /\ s \in Slots /\ file[s].mode = "rb" /\ at \in Nat /\ rest \in Seq(Nat)
       /\ file' = [file EXCEPT ![s] = Moved(file[s], at, rest)]
       /\ at - Len(rest) = past'.tell[s]
       /\ UNCHANGED <<tree, data, owner, run>>
  BY <1>1, <1>4, <1>5, <1>6, <1>11
<1>13. s \notin past.stale =>
         \A k \in 1..Len(rest) :
           /\ past'.tell[s] + k <= Len(data[file[s].ino])
           /\ rest[k] = data[file[s].ino][past'.tell[s] + k]
  BY <1>8, <1>10 DEF D
<1>. QED  BY ONLY <1>8, <1>12, <1>13, ReaderMoves, Zenon
\* Where no stream moves and no file changes.
LEMMA StreamsStay ==
  ASSUME IInv, \A t \in Slots : SameStream(t),
         data' = data, past'.meant = past.meant, past'.stale = past.stale,
         past'.tell = past.tell,
         \A p \in Places : tree[p] = "file" =>
           tree'[p] = "file" \/ \A t \in Slots : ~WritesTo(t, p)
  PROVE  StreamsRight' /\ Settled'
<1>1. ASSUME NEW t \in Slots
      PROVE  WriterRight(t)' /\ AtRest(t)'
  <2>1. WriterRight(t) /\ AtRest(t) /\ SameStream(t)
    BY DEF IInv, StreamsRight
  <2>. QED  BY <2>1 DEF WriterRight, AtRest, SameStream, WritesTo
<1>2. ASSUME NEW t \in Slots
      PROVE  ReaderRight(t)'
  <2>1. ReaderRight(t) /\ SameStream(t)
    BY DEF IInv, StreamsRight
  <2>. QED  BY <2>1 DEF ReaderRight, AheadRight, SameStream, WritesTo
<1>3. Settled'
  BY DEF IInv, Settled, SameStream, WritesTo
<1>. QED  BY <1>1, <1>2, <1>3 DEF StreamsRight

\* A walk over, or begun again.
LEMMA WalkStopKeeps ==
  ASSUME IInv, NEW s \in Slots, WalkEnds(s) \/ RewindDirectory(s)
  PROVE  IInv'
<1>1. /\ file[s].walking /\ UNCHANGED <<tree, data, owner, run>>
      /\ past' = [past EXCEPT !.there[s] = {}, !.seen[s] = {}]
      /\ \/ file' = [file EXCEPT ![s].walking = FALSE, ![s].left = {}]
         \/ file' = [file EXCEPT ![s].walking = FALSE]
  BY DEF WalkEnds, RewindDirectory
<1>2. /\ file' \in [Slots -> FileType]
      /\ \A t \in Slots : SameStream(t) /\ (t # s => file'[t] = file[t])
  <2>. DEFINE S == Seq(Nat)
              T == [mode : {"none", "rb", "wb", "dir"}, path : Places \cup {<< >>},
                    ino : Inodes \cup {NoInode}, at : Nat, buf : S, walking : BOOLEAN,
                    left : SUBSET Places]
  <2>1. file \in [Slots -> T]
    BY DEF IInv, TypeOK, FileType
  <2>. HIDE DEF S
  <2>2. CASE file' = [file EXCEPT ![s].walking = FALSE, ![s].left = {}]
    <3>1. file' \in [Slots -> T]
      <4>. DEFINE g == [file[s] EXCEPT !.walking = FALSE, !.left = {}]
      <4>1. file[s] \in T /\ {} \in SUBSET Places
        BY <2>1
      <4>2. g \in T
        BY <4>1
      <4>3. file' = [file EXCEPT ![s] = g]
        BY <2>2
      <4>. HIDE DEF g, T
      <4>. QED  BY <2>1, <4>2, <4>3
    <3>2. \A t \in Slots : SameStream(t) /\ (t # s => file'[t] = file[t])
      BY <2>1, <2>2 DEF SameStream
    <3>. QED  BY <3>1, <3>2 DEF S, FileType
  <2>3. CASE file' = [file EXCEPT ![s].walking = FALSE]
    <3>1. file' \in [Slots -> T]
      BY <2>1, <2>3
    <3>2. \A t \in Slots : SameStream(t) /\ (t # s => file'[t] = file[t])
      BY <2>1, <2>3 DEF SameStream
    <3>. QED  BY <3>1, <3>2 DEF S, FileType
  <2>. QED  BY <1>1, <2>2, <2>3
<1>3. /\ past' \in PastType /\ past'.meant = past.meant /\ past'.stale = past.stale
      /\ past'.tell = past.tell /\ past'.there[s] = {}
      /\ \A t \in Slots : t # s => past'.there[t] = past.there[t] /\ past'.seen[t] = past.seen[t]
  <2>. DEFINE M == [Inodes -> Seq(Nat)]
              P == [meant : M, stale : SUBSET Slots, tell : [Slots -> Nat],
                    there : [Slots -> SUBSET Places], seen : [Slots -> SUBSET Places]]
  <2>1. past \in P
    BY DEF IInv, TypeOK, PastType
  <2>. HIDE DEF M
  <2>2. /\ past' \in P /\ past'.meant = past.meant /\ past'.stale = past.stale
        /\ past'.tell = past.tell /\ past'.there[s] = {}
        /\ \A t \in Slots : t # s => past'.there[t] = past.there[t] /\ past'.seen[t] = past.seen[t]
    BY <1>1, <2>1
  <2>. QED  BY <2>2 DEF M, PastType
<1>4. TypeOK'
  BY <1>1, <1>2, <1>3 DEF IInv, TypeOK
<1>5. StreamsRight' /\ Settled'
  BY <1>1, <1>2, <1>3, StreamsStay
<1>6. WalksRight' /\ FoldersFlat'
  BY <1>1, <1>2, <1>3, WalksKept
<1>. QED  BY <1>4, <1>5, <1>6 DEF IInv

\* A removed folder is empty, and of no walk's concern.
LEMMA RemovesFolderKeeps ==
  ASSUME IInv, NEW n \in Nodes, NEW path \in Files \cup Folders,
         tree' = [tree EXCEPT ![Full(n, path)] = "none"], RemovesFolder(Full(n, path)),
         UNCHANGED <<owner, run>>
  PROVE  IInv'
<1>. DEFINE p == Full(n, path)
<1>1. /\ p \in Places /\ tree[p] = "folder" /\ tree' = [tree EXCEPT ![p] = "none"]
      /\ UNCHANGED <<data, file, past>> /\ Children(p) = {}
  BY FullPlace DEF RemovesFolder
<1>. HIDE DEF p
<1>2. /\ tree' \in [Places -> {"none", "file", "folder"}] /\ tree'[p] = "none"
      /\ \A q \in Places : q # p => tree'[q] = tree[q]
  BY <1>1 DEF IInv, TypeOK
<1>3. TypeOK'
  BY <1>1, <1>2 DEF IInv, TypeOK
<1>4. StreamsRight' /\ Settled'
  <2>1. \A t \in Slots : SameStream(t)
    BY <1>1 DEF SameStream
  <2>2. \A q \in Places : tree[q] = "file" => tree'[q] = "file"
    BY <1>1, <1>2
  <2>. QED  BY <1>1, <2>1, <2>2, StreamsStay
<1>5. WalksRight' /\ FoldersFlat'
  <2>1. ASSUME NEW t \in Slots
        PROVE  WalkRight(t)'
    <3>1. WalkRight(t) /\ past.there[t] \subseteq Places
      BY DEF IInv, WalksRight, TypeOK, PastType
    <3>2. Len(p) = 2
      BY <1>1 DEF IInv, FoldersFlat
    <3>3. \A q \in past.there[t] : q # p
      BY <3>1, <3>2 DEF WalkRight
    <3>. QED  BY <1>1, <1>2, <3>1, <3>3 DEF WalkRight
  <2>2. FoldersFlat'
    BY <1>1, <1>2 DEF IInv, FoldersFlat
  <2>. QED  BY <2>1, <2>2 DEF WalksRight
<1>. QED  BY <1>3, <1>4, <1>5 DEF IInv
-----------------------------------------------------------------------------
\* Streams that end: what nobody names and nobody has open is gone.

Alive(i, f) == (i \in Places /\ tree[i] = "file") \/ \E s \in Slots : f[s].ino = i

LEMMA KeptShape ==
  ASSUME NEW d \in [Inodes -> Seq(Nat)], NEW f
  PROVE  /\ Kept(d, tree, f) \in [Inodes -> Seq(Nat)]
         /\ \A i \in Inodes : Kept(d, tree, f)[i] = IF Alive(i, f) THEN d[i] ELSE << >>
<1>. DEFINE S == Seq(Nat)
<1>1. d \in [Inodes -> S] /\ << >> \in S
  OBVIOUS
<1>. HIDE DEF S
<1>2. /\ Kept(d, tree, f) \in [Inodes -> S]
      /\ \A i \in Inodes : Kept(d, tree, f)[i] = IF Alive(i, f) THEN d[i] ELSE << >>
  BY <1>1 DEF Kept, Alive
<1>. QED  BY <1>2 DEF S

Dropped(G) == [s \in Slots |-> IF s \in G THEN NoFile ELSE file[s]]

\* Some streams are closed or lost: `d' is what is written by then, `m' what was meant.
Drops(G, d, m) ==
  /\ G \in SUBSET Slots
  /\ d \in [Inodes -> Seq(Nat)] /\ m \in [Inodes -> Seq(Nat)]
  /\ file' = Dropped(G)
  /\ data' = Kept(d, tree, file') /\ past'.meant = Kept(m, tree, file')
  /\ past' \in PastType /\ run' \in [Nodes -> {"up", "exit", "down"}]
  /\ \A t \in G : past'.tell[t] = 0 /\ past'.there[t] = {}
  /\ \A t \in Slots \ G :
       /\ past'.tell[t] = past.tell[t]
       /\ past'.there[t] = past.there[t] /\ past'.seen[t] = past.seen[t]
       /\ t \in past.stale => t \in past'.stale
  /\ \A i \in Inodes :
       \/ d[i] = m[i] /\ \E s \in G : WritesTo(s, i)
       \/ d[i] = data[i] /\ m[i] = past.meant[i] /\ \A s \in G : ~WritesTo(s, i)
  /\ UNCHANGED <<tree, owner>>

\* What a stream wrote is then all there is of it.
LEMMA DropKeeps ==
  ASSUME IInv, NEW G, NEW d, NEW m, Drops(G, d, m)
  PROVE  IInv'
<1>. USE DEF Drops
<1>1. /\ data' \in [Inodes -> Seq(Nat)]
      /\ \A i \in Inodes : /\ Alive(i, file') => data'[i] = d[i] /\ past'.meant[i] = m[i]
                           /\ ~Alive(i, file') => data'[i] = past'.meant[i]
  <2>. DEFINE f == file'
  <2>1. data' = Kept(d, tree, f) /\ past'.meant = Kept(m, tree, f)
    OBVIOUS
  <2>. HIDE DEF f
  <2>2. /\ Kept(d, tree, f) \in [Inodes -> Seq(Nat)]
        /\ \A i \in Inodes : Kept(d, tree, f)[i] = IF Alive(i, f) THEN d[i] ELSE << >>
    <3>1. d \in [Inodes -> Seq(Nat)]
      OBVIOUS
    <3>. QED  BY ONLY <3>1, KeptShape, Zenon
  <2>3. \A i \in Inodes : Kept(m, tree, f)[i] = IF Alive(i, f) THEN m[i] ELSE << >>
    <3>1. m \in [Inodes -> Seq(Nat)]
      OBVIOUS
    <3>. QED  BY ONLY <3>1, KeptShape, Zenon
  <2>. QED  BY ONLY <2>1, <2>2, <2>3 DEF f
<1>2. /\ file' \in [Slots -> FileType]
      /\ \A t \in G : file'[t] = NoFile
      /\ \A t \in Slots \ G : file'[t] = file[t]
  BY FileShapes DEF IInv, TypeOK, Dropped
<1>3. TypeOK'
  BY <1>1, <1>2 DEF IInv, TypeOK
<1>4. \A t \in G : file'[t].mode = "none" /\ ~file'[t].walking
  BY <1>2, FileShapes
<1>5. \A t \in Slots : \A i :
        file'[t].mode = "wb" /\ file'[t].ino = i => t \notin G /\ WritesTo(t, i)
  BY <1>2, <1>4 DEF WritesTo
<1>6. ASSUME NEW t \in Slots \ G, file[t].ino \in Inodes
      PROVE  Alive(file[t].ino, file')
  BY <1>2, <1>6 DEF Alive
<1>7. ASSUME NEW t \in Slots
      PROVE  WriterRight(t)'
  <2>. SUFFICES ASSUME file'[t].mode = "wb" PROVE WriterRight(t)'
    BY DEF WriterRight
  <2>1. t \notin G /\ file[t].mode = "wb" /\ file'[t] = file[t]
    BY <1>2, <1>4
  <2>. DEFINE i == file[t].ino
  <2>2. /\ i \in Inodes /\ (i \in Places => tree[i] = "file")
        /\ \A u \in Slots : WritesTo(u, i) => u = t
        /\ Overlay(data[i], file[t].at, file[t].buf) = past.meant[i]
        /\ file[t].at + Len(file[t].buf) = past.tell[t]
    BY <2>1 DEF IInv, StreamsRight, WriterRight
  <2>3. data'[i] = data[i] /\ past'.meant[i] = past.meant[i]
    <3>1. \A u \in G : ~WritesTo(u, i)
      BY <2>1, <2>2
    <3>2. Alive(i, file')
      BY <1>6, <2>1, <2>2
    <3>. HIDE DEF i
    <3>3. d[i] = data[i] /\ m[i] = past.meant[i]
      BY <2>2, <3>1
    <3>. QED  BY <1>1, <2>2, <3>2, <3>3
  <2>4. \A u \in Slots : file'[u].mode = "wb" /\ file'[u].ino = i => u = t
    BY <1>5, <2>2
  <2>5. past'.tell[t] = past.tell[t] /\ tree' = tree
    BY <2>1
  <2>. HIDE DEF i
  <2>. QED  BY <2>1, <2>2, <2>3, <2>4, <2>5 DEF WriterRight, WritesTo, i
<1>8. ASSUME NEW t \in Slots
      PROVE  ReaderRight(t)'
  <2>. SUFFICES ASSUME file'[t].mode = "rb" PROVE ReaderRight(t)'
    BY DEF ReaderRight
  <2>1. t \notin G /\ file[t].mode = "rb" /\ file'[t] = file[t]
    BY <1>2, <1>4
  <2>. DEFINE i == file[t].ino
  <2>2. /\ i \in Inodes /\ file[t].at - Len(file[t].buf) = past.tell[t]
        /\ t \notin past.stale => AheadRight(t)
    BY <2>1 DEF IInv, StreamsRight, ReaderRight
  <2>3. ASSUME t \notin past'.stale
        PROVE  AheadRight(t)'
    <3>1. AheadRight(t)
      BY <2>1, <2>2, <2>3
    <3>2. \A u \in Slots : ~WritesTo(u, i)
      BY <3>1 DEF AheadRight
    <3>3. data'[i] = data[i]
      <4>1. Alive(i, file')
        BY <1>6, <2>1, <2>2
      <4>. HIDE DEF i
      <4>2. d[i] = data[i]
        BY <2>2, <3>2
      <4>. QED  BY <1>1, <2>2, <4>1, <4>2
    <3>4. \A u \in Slots : ~(file'[u].mode = "wb" /\ file'[u].ino = i)
      BY <1>5, <3>2
    <3>5. /\ past'.tell[t] = past.tell[t]
          /\ \A k \in 1..Len(file[t].buf) :
               /\ past.tell[t] + k <= Len(data[i])
               /\ file[t].buf[k] = data[i][past.tell[t] + k]
      BY <2>1, <3>1 DEF AheadRight
    <3>. HIDE DEF i
    <3>6. file'[t].ino = i
      BY <2>1 DEF i
    <3>7. \A u \in Slots : ~WritesTo(u, file[t].ino)'
      BY <3>4, <3>6 DEF WritesTo
    <3>8. \A k \in 1..Len(file'[t].buf) :
            /\ past'.tell[t] + k <= Len(data'[file'[t].ino])
            /\ file'[t].buf[k] = data'[file'[t].ino][past'.tell[t] + k]
      BY <2>1, <3>3, <3>5, <3>6
    <3>9. \A u \in Slots : ~WritesTo(u, file[t].ino)'
      BY <3>7, Zenon
    <3>. QED  BY <3>8, <3>9, Zenon DEF AheadRight
  <2>. QED  BY <2>1, <2>2, <2>3 DEF ReaderRight
<1>9. ASSUME NEW t \in Slots
      PROVE  AtRest(t)'
  BY <1>2 DEF AtRest, IInv, StreamsRight
<1>10. ASSUME NEW i \in Inodes, \A s \in Slots : ~WritesTo(s, i)'
       PROVE  data'[i] = past'.meant[i]
  <2>1. CASE Alive(i, file')
    <3>1. d[i] = m[i]
      <4>1. CASE \A s \in G : ~WritesTo(s, i)
        <5>1. \A s \in Slots : ~WritesTo(s, i)
          BY <1>2, <1>10, <4>1 DEF WritesTo
        <5>. QED  BY <4>1, <5>1 DEF IInv, Settled
      <4>. QED  BY <4>1
    <3>. QED  BY <1>1, <2>1, <3>1
  <2>. QED  BY <1>1, <2>1
<1>11. WalksRight' /\ FoldersFlat'
  BY <1>2, WalksKept
<1>. QED  BY <1>3, <1>7, <1>8, <1>9, <1>10, <1>11 DEF IInv, StreamsRight, Settled
\* close(), by the firmware or by the return from main().
LEMMA CloseKeeps ==
  ASSUME IInv, NEW s \in Slots, file' = Closed(s), past' = ClosedPast(s),
         data' = Kept(IF file[s].mode = "wb" THEN Out(s) ELSE data, tree, Closed(s)),
         UNCHANGED <<tree, owner, run>>
  PROVE  IInv'
<1>. DEFINE d == IF file[s].mode = "wb" THEN Out(s) ELSE data
            m == past.meant
            G == {s}
<1>1. data \in [Inodes -> Seq(Nat)] /\ m \in [Inodes -> Seq(Nat)] /\ past \in PastType
  BY DEF IInv, TypeOK, PastType
<1>2. /\ d \in [Inodes -> Seq(Nat)]
      /\ \A i \in Inodes :
           \/ d[i] = m[i] /\ \E t \in G : WritesTo(t, i)
           \/ d[i] = data[i] /\ m[i] = past.meant[i] /\ \A t \in G : ~WritesTo(t, i)
  <2>1. CASE file[s].mode = "wb"
    <3>. DEFINE i == file[s].ino
                o == Overlay(data[i], file[s].at, file[s].buf)
    <3>1. i \in Inodes /\ o = past.meant[i]
      BY <2>1 DEF IInv, StreamsRight, WriterRight
    <3>2. d = [data EXCEPT ![i] = o]
      BY <2>1 DEF Out
    <3>3. o \in Seq(Nat)
      BY <1>1, <3>1
    <3>. HIDE DEF d, o
    <3>4. d \in [Inodes -> Seq(Nat)] /\ d[i] = m[i] /\ \A j \in Inodes : j # i => d[j] = data[j]
      <4>. HIDE DEF i
      <4>. DEFINE S == Seq(Nat)
      <4>1. data \in [Inodes -> S] /\ o \in S
        BY <1>1, <3>3
      <4>. HIDE DEF S
      <4>2. d \in [Inodes -> S] /\ d[i] = o /\ \A j \in Inodes : j # i => d[j] = data[j]
        BY <3>1, <3>2, <4>1
      <4>. QED  BY <3>1, <4>2 DEF S
    <3>. QED  BY <2>1, <3>4 DEF WritesTo
  <2>2. CASE file[s].mode # "wb"
    BY <1>1, <2>2 DEF WritesTo
  <2>. QED  BY <2>1, <2>2
<1>. HIDE DEF d
<1>3. /\ file' = Dropped(G)
      /\ data' = Kept(d, tree, file') /\ run' \in [Nodes -> {"up", "exit", "down"}]
  BY DEF Closed, d, IInv, TypeOK, Dropped
<1>4. Kept(m, tree, file') \in [Inodes -> Seq(Nat)]
  BY <1>1, KeptShape, Zenon
<1>5. /\ past' \in PastType /\ past'.meant = Kept(m, tree, file')
      /\ \A t \in G : past'.tell[t] = 0 /\ past'.there[t] = {}
      /\ \A t \in Slots \ G :
           /\ past'.tell[t] = past.tell[t]
           /\ past'.there[t] = past.there[t] /\ past'.seen[t] = past.seen[t]
           /\ t \in past.stale => t \in past'.stale
  <2>. DEFINE M == [Inodes -> Seq(Nat)]
              P == [meant : M, stale : SUBSET Slots, tell : [Slots -> Nat],
                    there : [Slots -> SUBSET Places], seen : [Slots -> SUBSET Places]]
              k == Kept(m, tree, file')
  <2>1. past \in P /\ k \in M
    BY <1>1, <1>4 DEF PastType
  <2>2. past' = [past EXCEPT !.tell[s] = 0, !.stale = @ \ {s}, !.there[s] = {}, !.seen[s] = {},
                             !.meant = k]
    BY DEF ClosedPast
  <2>. HIDE DEF M, k
  <2>3. /\ past' \in P /\ past'.meant = k
        /\ past'.tell[s] = 0 /\ past'.there[s] = {} /\ past'.stale = past.stale \ {s}
        /\ \A t \in Slots \ G : /\ past'.tell[t] = past.tell[t]
                                /\ past'.there[t] = past.there[t] /\ past'.seen[t] = past.seen[t]
    <3>. DEFINE tell == [past.tell EXCEPT ![s] = 0]
                there == [past.there EXCEPT ![s] = {}]
                seen == [past.seen EXCEPT ![s] = {}]
    <3>1. /\ past.tell \in [Slots -> Nat] /\ past.there \in [Slots -> SUBSET Places]
          /\ past.seen \in [Slots -> SUBSET Places]
      BY <2>1
    <3>2. /\ tell \in [Slots -> Nat] /\ there \in [Slots -> SUBSET Places]
          /\ seen \in [Slots -> SUBSET Places] /\ tell[s] = 0 /\ there[s] = {}
          /\ \A t \in Slots \ G :
               tell[t] = past.tell[t] /\ there[t] = past.there[t] /\ seen[t] = past.seen[t]
      BY <3>1
    <3>3. past' = [past EXCEPT !.tell = tell, !.stale = @ \ {s}, !.there = there, !.seen = seen,
                               !.meant = k]
      BY <2>2
    <3>. HIDE DEF tell, there, seen
    <3>4. /\ past' \in P /\ past'.meant = k /\ past'.tell = tell /\ past'.there = there
          /\ past'.seen = seen /\ past'.stale = past.stale \ {s}
      BY <2>1, <3>2, <3>3
    <3>. QED  BY <3>2, <3>4
  <2>. QED  BY <2>3 DEF M, k, PastType
<1>6. G \in SUBSET Slots /\ UNCHANGED <<tree, owner>> /\ IInv
  OBVIOUS
<1>. HIDE DEF G, m
<1>7. Drops(G, d, m)
  BY ONLY <1>1, <1>2, <1>3, <1>5, <1>6, Zenon DEF Drops
<1>. QED  BY <1>6, <1>7, DropKeeps, Zenon

\* A signal ends a process at any time.
LEMMA KilledKeeps ==
  ASSUME IInv, NEW n \in Nodes, Killed(n)
  PROVE  IInv'
<1>. DEFINE G == Mine(n)
            f == [s \in Slots |-> IF s \in G THEN NoFile ELSE file[s]]
            cut == {file[s].ino : s \in {w \in G : file[w].mode = "wb"}}
            m == [i \in Inodes |-> IF i \in cut THEN data[i] ELSE past.meant[i]]
            tell == [s \in Slots |-> IF s \in G THEN 0 ELSE past.tell[s]]
            there == [s \in Slots |-> IF s \in G THEN {} ELSE past.there[s]]
            seen == [s \in Slots |-> IF s \in G THEN {} ELSE past.seen[s]]
            k == Kept(m, tree, f)
<1>1. /\ G \in SUBSET Slots /\ file' = f /\ data' = Kept(data, tree, f)
      /\ run' = [run EXCEPT ![n] = "down"] /\ UNCHANGED <<tree, owner>>
      /\ past' = [past EXCEPT !.meant = k, !.stale = @ \ G, !.tell = tell, !.there = there,
                              !.seen = seen]
  BY DEF Killed, Mine
<1>2. data \in [Inodes -> Seq(Nat)] /\ past.meant \in [Inodes -> Seq(Nat)] /\ past \in PastType
  BY DEF IInv, TypeOK, PastType
<1>. HIDE DEF G
<1>3. \A i : i \in cut <=> \E s \in G : WritesTo(s, i)
  BY DEF WritesTo
<1>. HIDE DEF cut
<1>4. /\ m \in [Inodes -> Seq(Nat)]
      /\ \A i \in Inodes :
           \/ data[i] = m[i] /\ \E s \in G : WritesTo(s, i)
           \/ data[i] = data[i] /\ m[i] = past.meant[i] /\ \A s \in G : ~WritesTo(s, i)
  <2>. DEFINE S == Seq(Nat)
  <2>1. data \in [Inodes -> S] /\ past.meant \in [Inodes -> S]
    BY <1>2
  <2>. HIDE DEF S
  <2>2. /\ m \in [Inodes -> S]
        /\ \A i \in Inodes : m[i] = IF i \in cut THEN data[i] ELSE past.meant[i]
    BY <2>1
  <2>. HIDE DEF m
  <2>. QED  BY <1>3, <2>2 DEF S
<1>. HIDE DEF m
<1>5. k \in [Inodes -> Seq(Nat)]
  BY <1>4, KeptShape, Zenon
<1>6. /\ past' \in PastType /\ past'.meant = k
      /\ \A t \in G : past'.tell[t] = 0 /\ past'.there[t] = {}
      /\ \A t \in Slots \ G :
           /\ past'.tell[t] = past.tell[t]
           /\ past'.there[t] = past.there[t] /\ past'.seen[t] = past.seen[t]
           /\ t \in past.stale => t \in past'.stale
  <2>. DEFINE M == [Inodes -> Seq(Nat)]
              P == [meant : M, stale : SUBSET Slots, tell : [Slots -> Nat],
                    there : [Slots -> SUBSET Places], seen : [Slots -> SUBSET Places]]
  <2>1. past \in P /\ k \in M
    BY <1>2, <1>5 DEF PastType
  <2>2. /\ tell \in [Slots -> Nat]
        /\ there \in [Slots -> SUBSET Places] /\ seen \in [Slots -> SUBSET Places]
    <3>1. /\ past.tell \in [Slots -> Nat] /\ past.there \in [Slots -> SUBSET Places]
          /\ past.seen \in [Slots -> SUBSET Places]
      BY <2>1
    <3>. QED  BY <3>1
  <2>3. /\ \A t \in G : tell[t] = 0 /\ there[t] = {}
        /\ \A t \in Slots \ G :
             tell[t] = past.tell[t] /\ there[t] = past.there[t] /\ seen[t] = past.seen[t]
    BY <1>1
  <2>. HIDE DEF M, k, tell, there, seen
  <2>4. /\ past' \in P /\ past'.meant = k /\ past'.tell = tell /\ past'.there = there
        /\ past'.seen = seen /\ past'.stale = past.stale \ G
    BY <1>1, <2>1, <2>2
  <2>. QED  BY <2>3, <2>4 DEF M, k, PastType
<1>7. /\ file' = Dropped(G)
      /\ data' = Kept(data, tree, file') /\ past'.meant = Kept(m, tree, file')
      /\ run' \in [Nodes -> {"up", "exit", "down"}]
  BY <1>1, <1>6 DEF IInv, TypeOK, Dropped
<1>8. UNCHANGED <<tree, owner>> /\ G \in SUBSET Slots /\ IInv
  BY <1>1
<1>. HIDE DEF f, k, tell, there, seen
<1>9. Drops(G, data, m)
  BY ONLY <1>2, <1>4, <1>6, <1>7, <1>8, Zenon DEF Drops
<1>. QED  BY <1>8, <1>9, DropKeeps, Zenon
-----------------------------------------------------------------------------
\* remove() of a file: whoever has it open keeps it, at an inode that is nobody's.

\* The streams at one inode are told to be at another.
Renamed(p, i) ==
  [s \in Slots |-> IF s \in Streams(p) THEN [file[s] EXCEPT !.ino = i] ELSE file[s]]

LEMMA RenamedShape ==
  ASSUME IInv, NEW p, NEW i \in Inodes
  PROVE  /\ Renamed(p, i) \in [Slots -> FileType]
         /\ \A t \in Slots :
              /\ Renamed(p, i)[t].mode = file[t].mode
              /\ Renamed(p, i)[t].at = file[t].at /\ Renamed(p, i)[t].buf = file[t].buf
              /\ Renamed(p, i)[t].walking = file[t].walking
              /\ Renamed(p, i)[t].left = file[t].left
              /\ Renamed(p, i)[t].ino = IF file[t].ino = p THEN i ELSE file[t].ino
<1>. DEFINE S == Seq(Nat)
            T == [mode : {"none", "rb", "wb", "dir"}, path : Places \cup {<< >>},
                  ino : Inodes \cup {NoInode}, at : Nat, buf : S, walking : BOOLEAN,
                  left : SUBSET Places]
<1>1. file \in [Slots -> T]
  BY DEF IInv, TypeOK, FileType
<1>. HIDE DEF S
<1>2. ASSUME NEW t \in Slots
      PROVE  /\ Renamed(p, i)[t] \in T
             /\ Renamed(p, i)[t].mode = file[t].mode
             /\ Renamed(p, i)[t].at = file[t].at /\ Renamed(p, i)[t].buf = file[t].buf
             /\ Renamed(p, i)[t].walking = file[t].walking
             /\ Renamed(p, i)[t].left = file[t].left
             /\ Renamed(p, i)[t].ino = IF file[t].ino = p THEN i ELSE file[t].ino
  <2>. DEFINE g == [file[t] EXCEPT !.ino = i]
  <2>1. /\ g \in T /\ g.mode = file[t].mode /\ g.at = file[t].at /\ g.buf = file[t].buf
        /\ g.walking = file[t].walking /\ g.left = file[t].left /\ g.ino = i
    BY <1>1
  <2>2. Renamed(p, i)[t] = IF file[t].ino = p THEN g ELSE file[t]
    BY DEF Renamed, Streams
  <2>. HIDE DEF g, T
  <2>. QED  BY <1>1, <2>1, <2>2
<1>3. Renamed(p, i) \in [Slots -> T]
  <2>1. Renamed(p, i) = [t \in Slots |-> Renamed(p, i)[t]]
    BY DEF Renamed
  <2>. HIDE DEF T
  <2>. QED  BY <1>2, <2>1
<1>. QED  BY <1>2, <1>3 DEF FileType, S

\* The inodes that nobody is at may change as they like, and the streams at `p' find at
\* `i' what they had.
Moves(p, i) ==
  /\ p \in Inodes /\ i \in Inodes /\ p # i /\ p \in Places /\ i \notin Places
  /\ Streams(i) = {}
  /\ file' = Renamed(p, i)
  /\ Streams(p) # {} => data'[i] = data[p] /\ past'.meant[i] = past.meant[p]
  /\ Streams(p) = {} => data'[i] = past'.meant[i]
  /\ data'[p] = past'.meant[p]
  /\ \A j \in Inodes \ {p, i} : data'[j] = data[j] /\ past'.meant[j] = past.meant[j]
  /\ past'.tell = past.tell /\ past'.stale = past.stale
  /\ \A q \in Places \ {p} : tree'[q] = tree[q]

LEMMA StreamsMoved ==
  ASSUME IInv, NEW p, NEW i, Moves(p, i)
  PROVE  StreamsRight' /\ Settled'
<1>. USE DEF Moves
<1>. DEFINE To(j) == IF j = p THEN i ELSE j
<1>1. \A t \in Slots :
        /\ file'[t].mode = file[t].mode /\ file'[t].at = file[t].at
        /\ file'[t].buf = file[t].buf /\ file'[t].ino = To(file[t].ino)
        /\ file[t].ino # i
  BY RenamedShape DEF Streams
<1>2. ASSUME NEW t \in Slots, file[t].ino \in Inodes
      PROVE  /\ data'[To(file[t].ino)] = data[file[t].ino]
             /\ past'.meant[To(file[t].ino)] = past.meant[file[t].ino]
             /\ To(file[t].ino) \in Inodes
  <2>1. CASE file[t].ino = p
    <3>1. Streams(p) # {}
      BY <2>1 DEF Streams
    <3>. QED  BY <2>1, <3>1
  <2>2. CASE file[t].ino # p
    BY <1>1, <1>2, <2>2
  <2>. QED  BY <2>1, <2>2
<1>3. \A t, u \in Slots : To(file[t].ino) = To(file[u].ino) <=> file[t].ino = file[u].ino
  BY <1>1
<1>4. ASSUME NEW t \in Slots
      PROVE  WriterRight(t)' /\ AtRest(t)'
  <2>1. WriterRight(t) /\ AtRest(t)
    BY DEF IInv, StreamsRight
  <2>2. AtRest(t)'
    BY <1>1, <2>1 DEF AtRest
  <2>. SUFFICES ASSUME file'[t].mode = "wb" PROVE WriterRight(t)'
    BY <2>2 DEF WriterRight
  <2>. DEFINE j == file[t].ino
  <2>3. /\ j \in Inodes /\ (j \in Places => tree[j] = "file")
        /\ \A u \in Slots : WritesTo(u, j) => u = t
        /\ Overlay(data[j], file[t].at, file[t].buf) = past.meant[j]
        /\ file[t].at + Len(file[t].buf) = past.tell[t]
    BY <1>1, <2>1 DEF WriterRight
  <2>4. \A u \in Slots : WritesTo(u, file[t].ino)' => u = t
    BY <1>1, <1>3, <2>3 DEF WritesTo
  <2>5. To(j) \in Places => tree'[To(j)] = "file"
    BY <2>3
  <2>6. /\ To(j) \in Inodes /\ file'[t].ino = To(j)
        /\ Overlay(data'[To(j)], file'[t].at, file'[t].buf) = past'.meant[To(j)]
        /\ file'[t].at + Len(file'[t].buf) = past'.tell[t]
    BY <1>1, <1>2, <2>3
  <2>. HIDE DEF To, j, Moves
  <2>. QED  BY <2>4, <2>5, <2>6 DEF WriterRight
<1>5. ASSUME NEW t \in Slots
      PROVE  ReaderRight(t)'
  <2>1. ReaderRight(t)
    BY DEF IInv, StreamsRight
  <2>. SUFFICES ASSUME file'[t].mode = "rb" PROVE ReaderRight(t)'
    BY DEF ReaderRight
  <2>. DEFINE j == file[t].ino
  <2>2. /\ j \in Inodes /\ file[t].at - Len(file[t].buf) = past.tell[t]
        /\ t \notin past.stale => AheadRight(t)
    BY <1>1, <2>1 DEF ReaderRight
  <2>3. /\ To(j) \in Inodes /\ file'[t].ino = To(j) /\ data'[To(j)] = data[j]
        /\ past'.tell[t] = past.tell[t]
        /\ file'[t].at - Len(file'[t].buf) = past'.tell[t]
    BY <1>1, <1>2, <2>2
  <2>4. ASSUME t \notin past'.stale
        PROVE  AheadRight(t)'
    <3>1. AheadRight(t)
      BY <2>2, <2>4
    <3>2. \A u \in Slots : ~WritesTo(u, file[t].ino)'
      BY <1>1, <1>3, <3>1 DEF AheadRight, WritesTo
    <3>3. \A k \in 1..Len(file[t].buf) :
            past.tell[t] + k <= Len(data[j]) /\ file[t].buf[k] = data[j][past.tell[t] + k]
      BY <3>1 DEF AheadRight
    <3>. HIDE DEF To, j, Moves
    <3>4. \A k \in 1..Len(file'[t].buf) :
            /\ past'.tell[t] + k <= Len(data'[file'[t].ino])
            /\ file'[t].buf[k] = data'[file'[t].ino][past'.tell[t] + k]
      BY <1>1, <2>3, <3>3
    <3>. QED  BY <3>2, <3>4, Zenon DEF AheadRight
  <2>. QED  BY <2>3, <2>4 DEF ReaderRight
<1>6. ASSUME NEW j \in Inodes, \A t \in Slots : ~WritesTo(t, j)'
      PROVE  data'[j] = past'.meant[j]
  <2>0. \A t \in Slots : ~(file[t].mode = "wb" /\ To(file[t].ino) = j)
    BY <1>1, <1>6 DEF WritesTo
  <2>1. CASE j = i /\ Streams(p) # {}
    <3>1. \A t \in Slots : ~WritesTo(t, p)
      BY <2>0, <2>1 DEF WritesTo
    <3>2. data[p] = past.meant[p]
      BY <3>1 DEF IInv, Settled
    <3>. QED  BY <2>1, <3>2
  <2>2. CASE j \notin {p, i}
    <3>1. \A t \in Slots : ~WritesTo(t, j)
      BY <2>0, <2>2 DEF WritesTo
    <3>2. data[j] = past.meant[j]
      BY <3>1 DEF IInv, Settled
    <3>. QED  BY <2>2, <3>2
  <2>. QED  BY <2>1, <2>2
<1>. QED  BY <1>4, <1>5, <1>6 DEF StreamsRight, Settled

LEMMA RemovesFileKeeps ==
  ASSUME IInv, NEW n \in Nodes, NEW path \in Files \cup Folders,
         tree' = [tree EXCEPT ![Full(n, path)] = "none"], RemovesFile(Full(n, path)),
         UNCHANGED <<owner, run>>
  PROVE  IInv'
<1>. DEFINE p == Full(n, path)
            content(d) == IF Streams(p) = {} THEN << >> ELSE d[p]
            there == [s \in Slots |-> IF p \in past.there[s] \ past.seen[s] THEN {}
                                      ELSE past.there[s]]
<1>1. PICK i \in {<<s>> : s \in Slots} :
        /\ Streams(i) = {}
        /\ file' = Renamed(p, i)
        /\ data' = [data EXCEPT ![i] = content(data), ![p] = << >>]
        /\ past' = [past EXCEPT !.meant[i] = content(past.meant), !.meant[p] = << >>,
                                !.there = there]
  BY Zenon DEF RemovesFile, Renamed
<1>2. /\ p \in Places /\ p \in Inodes /\ i \in Inodes /\ i \notin Places /\ p # i
      /\ tree[p] = "file" /\ tree' = [tree EXCEPT ![p] = "none"]
  BY FullPlace, SlotInode DEF RemovesFile
<1>. HIDE DEF p
<1>3. data \in [Inodes -> Seq(Nat)] /\ past.meant \in [Inodes -> Seq(Nat)] /\ past \in PastType
  BY DEF IInv, TypeOK, PastType
<1>. DEFINE S == Seq(Nat)
            meant == [past.meant EXCEPT ![i] = content(past.meant), ![p] = << >>]
<1>4. data \in [Inodes -> S] /\ past.meant \in [Inodes -> S] /\ << >> \in S
  BY <1>3
<1>. HIDE DEF S
<1>5. content(data) \in S /\ content(past.meant) \in S
  BY <1>2, <1>4
<1>6. /\ data' \in [Inodes -> S] /\ data'[i] = content(data) /\ data'[p] = << >>
      /\ \A j \in Inodes \ {p, i} : data'[j] = data[j]
  <2>. HIDE DEF content
  <2>. QED  BY <1>1, <1>2, <1>4, <1>5
<1>7. /\ meant \in [Inodes -> S] /\ meant[i] = content(past.meant) /\ meant[p] = << >>
      /\ \A j \in Inodes \ {p, i} : meant[j] = past.meant[j]
  <2>. HIDE DEF content
  <2>. QED  BY <1>2, <1>4, <1>5
<1>8. past' = [past EXCEPT !.meant = meant, !.there = there]
  BY <1>1
<1>. HIDE DEF meant
<1>9. /\ past' \in PastType /\ past'.meant = meant /\ past'.there = there
      /\ past'.tell = past.tell /\ past'.stale = past.stale /\ past'.seen = past.seen
  <2>. DEFINE M == [Inodes -> S]
              P == [meant : M, stale : SUBSET Slots, tell : [Slots -> Nat],
                    there : [Slots -> SUBSET Places], seen : [Slots -> SUBSET Places]]
  <2>1. past \in P /\ meant \in M
    BY <1>3, <1>7 DEF PastType, S
  <2>2. there \in [Slots -> SUBSET Places]
    <3>1. past.there \in [Slots -> SUBSET Places]
      BY <2>1
    <3>. QED  BY <3>1
  <2>. HIDE DEF M, there
  <2>3. /\ past' \in P /\ past'.meant = meant /\ past'.there = there
        /\ past'.tell = past.tell /\ past'.stale = past.stale /\ past'.seen = past.seen
    BY <1>8, <2>1, <2>2
  <2>. QED  BY <2>3 DEF M, S, PastType
<1>10. /\ tree' \in [Places -> {"none", "file", "folder"}] /\ tree'[p] = "none"
       /\ \A q \in Places \ {p} : tree'[q] = tree[q]
  BY <1>2 DEF IInv, TypeOK
<1>11. /\ file' \in [Slots -> FileType]
       /\ \A t \in Slots : file'[t].walking = file[t].walking /\ file'[t].left = file[t].left
  BY <1>1, <1>2, RenamedShape
<1>12. TypeOK'
  BY <1>6, <1>9, <1>10, <1>11 DEF IInv, TypeOK, S
<1>13. Moves(p, i)
  <2>1. /\ Streams(p) # {} => data'[i] = data[p] /\ past'.meant[i] = past.meant[p]
        /\ Streams(p) = {} => data'[i] = past'.meant[i]
    BY <1>6, <1>7, <1>9
  <2>. QED  BY <1>1, <1>2, <1>6, <1>7, <1>9, <1>10, <2>1 DEF Moves
<1>14. StreamsRight' /\ Settled'
  BY <1>13, StreamsMoved
<1>15. ASSUME NEW t \in Slots
       PROVE  WalkRight(t)'
  <2>1. WalkRight(t) /\ past.there[t] \subseteq Places
    BY DEF IInv, WalksRight, TypeOK, PastType
  <2>2. past'.there[t] = {} \/ (past'.there[t] = past.there[t]
                                 /\ p \notin past.there[t] \ past.seen[t])
    BY <1>9
  <2>. HIDE DEF there
  <2>3. CASE past'.there[t] = {}
    BY <2>3 DEF WalkRight
  <2>4. CASE past'.there[t] = past.there[t] /\ p \notin past.there[t] \ past.seen[t]
    BY <1>9, <1>10, <1>11, <2>1, <2>4 DEF WalkRight
  <2>. QED  BY <2>2, <2>3, <2>4
<1>16. FoldersFlat'
  BY <1>10 DEF IInv, FoldersFlat
<1>. QED  BY <1>12, <1>14, <1>15, <1>16 DEF IInv, WalksRight
-----------------------------------------------------------------------------
\* openNextFile(): two variables move, the folder's and the one that gets the entry.

Walked(f, left) == [f EXCEPT !.walking = TRUE, !.left = left]

\* A walk that goes on is a File.
LEMMA WalkedShape ==
  ASSUME NEW f \in FileType, NEW left \in SUBSET Places
  PROVE  /\ Walked(f, left) \in FileType
         /\ Walked(f, left).mode = f.mode /\ Walked(f, left).ino = f.ino
         /\ Walked(f, left).at = f.at /\ Walked(f, left).buf = f.buf
         /\ Walked(f, left).walking /\ Walked(f, left).left = left
<1>. DEFINE S == Seq(Nat)
            T == [mode : {"none", "rb", "wb", "dir"}, path : Places \cup {<< >>},
                  ino : Inodes \cup {NoInode}, at : Nat, buf : S, walking : BOOLEAN,
                  left : SUBSET Places]
<1>1. f \in T
  BY DEF FileType
<1>. HIDE DEF S
<1>2. Walked(f, left) \in T
  BY <1>1 DEF Walked
<1>. QED  BY <1>1, <1>2 DEF FileType, S, Walked

\* The entries of a folder are one level down.
LEMMA ChildrenShape ==
  ASSUME NEW p, NEW q \in Children(p)
  PROVE  q \in Places /\ Len(q) = 3 /\ tree[q] # "none"
BY DEF Children, Above

LEMMA NextFileKeeps ==
  ASSUME IInv, NEW s \in Slots, NEW t \in Slots, NextFile(s, t)
  PROVE  IInv'
<1>. DEFINE E == Entries(s)
            old == IF file[s].walking THEN past.there[s] ELSE E
            said == IF file[s].walking THEN past.seen[s] ELSE {}
<1>1. PICK c \in E :
        /\ file' = [file EXCEPT
             ![s].walking = TRUE, ![s].left = E \ {c},
             ![t] = IF tree[c] = "none" THEN NoFile ELSE Opened("rb", c)]
        /\ past' = [past EXCEPT
             !.there[s] = IF file[s].walking THEN @ ELSE E,
             !.seen[s] = (IF file[s].walking THEN @ ELSE {}) \cup {c},
             !.stale = IF Writers(c) = {} THEN @ ELSE @ \cup {t}]
  BY DEF NextFile
<1>. DEFINE g == IF tree[c] = "none" THEN NoFile ELSE Opened("rb", c)
            h == Walked(file[s], E \ {c})
            seen == said \cup {c}
            stale == IF Writers(c) = {} THEN past.stale ELSE past.stale \cup {t}
<1>2. /\ file[s].mode = "dir" /\ file[t] = NoFile /\ UNCHANGED <<tree, data, owner, run>>
  BY DEF NextFile
<1>3. s # t /\ file[t].mode = "none"
  BY <1>2, FileShapes
<1>4. E \subseteq Places /\ (~file[s].walking => \A q \in E : Len(q) = 3 /\ tree[q] # "none")
  <2>1. CASE file[s].walking
    <3>1. file[s] \in FileType /\ E = file[s].left
      BY <2>1, StreamShape DEF Entries
    <3>. QED  BY <2>1, <3>1 DEF FileType
  <2>2. CASE ~file[s].walking
    <3>1. E = Children(file[s].path)
      BY <2>2 DEF Entries
    <3>. QED  BY <3>1, ChildrenShape
  <2>. QED  BY <2>1, <2>2
<1>5. c \in Places /\ c \in Inodes
  BY <1>4 DEF Inodes
<1>6. file' = [file EXCEPT ![s] = h, ![t] = g]
  BY <1>1, <1>3 DEF Walked
<1>7. past' = [past EXCEPT !.there[s] = old, !.seen[s] = seen, !.stale = stale]
  BY <1>1
<1>. HIDE DEF E
<1>8. /\ h \in FileType /\ h.mode = "dir" /\ h.ino = file[s].ino /\ h.at = file[s].at
      /\ h.buf = file[s].buf /\ h.walking /\ h.left = E \ {c}
  <2>1. file[s] \in FileType /\ E \ {c} \in SUBSET Places
    BY <1>4, StreamShape
  <2>. QED  BY <1>2, <2>1, WalkedShape
<1>9. g \in FileType /\ (g = NoFile \/ g = Opened("rb", c))
  BY <1>5, FileShapes
<1>. HIDE DEF g, h
<1>10. /\ file' \in [Slots -> FileType] /\ file'[s] = h /\ file'[t] = g
       /\ \A u \in Slots : u # s /\ u # t => file'[u] = file[u]
  BY <1>3, <1>6, <1>8, <1>9 DEF IInv, TypeOK
<1>11. old \in SUBSET Places /\ seen \in SUBSET Places /\ stale \in SUBSET Slots
  BY <1>4, <1>5 DEF IInv, TypeOK, PastType
<1>. HIDE DEF old, seen, stale
<1>12. /\ past' \in PastType /\ past'.meant = past.meant /\ past'.tell = past.tell
       /\ past'.stale = stale /\ past'.there[s] = old /\ past'.seen[s] = seen
       /\ \A u \in Slots : u # s => past'.there[u] = past.there[u] /\ past'.seen[u] = past.seen[u]
  <2>. DEFINE M == [Inodes -> Seq(Nat)]
              P == [meant : M, stale : SUBSET Slots, tell : [Slots -> Nat],
                    there : [Slots -> SUBSET Places], seen : [Slots -> SUBSET Places]]
  <2>1. past \in P
    BY DEF IInv, TypeOK, PastType
  <2>. HIDE DEF M
  <2>2. /\ past' \in P /\ past'.meant = past.meant /\ past'.tell = past.tell
        /\ past'.stale = stale /\ past'.there[s] = old /\ past'.seen[s] = seen
        /\ \A u \in Slots : u # s => past'.there[u] = past.there[u] /\ past'.seen[u] = past.seen[u]
    BY <1>7, <1>11, <2>1
  <2>. QED  BY <2>2 DEF M, PastType
<1>13. TypeOK'
  BY <1>2, <1>10, <1>12 DEF IInv, TypeOK
<1>14. \A u \in Slots : u # t => SameStream(u)
  BY <1>2, <1>8, <1>10 DEF SameStream
<1>15. ReaderRight(t)' /\ AtRest(t)' /\ file'[t].mode # "wb"
  <2>1. past'.tell[t] = 0
    BY <1>2, <1>12, Free
  <2>2. CASE g = NoFile
    BY <1>10, <2>1, <2>2, FileShapes DEF ReaderRight, AtRest
  <2>3. CASE g = Opened("rb", c)
    <3>1. file'[t].mode = "rb" /\ file'[t] = Opened("rb", c)
      BY <1>5, <1>10, <2>3, FileShapes
    <3>2. Writers(c) # {} => t \in past'.stale
      BY <1>12 DEF stale
    <3>. QED  BY <1>2, <1>5, <1>14, <2>1, <3>1, <3>2, Begins DEF AtRest
  <2>. QED  BY <1>9, <2>2, <2>3
<1>16. StreamsRight' /\ Settled'
  <2>1. \A u \in Slots : u \in past.stale => u \in past'.stale
    BY <1>12 DEF stale
  <2>. QED  BY <1>2, <1>3, <1>12, <1>14, <1>15, <2>1, QuietStream
<1>17. ASSUME NEW u \in Slots
       PROVE  WalkRight(u)'
  <2>1. WalkRight(u) /\ past.there[u] \subseteq Places
    BY DEF IInv, WalksRight, TypeOK, PastType
  <2>2. CASE u = s /\ file[s].walking
    <3>1. /\ past'.there[s] = past.there[s] /\ past'.seen[s] = past.seen[s] \cup {c}
          /\ E = file[s].left
      BY <1>12, <2>2 DEF old, seen, Entries, E
    <3>. QED  BY <1>2, <1>8, <1>10, <2>1, <2>2, <3>1 DEF WalkRight
  <2>3. CASE u = s /\ ~file[s].walking
    <3>1. past'.there[s] = E /\ past'.seen[s] = {c}
      BY <1>12, <2>3 DEF old, seen
    <3>. QED  BY <1>2, <1>4, <1>8, <1>10, <2>3, <3>1 DEF WalkRight
  <2>4. CASE u = t
    <3>1. past'.there[t] = {}
      BY <1>2, <1>3, <1>12, Free
    <3>. QED  BY <2>4, <3>1 DEF WalkRight
  <2>5. CASE u # s /\ u # t
    BY <1>2, <1>10, <1>12, <2>1, <2>5 DEF WalkRight
  <2>. QED  BY <2>2, <2>3, <2>4, <2>5
<1>18. FoldersFlat'
  BY <1>2 DEF IInv, FoldersFlat
<1>. QED  BY <1>13, <1>16, <1>17, <1>18 DEF IInv, WalksRight

\* The comings and goings of a process that touch no stream.
LEMMA RunKeeps ==
  ASSUME IInv, NEW n \in Nodes, Return(n) \/ Start(n)
  PROVE  IInv'
<1>1. UNCHANGED <<tree, data, file, owner, past>> /\ run' \in [Nodes -> {"up", "exit", "down"}]
  BY DEF Return, Start, IInv, TypeOK
<1>2. TypeOK'
  BY <1>1 DEF IInv, TypeOK
<1>3. StreamsRight' /\ Settled'
  BY <1>1, StreamsStay DEF SameStream
<1>4. WalksRight' /\ FoldersFlat'
  BY <1>1, WalksKept
<1>. QED  BY <1>2, <1>3, <1>4 DEF IInv

\* Every step.
LEMMA StepKeeps == IInv /\ [Next]_vars => IInv'
<1>. SUFFICES ASSUME IInv, [Next]_vars PROVE IInv'
  OBVIOUS
<1>1. ASSUME NEW s \in Slots, Open(s)
      PROVE  IInv'
  <2>1. ASSUME NEW path \in Files \cup Folders, OpenFails(s, path)
        PROVE  IInv'
    <3>. DEFINE p == Full(owner[s], path)
    <3>1. /\ tree' = MakeFolders(tree, Above(p)) /\ UNCHANGED <<data, file, owner, run, past>>
          /\ owner[s] \in Nodes
      BY <2>1 DEF OpenFails, Opening, IInv, TypeOK
    <3>2. \A q \in Above(p) : Len(q) = 2
      BY <3>1, FullPlace, AboveLength
    <3>. HIDE DEF p
    <3>. QED  BY <3>1, <3>2, MakeKeeps
  <2>. QED  BY <1>1, <2>1, OpenReadKeeps, OpenWriteKeeps DEF Open
<1>2. ASSUME NEW n \in Nodes, Remove(n)
      PROVE  IInv'
  <2>1. PICK path \in Files \cup Folders :
          /\ tree' = [tree EXCEPT ![Full(n, path)] = "none"]
          /\ RemovesFile(Full(n, path)) \/ RemovesFolder(Full(n, path))
    BY <1>2 DEF Remove
  <2>2. UNCHANGED <<owner, run>>
    BY <1>2 DEF Remove
  <2>. QED  BY <2>1, <2>2, RemovesFileKeeps, RemovesFolderKeeps
<1>3. ASSUME NEW n \in Nodes, Mkdir(n)
      PROVE  IInv'
  <2>1. PICK path \in Folders : tree' = MakeFolders(tree, {Full(n, path)})
    BY <1>3 DEF Mkdir
  <2>. DEFINE ps == {Full(n, path)}
  <2>2. UNCHANGED <<data, file, owner, run, past>> /\ tree' = MakeFolders(tree, ps)
    BY <1>3, <2>1 DEF Mkdir
  <2>3. \A q \in ps : Len(q) = 2
    BY FullPlace
  <2>. HIDE DEF ps
  <2>. QED  BY <2>2, <2>3, MakeKeeps
<1>4. ASSUME NEW s \in Slots, Close(s) \/ ExitCloses(s)
      PROVE  IInv'
  BY <1>4, CloseKeeps DEF Close, ExitCloses
<1>5. ASSUME UNCHANGED vars
      PROVE  IInv'
  <2>1. UNCHANGED <<tree, data, file, owner, run, past>>
    BY <1>5 DEF vars
  <2>2. TypeOK'
    BY <2>1 DEF IInv, TypeOK
  <2>3. StreamsRight' /\ Settled'
    BY <2>1, StreamsStay DEF SameStream
  <2>4. WalksRight' /\ FoldersFlat'
    BY <2>1, WalksKept
  <2>. QED  BY <2>2, <2>3, <2>4 DEF IInv
<1>. QED  BY <1>1, <1>2, <1>3, <1>4, <1>5, WriteKeeps, FlushKeeps, ReadKeeps, SizeKeeps,
          SeekKeeps, WalkStopKeeps, NextFileKeeps, KilledKeeps, RunKeeps DEF Next

LEMMA Invariant == Spec => []IInv
<1>. QED  BY InitKeeps, StepKeeps, PTL DEF Spec

-----------------------------------------------------------------------------
\* The shapes of what the model keeps, for the whole of every behaviour.
THEOREM FileTypesKept == Spec => []TypeOK
<1>1. IInv => TypeOK
  BY DEF IInv
<1>. QED  BY <1>1, Invariant, PTL

\* "The identity, preferences and ACL a repeater writes are genuinely persisted": a file
\* is what was written to it, less what its writer has still to write out, and nothing is
\* missing once that is closed.  The C library may keep as much as it likes, the streams be
\* as many, and the files as long.
THEOREM WritesStored == Spec => []WrittenIsStored
<1>1. IInv => WrittenIsStored
  <2>. SUFFICES ASSUME IInv, NEW i \in Inodes
                PROVE  /\ Writers(i) = {} => data[i] = past.meant[i]
                       /\ \A s \in Writers(i) :
                            Overlay(data[i], file[s].at, file[s].buf) = past.meant[i]
    BY DEF WrittenIsStored
  <2>1. \A s : s \in Writers(i) <=> s \in Slots /\ WritesTo(s, i)
    BY DEF Writers, Streams, WritesTo
  <2>2. \A s \in Slots : WritesTo(s, i) =>
          Overlay(data[i], file[s].at, file[s].buf) = past.meant[i]
    BY DEF IInv, StreamsRight, WriterRight, WritesTo
  <2>. QED  BY <2>1, <2>2 DEF IInv, Settled
<1>. QED  BY <1>1, Invariant, PTL

\* A stream stands where it was left, and what a reader has ahead is what its file holds
\* there, unless the file is written under it: whatever the read-ahead, and wherever size()
\* has been.
THEOREM ReadsStored == Spec => []ReadsWhatIsStored
<1>1. IInv => ReadsWhatIsStored
  BY DEF IInv, StreamsRight, WriterRight, ReaderRight, AheadRight, ReadsWhatIsStored
<1>. QED  BY <1>1, Invariant, PTL

\* A walk ends, with a null File, when it has answered with all that was there when it
\* began, also when what it answered with is removed on the way.
THEOREM WalksSee == Spec => WalkSeesAll
<1>1. IInv /\ [Next]_vars =>
        [\A s \in Slots :
           WalkEnds(s) \/ (\E t \in Slots : NextFile(s, t) /\ file'[t] = NoFile) =>
             past.there[s] \subseteq past.seen[s]]_vars
  <2>. SUFFICES ASSUME IInv, NEW s \in Slots,
                       WalkEnds(s) \/ (\E t \in Slots : NextFile(s, t) /\ file'[t] = NoFile)
                PROVE  past.there[s] \subseteq past.seen[s]
    OBVIOUS
  <2>1. WalkRight(s)
    BY DEF IInv, WalksRight
  <2>2. CASE WalkEnds(s)
    <3>1. file[s].walking /\ file[s].left = {}
      BY <2>2 DEF WalkEnds, Entries
    <3>. QED  BY <2>1, <3>1 DEF WalkRight
  <2>3. ASSUME NEW t \in Slots, NextFile(s, t), file'[t] = NoFile
        PROVE  past.there[s] \subseteq past.seen[s]
    <3>. SUFFICES ASSUME file[s].walking, past.there[s] # {}
                  PROVE  FALSE
      BY <2>1 DEF WalkRight
    <3>1. PICK c \in Entries(s) :
            file' = [file EXCEPT
               ![s].walking = TRUE, ![s].left = Entries(s) \ {c},
               ![t] = IF tree[c] = "none" THEN NoFile ELSE Opened("rb", c)]
      BY <2>3 DEF NextFile
    <3>2. c \in past.there[s] \ past.seen[s]
      BY <2>1 DEF WalkRight, Entries
    <3>3. tree[c] # "none" /\ c \in Places
      BY <2>1, <3>2 DEF WalkRight, IInv, TypeOK, PastType
    <3>4. file'[t] = Opened("rb", c)
      BY <3>1, <3>3 DEF IInv, TypeOK
    <3>5. c \in Inodes
      BY <3>3 DEF Inodes
    <3>. QED  BY <2>3, <3>4, <3>5, FileShapes
  <2>. QED  BY <2>2, <2>3
<1>. QED  BY <1>1, Invariant, PTL DEF Spec, WalkSeesAll
-----------------------------------------------------------------------------
\* A node's storage is its own.

\* Only the node itself writes in its own directory.
HomeInv == \A s \in Slots : file[s].mode = "wb" /\ file[s].ino \in Home => owner[s] = Us

LEMMA HomeIn == Home \subseteq Places /\ Home \subseteq Inodes
BY FullPlace, StoreAssumption DEF Home

\* The paths of the other nodes lead elsewhere.
LEMMA OthersAway ==
  ASSUME NEW n \in Nodes, NEW path \in Files \cup Folders, Full(n, path) \in Home
  PROVE  n = Us
<1>1. \A d : \A q \in Seq(STRING) : Under(d, q)[1] = d
  BY DEF Under
<1>2. PICK q \in Files : Full(n, path) = Full(Us, q)
  BY DEF Home
<1>3. path \in Seq(STRING) /\ q \in Seq(STRING)
  BY StoreAssumption
<1>4. Full(n, path)[1] = Cwd[n] /\ Full(Us, q)[1] = Cwd[Us]
  BY <1>1, <1>3, Zenon DEF Full
<1>. QED  BY <1>2, <1>4, OwnDirectory

LEMMA ContentIs == \A x \in Seq(Nat) : x # NoContent
<1>. SUFFICES ASSUME NEW x \in Seq(Nat), x = << -1 >> PROVE FALSE
  BY DEF NoContent
<1>1. Len(x) = 1 /\ x[1] = -1
  OBVIOUS
<1>. QED  BY <1>1

Stored(p) == IF tree[p] = "file" THEN data[p] ELSE NoContent
BeingWritten(p) == \E s \in Slots : WritesTo(s, p)

LEMMA SavingIs ==
  ASSUME HomeInv
  PROVE  Saving = {p \in Home : BeingWritten(p)}
BY DEF HomeInv, Saving, BeingWritten, WritesTo, Writers, Streams, Mine

LEMMA HeldIs ==
  /\ Held = [p \in Home |-> Stored(p)]
  /\ \A p \in Home : Held[p] = Stored(p)
BY DEF Held, Stored

\* What is written, and what is stored, is the same for this place as before.
SameAt(p) ==
  /\ Stored(p)' = Stored(p)
  /\ \A t \in Slots : file'[t].mode = "wb" /\ file'[t].ino = p <=> WritesTo(t, p)

\* A step that is none of the node's business.
LEMMA HomeQuiet ==
  ASSUME HomeInv, owner' = owner, \A p \in Home : SameAt(p)
  PROVE  HomeInv' /\ [Flash!Next]_(Flash!vars)
<1>1. HomeInv'
  BY DEF HomeInv, SameAt, WritesTo
<1>2. Held' = Held
  BY DEF Held, SameAt, Stored
<1>3. Saving' = Saving
  BY DEF Saving, SameAt, WritesTo, Writers, Streams, Mine
<1>. QED  BY <1>1, <1>2, <1>3 DEF Flash!vars

\* One in which no writer moves and no file changes.
LEMMA HomeStill ==
  ASSUME HomeInv, owner' = owner, data' = data,
         \A t \in Slots :
           \/ file'[t].mode = file[t].mode /\ file'[t].ino = file[t].ino
           \/ file'[t].mode # "wb" /\ file[t].mode # "wb",
         \A p \in Places : tree'[p] = "file" <=> tree[p] = "file"
  PROVE  HomeInv' /\ [Flash!Next]_(Flash!vars)
<1>1. \A p \in Home : SameAt(p)
  BY HomeIn DEF SameAt, Stored, WritesTo
<1>. QED  BY <1>1, HomeQuiet

\* A writer writes out some of what it holds.
LEMMA HomeStores ==
  ASSUME IInv, IInv', HomeInv, NEW s \in Slots, file[s].mode = "wb", NEW d,
         data' = [data EXCEPT ![file[s].ino] = d],
         \A t \in Slots : file'[t].mode = file[t].mode /\ file'[t].ino = file[t].ino,
         UNCHANGED <<tree, owner>>
  PROVE  HomeInv' /\ [Flash!Next]_(Flash!vars)
<1>. DEFINE i == file[s].ino
<1>1. i \in Inodes /\ (i \in Places => tree[i] = "file")
  BY DEF IInv, StreamsRight, WriterRight
<1>2. \A j \in Inodes : j # i => data'[j] = data[j]
  BY DEF IInv, TypeOK
<1>3. CASE i \in Home
  <2>1. HomeInv'
    BY DEF HomeInv
  <2>2. Saving' = Saving /\ i \in Saving
    BY <1>3 DEF Saving, Writers, Streams, Mine, HomeInv
  <2>3. Held'[i] # NoContent
    <3>1. Held'[i] = data'[i]
      BY <1>1, <1>3, HomeIn DEF Held
    <3>2. data'[i] \in Seq(Nat)
      BY <1>1 DEF IInv, TypeOK
    <3>. QED  BY <3>1, <3>2, ContentIs
  <2>4. \A p \in Home \ {i} : Held'[p] = Held[p]
    BY <1>2, HomeIn DEF Held
  <2>. QED  BY <1>3, <2>1, <2>2, <2>3, <2>4 DEF Flash!Next, Flash!Store, Flash!SameBut
<1>4. CASE i \notin Home
  <2>1. \A p \in Home : SameAt(p)
    BY <1>2, <1>4, HomeIn DEF SameAt, Stored, WritesTo
  <2>. QED  BY <2>1, HomeQuiet
<1>. QED  BY <1>3, <1>4
\* A stream moved anywhere is where it was, for writing or not.
LEMMA SameMode ==
  ASSUME NEW f \in FileType, NEW at, NEW buf
  PROVE  Moved(f, at, buf).mode = f.mode /\ Moved(f, at, buf).ino = f.ino
BY DEF Moved, FileType

LEMMA WriterFlash ==
  ASSUME IInv, IInv', HomeInv, NEW s \in Slots, Write(s) \/ Flush(s) \/ Seek(s)
  PROVE  HomeInv' /\ [Flash!Next]_(Flash!vars)
<1>1. \E at, buf : file' = [file EXCEPT ![s] = Moved(file[s], at, buf)]
  <2>1. CASE Write(s)
    <3>. DEFINE all(b) == Append(file[s].buf, b)
    <3>1. PICK b, k : file' = [file EXCEPT ![s].at = @ + k,
                                  ![s].buf = SubSeq(all(b), k + 1, Len(all(b)))]
      BY <2>1, Zenon DEF Write
    <3>. DEFINE at == file[s].at + k
                buf == SubSeq(all(b), k + 1, Len(all(b)))
    <3>2. file' = [file EXCEPT ![s] = Moved(file[s], at, buf)]
      BY <3>1 DEF Moved
    <3>. HIDE DEF at, buf
    <3>. QED  BY <3>2
  <2>2. CASE Flush(s)
    <3>. DEFINE at == file[s].at + Len(file[s].buf)
    <3>1. file' = [file EXCEPT ![s] = Moved(file[s], at, << >>)]
      BY <2>2 DEF Flush, Moved
    <3>. HIDE DEF at
    <3>. QED  BY <3>1
  <2>3. CASE Seek(s)
    <3>1. PICK at : file' = [file EXCEPT ![s] = Moved(file[s], at, << >>)]
      BY <2>3 DEF Seek, Moved
    <3>. QED  BY <3>1
  <2>. QED  BY <2>1, <2>2, <2>3
<1>2. \A t \in Slots : file'[t].mode = file[t].mode /\ file'[t].ino = file[t].ino
  <2>1. PICK at, buf : file' = [file EXCEPT ![s] = Moved(file[s], at, buf)]
    BY <1>1
  <2>2. /\ file[s] \in FileType /\ file'[s] = Moved(file[s], at, buf)
        /\ \A t \in Slots : t # s => file'[t] = file[t]
    BY <2>1 DEF IInv, TypeOK
  <2>. QED  BY <2>2, SameMode
<1>3. UNCHANGED <<tree, owner>>
  BY DEF Write, Flush, Seek
<1>4. \/ UNCHANGED data
      \/ file[s].mode = "wb" /\ \E d : data' = [data EXCEPT ![file[s].ino] = d]
  BY DEF Write, Flush, Seek, Out, Writer
<1>5. CASE UNCHANGED data
  BY <1>2, <1>3, <1>5, HomeStill
<1>6. ASSUME file[s].mode = "wb", NEW d, data' = [data EXCEPT ![file[s].ino] = d]
      PROVE  HomeInv' /\ [Flash!Next]_(Flash!vars)
  BY <1>2, <1>3, <1>6, HomeStores
<1>. QED  BY <1>4, <1>5, <1>6

\* The calls that write nothing.
LEMMA ReaderFlash ==
  ASSUME IInv, HomeInv, NEW s \in Slots,
         Read(s) \/ SizeOfReader(s) \/ WalkEnds(s) \/ RewindDirectory(s)
  PROVE  HomeInv' /\ [Flash!Next]_(Flash!vars)
<1>1. UNCHANGED <<tree, data, owner>>
  BY DEF Read, SizeOfReader, WalkEnds, RewindDirectory
<1>2. \E g : file' = [file EXCEPT ![s] = g] /\ g.mode = file[s].mode /\ g.ino = file[s].ino
  <2>1. file[s] \in FileType
    BY StreamShape
  <2>2. CASE Read(s) \/ SizeOfReader(s)
    <3>1. \E at, buf : file' = [file EXCEPT ![s] = Moved(file[s], at, buf)]
      <4>1. CASE Read(s)
        <5>. DEFINE all == IF file[s].buf = << >> THEN Ahead(file[s]) ELSE file[s].buf
                    at == IF file[s].buf = << >> THEN file[s].at + Len(all) ELSE file[s].at
                    buf == Tail(all)
        <5>1. file' = [file EXCEPT ![s] = Moved(file[s], at, buf)]
          BY <4>1 DEF Read, Moved
        <5>. HIDE DEF at, buf
        <5>. QED  BY <5>1
      <4>2. CASE SizeOfReader(s)
        <5>. DEFINE at == file[s].at - Len(file[s].buf)
        <5>1. file' = [file EXCEPT ![s] = Moved(file[s], at, << >>)]
          BY <4>2 DEF SizeOfReader, Moved
        <5>. HIDE DEF at
        <5>. QED  BY <5>1
      <4>. QED  BY <2>2, <4>1, <4>2
    <3>2. PICK at, buf : file' = [file EXCEPT ![s] = Moved(file[s], at, buf)]
      BY <3>1
    <3>. DEFINE g == Moved(file[s], at, buf)
    <3>3. file' = [file EXCEPT ![s] = g] /\ g.mode = file[s].mode /\ g.ino = file[s].ino
      BY <2>1, <3>2, SameMode
    <3>. HIDE DEF g
    <3>. QED  BY <3>3
  <2>3. CASE WalkEnds(s)
    <3>. DEFINE g == [file[s] EXCEPT !.walking = FALSE]
    <3>1. file' = [file EXCEPT ![s] = g]
      BY <2>3 DEF WalkEnds
    <3>2. g.mode = file[s].mode /\ g.ino = file[s].ino
      BY <2>1 DEF FileType
    <3>. QED  BY <3>1, <3>2
  <2>4. CASE RewindDirectory(s)
    <3>. DEFINE g == [file[s] EXCEPT !.walking = FALSE, !.left = {}]
    <3>1. file' = [file EXCEPT ![s] = g]
      BY <2>4 DEF RewindDirectory
    <3>2. g.mode = file[s].mode /\ g.ino = file[s].ino
      BY <2>1 DEF FileType
    <3>. QED  BY <3>1, <3>2
  <2>. QED  BY <2>2, <2>3, <2>4
<1>3. \A t \in Slots : file'[t].mode = file[t].mode /\ file'[t].ino = file[t].ino
  BY <1>2 DEF IInv, TypeOK
<1>. QED  BY <1>1, <1>3, HomeStill

LEMMA OpenReadFlash ==
  ASSUME IInv, HomeInv, NEW s \in Slots, NEW path \in Files \cup Folders, OpenRead(s, path)
  PROVE  HomeInv' /\ [Flash!Next]_(Flash!vars)
<1>. DEFINE p == Full(owner[s], path)
            g == IF tree[p] = "folder" THEN OpenedFolder(p) ELSE Opened("rb", p)
<1>1. p \in Places /\ p \in Inodes
  BY FullPlace DEF IInv, TypeOK
<1>2. /\ file[s] = NoFile /\ file' = [file EXCEPT ![s] = g] /\ UNCHANGED <<tree, data, owner>>
  BY DEF OpenRead, Opening
<1>3. g.mode # "wb" /\ file[s].mode # "wb"
  BY <1>1, <1>2, FileShapes
<1>. HIDE DEF g
<1>4. file'[s] = g /\ \A t \in Slots : t # s => file'[t] = file[t]
  BY <1>2 DEF IInv, TypeOK
<1>. QED  BY <1>2, <1>3, <1>4, HomeStill

LEMMA NextFileFlash ==
  ASSUME IInv, HomeInv, NEW s \in Slots, NEW t \in Slots, NextFile(s, t)
  PROVE  HomeInv' /\ [Flash!Next]_(Flash!vars)
<1>1. PICK c \in Entries(s) : 
        file' = [file EXCEPT
             ![s].walking = TRUE, ![s].left = Entries(s) \ {c},
             ![t] = IF tree[c] = "none" THEN NoFile ELSE Opened("rb", c)]
  BY DEF NextFile
<1>. DEFINE g == IF tree[c] = "none" THEN NoFile ELSE Opened("rb", c)
            h == Walked(file[s], Entries(s) \ {c})
<1>2. /\ file[s].mode = "dir" /\ file[t] = NoFile /\ UNCHANGED <<tree, data, owner>>
  BY DEF NextFile
<1>3. s # t /\ file[t].mode = "none"
  BY <1>2, FileShapes
<1>4. file' = [file EXCEPT ![s] = h, ![t] = g]
  BY <1>1, <1>3 DEF Walked
<1>5. g.mode # "wb" /\ h.mode = "dir"
  <2>1. Opened("rb", c).mode = "rb"
    BY DEF Opened, NoFile
  <2>2. file[s] \in FileType
    BY StreamShape
  <2>. QED  BY <1>2, <2>1, <2>2, FileShapes DEF Walked, FileType
<1>. HIDE DEF g, h
<1>6. /\ file'[s] = h /\ file'[t] = g
      /\ \A u \in Slots : u # s /\ u # t => file'[u] = file[u]
  BY <1>3, <1>4 DEF IInv, TypeOK
<1>7. \A u \in Slots : \/ file'[u].mode = file[u].mode /\ file'[u].ino = file[u].ino
                       \/ file'[u].mode # "wb" /\ file[u].mode # "wb"
  BY <1>2, <1>3, <1>5, <1>6
<1>. QED  BY <1>2, <1>7, HomeStill

LEMMA OpenWriteFlash ==
  ASSUME IInv, HomeInv, NEW s \in Slots, NEW path \in Files, OpenWrite(s, path)
  PROVE  HomeInv' /\ [Flash!Next]_(Flash!vars)
<1>. DEFINE p == Full(owner[s], path)
            g == Opened("wb", p)
<1>1. owner[s] \in Nodes /\ p \in Places /\ p \in Inodes
  BY FullPlace DEF IInv, TypeOK
<1>2. /\ file[s] = NoFile /\ file' = [file EXCEPT ![s] = g] /\ Writers(p) = {}
      /\ tree' = [MakeFolders(tree, Above(p)) EXCEPT ![p] = "file"]
      /\ data' = [data EXCEPT ![p] = << >>] /\ UNCHANGED owner
  BY DEF OpenWrite, Opening, Truncated
<1>3. p \in Home => owner[s] = Us
  BY <1>1, OthersAway
<1>. HIDE DEF p
<1>4. g.mode = "wb" /\ g.ino = p /\ file[s].mode # "wb"
  BY <1>1, <1>2, FileShapes
<1>. HIDE DEF g
<1>5. file'[s] = g /\ \A t \in Slots : t # s => file'[t] = file[t]
  BY <1>2 DEF IInv, TypeOK
<1>6. /\ tree'[p] = "file" /\ data'[p] = << >>
      /\ \A q \in Places : q # p => (tree'[q] = "file" <=> tree[q] = "file")
      /\ \A q \in Inodes : q # p => data'[q] = data[q]
  BY <1>1, <1>2 DEF IInv, TypeOK, MakeFolders
<1>7. \A q \in Home \ {p} : SameAt(q)
  BY <1>4, <1>5, <1>6, HomeIn DEF SameAt, Stored, WritesTo
<1>8. CASE p \in Home
  <2>1. HomeInv'
    BY <1>2, <1>3, <1>4, <1>5, <1>8 DEF HomeInv
  <2>2. Held'[p] = << >>
    BY <1>6, <1>8 DEF Held
  <2>3. \A q \in Home \ {p} : Held'[q] = Held[q]
    BY <1>7 DEF Held, SameAt, Stored
  <2>4. Saving' = Saving \cup {p}
    <3>1. Saving = {q \in Home : \E t \in Slots : file[t].mode = "wb" /\ file[t].ino = q}
      BY SavingIs DEF BeingWritten, WritesTo
    <3>2. Saving' = {q \in Home : \E t \in Slots : file'[t].mode = "wb" /\ file'[t].ino = q}
      BY <2>1 DEF HomeInv, Saving, Writers, Streams, Mine
    <3>3. \A q \in Home \ {p} : \A t \in Slots :
            file'[t].mode = "wb" /\ file'[t].ino = q <=> file[t].mode = "wb" /\ file[t].ino = q
      BY <1>7 DEF SameAt, WritesTo
    <3>4. file'[s].mode = "wb" /\ file'[s].ino = p
      BY <1>4, <1>5
    <3>. QED  BY <1>8, <3>1, <3>2, <3>3, <3>4
  <2>. QED  BY <1>8, <2>1, <2>2, <2>3, <2>4 DEF Flash!Next, Flash!Begin, Flash!SameBut
<1>9. CASE p \notin Home
  BY <1>2, <1>7, <1>9, HomeQuiet
<1>. QED  BY <1>8, <1>9
\* close(), by the firmware or at the return.
LEMMA CloseFlash ==
  ASSUME IInv, IInv', HomeInv, NEW s \in Slots, file' = Closed(s),
         data' = Kept(IF file[s].mode = "wb" THEN Out(s) ELSE data, tree, Closed(s)),
         UNCHANGED <<tree, owner>>
  PROVE  HomeInv' /\ [Flash!Next]_(Flash!vars)
<1>. DEFINE i == file[s].ino
            d == IF file[s].mode = "wb" THEN Out(s) ELSE data
<1>1. \A p \in Inodes : ~(file[s].mode = "wb" /\ p = i) => d[p] = data[p]
  BY DEF Out, IInv, TypeOK
<1>2. \A p \in Home : tree[p] = "file" => data'[p] = d[p]
  BY HomeIn DEF Kept
<1>. HIDE DEF d
<1>3. /\ file'[s] = NoFile /\ file'[s].mode = "none"
      /\ \A t \in Slots : t # s => file'[t] = file[t]
  BY FileShapes DEF Closed, IInv, TypeOK
<1>4. \A p \in Home : ~(file[s].mode = "wb" /\ p = i) => SameAt(p)
  BY <1>1, <1>2, <1>3, HomeIn DEF SameAt, Stored, WritesTo
<1>5. CASE file[s].mode = "wb" /\ i \in Home
  <2>1. tree[i] = "file" /\ \A t \in Slots : WritesTo(t, i) => t = s
    BY <1>5, HomeIn DEF IInv, StreamsRight, WriterRight
  <2>2. HomeInv'
    BY <1>3 DEF HomeInv
  <2>3. Held'[i] # NoContent
    <3>1. Held'[i] = data'[i]
      BY <1>5, <2>1, HomeIn DEF Held
    <3>2. data'[i] \in Seq(Nat)
      BY <1>5, HomeIn DEF IInv, TypeOK
    <3>. QED  BY <3>1, <3>2, ContentIs
  <2>4. \A p \in Home \ {i} : Held'[p] = Held[p]
    BY <1>4 DEF Held, SameAt, Stored
  <2>5. i \in Saving /\ Saving' = Saving \ {i}
    <3>1. Saving = {q \in Home : \E t \in Slots : file[t].mode = "wb" /\ file[t].ino = q}
      BY SavingIs DEF BeingWritten, WritesTo
    <3>2. Saving' = {q \in Home : \E t \in Slots : file'[t].mode = "wb" /\ file'[t].ino = q}
      BY <2>2 DEF HomeInv, Saving, Writers, Streams, Mine
    <3>3. \A q \in Home \ {i} : \A t \in Slots :
            file'[t].mode = "wb" /\ file'[t].ino = q <=> file[t].mode = "wb" /\ file[t].ino = q
      BY <1>4 DEF SameAt, WritesTo
    <3>4. \A t \in Slots : ~(file'[t].mode = "wb" /\ file'[t].ino = i)
      BY <1>3, <2>1 DEF WritesTo
    <3>. QED  BY <1>5, <3>1, <3>2, <3>3, <3>4
  <2>. QED  BY <1>5, <2>2, <2>3, <2>4, <2>5 DEF Flash!Next, Flash!Finish, Flash!SameBut
<1>6. CASE ~(file[s].mode = "wb" /\ i \in Home)
  BY <1>4, <1>6, HomeQuiet
<1>. QED  BY <1>5, <1>6

\* remove(), of one of the node's files or of another's.
LEMMA RemovesFileFlash ==
  ASSUME IInv, HomeInv, NEW p \in Places, tree' = [tree EXCEPT ![p] = "none"],
         RemovesFile(p), UNCHANGED owner
  PROVE  HomeInv' /\ [Flash!Next]_(Flash!vars)
<1>1. PICK i \in {<<s>> : s \in Slots} :
        /\ Streams(i) = {} /\ file' = Renamed(p, i)
        /\ data' = [data EXCEPT ![i] = IF Streams(p) = {} THEN << >> ELSE data[p],
                                ![p] = << >>]
  BY Zenon DEF RemovesFile, Renamed
<1>2. i \in Inodes /\ i \notin Places
  BY SlotInode
<1>3. \A q \in Home \ {p} : data'[q] = data[q] /\ tree'[q] = tree[q]
  <2>. DEFINE x == IF Streams(p) = {} THEN << >> ELSE data[p]
  <2>1. data' = [data EXCEPT ![i] = x, ![p] = << >>]
    BY <1>1
  <2>. HIDE DEF x
  <2>. QED  BY <1>2, <2>1, HomeIn DEF IInv, TypeOK
<1>4. \A t \in Slots : /\ file'[t].mode = file[t].mode
                       /\ file'[t].ino = IF file[t].ino = p THEN i ELSE file[t].ino
  BY <1>1, <1>2, RenamedShape
<1>5. \A q \in Home \ {p} : SameAt(q)
  BY <1>2, <1>3, <1>4, HomeIn DEF SameAt, Stored, WritesTo
<1>6. CASE p \in Home
  <2>1. HomeInv'
    BY <1>2, <1>4, HomeIn DEF HomeInv
  <2>2. Held'[p] = NoContent
    BY <1>6 DEF Held, IInv, TypeOK
  <2>3. \A q \in Home \ {p} : Held'[q] = Held[q]
    BY <1>5 DEF Held, SameAt, Stored
  <2>4. Saving' = Saving \ {p}
    <3>1. Saving = {q \in Home : \E t \in Slots : file[t].mode = "wb" /\ file[t].ino = q}
      BY SavingIs DEF BeingWritten, WritesTo
    <3>2. Saving' = {q \in Home : \E t \in Slots : file'[t].mode = "wb" /\ file'[t].ino = q}
      BY <2>1 DEF HomeInv, Saving, Writers, Streams, Mine
    <3>3. \A q \in Home \ {p} : \A t \in Slots :
            file'[t].mode = "wb" /\ file'[t].ino = q <=> file[t].mode = "wb" /\ file[t].ino = q
      BY <1>5 DEF SameAt, WritesTo
    <3>4. \A t \in Slots : ~(file'[t].mode = "wb" /\ file'[t].ino = p)
      BY <1>2, <1>4, <1>6, HomeIn
    <3>. QED  BY <3>1, <3>2, <3>3, <3>4
  <2>. QED  BY <1>6, <2>1, <2>2, <2>3, <2>4 DEF Flash!Next, Flash!Delete, Flash!SameBut
<1>7. CASE p \notin Home
  BY <1>5, <1>7, HomeQuiet
<1>. QED  BY <1>6, <1>7

LEMMA KilledFlash ==
  ASSUME IInv, HomeInv, NEW n \in Nodes, Killed(n)
  PROVE  HomeInv' /\ [Flash!Next]_(Flash!vars)
<1>1. /\ file' = Dropped(Mine(n)) /\ data' = Kept(data, tree, file') /\ UNCHANGED <<tree, owner>>
  BY DEF Killed, Dropped
<1>2. /\ \A t \in Mine(n) : file'[t].mode # "wb"
      /\ \A t \in Slots \ Mine(n) : file'[t] = file[t]
  BY <1>1, FileShapes DEF Dropped, Mine
<1>3. \A p \in Home : Stored(p)' = Stored(p)
  BY <1>1, HomeIn DEF Stored, Kept
<1>4. CASE n = Us
  <2>1. HomeInv'
    BY <1>1, <1>2 DEF HomeInv, Mine
  <2>2. Held' = Held
    BY <1>3 DEF Held, Stored
  <2>3. Saving' = {}
    <3>1. \A t \in Slots : ~(file'[t].mode = "wb" /\ file'[t].ino \in Home)
      BY <1>2, <1>4 DEF HomeInv, Mine
    <3>. QED  BY <3>1 DEF Saving, Writers, Streams
  <2>. QED  BY <2>1, <2>2, <2>3 DEF Flash!Next, Flash!Stop
<1>5. CASE n # Us
  <2>1. \A t \in Mine(n) : ~(file[t].mode = "wb" /\ file[t].ino \in Home)
    BY <1>5 DEF HomeInv, Mine
  <2>2. \A p \in Home : SameAt(p)
    BY <1>2, <1>3, <2>1 DEF SameAt, WritesTo
  <2>. QED  BY <1>1, <2>2, HomeQuiet
<1>. QED  BY <1>4, <1>5

\* Folders come and go, and processes start and return.
LEMMA FolderFlash ==
  ASSUME IInv, HomeInv, UNCHANGED <<data, file, owner>>,
         \A p \in Places : tree'[p] = "file" <=> tree[p] = "file"
  PROVE  HomeInv' /\ [Flash!Next]_(Flash!vars)
BY HomeStill

LEMMA StepFlash ==
  IInv /\ IInv' /\ HomeInv /\ [Next]_vars => HomeInv' /\ [Flash!Next]_(Flash!vars)
<1>. SUFFICES ASSUME IInv, IInv', HomeInv, [Next]_vars
              PROVE  HomeInv' /\ [Flash!Next]_(Flash!vars)
  OBVIOUS
<1>1. ASSUME NEW s \in Slots, Open(s)
      PROVE  HomeInv' /\ [Flash!Next]_(Flash!vars)
  <2>1. ASSUME NEW path \in Files \cup Folders, OpenFails(s, path)
        PROVE  HomeInv' /\ [Flash!Next]_(Flash!vars)
    <3>1. UNCHANGED <<data, file, owner>>
      BY <2>1 DEF OpenFails, Opening
    <3>2. \A p \in Places : tree'[p] = "file" <=> tree[p] = "file"
      BY <2>1 DEF OpenFails, MakeFolders
    <3>. QED  BY <3>1, <3>2, FolderFlash
  <2>. QED  BY <1>1, <2>1, OpenReadFlash, OpenWriteFlash DEF Open
<1>2. ASSUME NEW n \in Nodes, Remove(n)
      PROVE  HomeInv' /\ [Flash!Next]_(Flash!vars)
  <2>1. PICK path \in Files \cup Folders :
          /\ tree' = [tree EXCEPT ![Full(n, path)] = "none"]
          /\ RemovesFile(Full(n, path)) \/ RemovesFolder(Full(n, path))
    BY <1>2 DEF Remove
  <2>. DEFINE p == Full(n, path)
  <2>2. UNCHANGED owner /\ p \in Places
    BY <1>2, FullPlace DEF Remove
  <2>. HIDE DEF p
  <2>3. CASE RemovesFile(p)
    BY <2>1, <2>2, <2>3, RemovesFileFlash DEF p
  <2>4. CASE RemovesFolder(p)
    <3>1. UNCHANGED <<data, file, owner>> /\ tree[p] = "folder"
      BY <2>2, <2>4 DEF RemovesFolder
    <3>2. \A q \in Places : tree'[q] = "file" <=> tree[q] = "file"
      BY <2>1, <2>2, <3>1 DEF IInv, TypeOK, p
    <3>. QED  BY <3>1, <3>2, FolderFlash
  <2>. QED  BY <2>1, <2>3, <2>4 DEF p
<1>3. ASSUME NEW n \in Nodes, Mkdir(n)
      PROVE  HomeInv' /\ [Flash!Next]_(Flash!vars)
  <2>1. UNCHANGED <<data, file, owner>>
    BY <1>3 DEF Mkdir
  <2>2. \A p \in Places : tree'[p] = "file" <=> tree[p] = "file"
    BY <1>3 DEF Mkdir, MakeFolders
  <2>. QED  BY <2>1, <2>2, FolderFlash
<1>4. ASSUME NEW n \in Nodes, Return(n) \/ Start(n)
      PROVE  HomeInv' /\ [Flash!Next]_(Flash!vars)
  BY <1>4, FolderFlash DEF Return, Start
<1>5. ASSUME NEW s \in Slots, Close(s) \/ ExitCloses(s)
      PROVE  HomeInv' /\ [Flash!Next]_(Flash!vars)
  BY <1>5, CloseFlash DEF Close, ExitCloses
<1>6. ASSUME UNCHANGED vars
      PROVE  HomeInv' /\ [Flash!Next]_(Flash!vars)
  BY <1>6, FolderFlash DEF vars
<1>. QED  BY <1>1, <1>2, <1>3, <1>4, <1>5, <1>6, WriterFlash, ReaderFlash, NextFileFlash,
          KilledFlash DEF Next

\* A file of a node changes while the node saves it and at no other time, whatever the
\* other processes on the host do, and however any of them ends: the directory, the stdio
\* buffers and the neighbours implement a flash that is the node's alone.
THEOREM StorageIsOwn == Spec => KeepsFlash
<1>1. Init => HomeInv /\ Flash!Init
  <2>. SUFFICES ASSUME Init PROVE HomeInv /\ Flash!Init
    OBVIOUS
  <2>1. \A s \in Slots : file[s].mode # "wb"
    BY FileShapes DEF Init
  <2>. QED  BY <2>1 DEF HomeInv, Flash!Init, Saving, Writers, Streams
<1>. QED  BY <1>1, StepFlash, Invariant, PTL DEF Spec, KeepsFlash, Flash!Spec
=============================================================================
