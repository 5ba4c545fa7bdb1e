------------------------------- MODULE FileStore -------------------------------
(***************************************************************************)
(* InternalFileSystem.h: the flash of a node is a directory of the host,   *)
(* and a File is a stdio stream.  Several nodes' processes run on one      *)
(* host, each in a directory of its own; the firmware of each opens, reads,*)
(* writes, seeks, closes, removes and walks in any order, and a process    *)
(* may return from main, which writes its buffers out, or be killed, which *)
(* loses them, between any two calls.                                      *)
(*                                                                         *)
(* The C library decides when a buffer is written out; that is a choice    *)
(* here.  A File is used by one variable only, and not after close().      *)
(* root_ is empty: setRoot() is called nowhere in the repository.          *)
(***************************************************************************)
EXTENDS Integers, Sequences, FiniteSets

CONSTANTS
  Nodes,       \* the processes
  Us,          \* the one whose storage KeepsFlash looks at
  Cwd,         \* the directory each was started in
  Files,       \* what the firmware stores under: sequences of one name or two
  Folders,     \* the directories it makes and walks: one name
  Slots,       \* File variables
  Owners,      \* which node each of them may belong to
  Bytes,       \* values of a byte
  WriteCap,    \* bytes the C library keeps of what is written
  ReadCap,     \* bytes it reads ahead
  MaxLen       \* bound: bytes in a file, for each node

ASSUME StoreAssumption ==
  /\ Us \in Nodes /\ Cwd \in [Nodes -> STRING] /\ Owners \subseteq [Slots -> Nodes]
  /\ Files \cup Folders \subseteq Seq(STRING)
  /\ \A p \in Files : Len(p) \in {1, 2}
  /\ \A p \in Folders : Len(p) = 1 /\ p \notin Files
  /\ Bytes \subseteq Nat /\ WriteCap \in Nat /\ ReadCap \in Nat \ {0}
  /\ MaxLen \in [Nodes -> Nat]

\* The simulator runs a node in a directory that is no other node's.
ASSUME OwnDirectory == \A n \in Nodes \ {Us} : Cwd[n] # Cwd[Us]

VARIABLES
  tree,      \* what each place holds
  data,      \* the bytes of each file
  file,      \* the File variables with their streams
  owner,     \* the node each belongs to
  run,       \* each process: up, in exit(), or down
  past       \* history, see the paragraph below

vars == <<tree, data, file, owner, run, past>>

\* Every directory of the host that some path leads to.
Dirs == {Cwd[n] : n \in Nodes} \cup {"/"}
Under(dir, path) == <<dir>> \o path
Places == {Under(d, p) : d \in Dirs, p \in Files \cup Folders}

\* Mutant of Full: a path that begins with a slash stays one.
FullAbsolute(n, path) == Under("/", path)
\* The leading slash goes, and what is left counts from the working directory.
Full(n, path) == Under(Cwd[n], path)

\* The folder a place is in, unless it is the working directory itself.
Above(p) == IF Len(p) = 3 THEN {SubSeq(p, 1, 2)} ELSE {}
Children(p) == {q \in Places : p \in Above(q) /\ tree[q] # "none"}

\* ensureDir() makes what is missing, and reports success whatever comes of it.
MakeFolders(t, ps) ==
  [q \in Places |-> IF q \in ps /\ t[q] = "none" THEN "folder" ELSE t[q]]

\* A file is told by its place, and once removed, while it is open, by a File variable.
NoInode == << >>
Inodes == Places \cup {<<s>> : s \in Slots}

\* A File: its mode and its stream, or the path and the walk of a folder.  `at' is where
\* the stream stands on the disk: what is to be written goes there, what was read ahead
\* ends there.
NoFile == [mode |-> "none", path |-> << >>, ino |-> NoInode, at |-> 0, buf |-> << >>,
           walking |-> FALSE, left |-> {}]
Opened(mode, ino) == [NoFile EXCEPT !.mode = mode, !.ino = ino]
OpenedFolder(p) == [NoFile EXCEPT !.mode = "dir", !.path = p]

Mine(n) == {s \in Slots : owner[s] = n}
Up(s) == run[owner[s]] = "up"
Reader(s) == Up(s) /\ file[s].mode = "rb"
Writer(s) == Up(s) /\ file[s].mode = "wb"
Streams(i) == {s \in Slots : file[s].ino = i}
Readers(i) == {s \in Streams(i) : file[s].mode = "rb"}
Writers(i) == {s \in Streams(i) : file[s].mode = "wb"}

\* `bytes' written at an offset; a gap reads as zeroes.
Overlay(old, at, bytes) ==
  IF bytes = << >> THEN old
  ELSE [i \in 1..(IF Len(old) > at + Len(bytes) THEN Len(old) ELSE at + Len(bytes)) |->
         IF i > at /\ i <= at + Len(bytes) THEN bytes[i - at]
         ELSE IF i <= Len(old) THEN old[i] ELSE 0]

\* A file nobody names and nobody has open is gone.
Kept(d, t, f) ==
  [i \in Inodes |-> IF (i \in Places /\ t[i] = "file") \/ \E s \in Slots : f[s].ino = i
                    THEN d[i] ELSE << >>]

Init ==
  /\ tree = [p \in Places |-> "none"]
  /\ data = [i \in Inodes |-> << >>]
  /\ file = [s \in Slots |-> NoFile]
  /\ owner \in Owners
  /\ run = [n \in Nodes |-> IF Mine(n) = {} THEN "down" ELSE "up"]
  /\ past = [meant |-> data, stale |-> {}, tell |-> [s \in Slots |-> 0],
             there |-> [s \in Slots |-> {}], seen |-> [s \in Slots |-> {}]]

-----------------------------------------------------------------------------
\* What the firmware may believe: `meant' is each file as if there were no buffers;
\* `tell' is where a stream should stand; `stale' are the readers whose file is
\* written while they have it open; `seen' is what a walk has answered with, `there'
\* what it must, all it began with unless some of it is removed before its turn.

Meant(i, at, bytes) == Overlay(past.meant[i], at, bytes)

\* Mutant of Out: the buffer is dropped.
OutDropped(s) == data
\* The whole buffer written out.
Out(s) == [data EXCEPT ![file[s].ino] = Overlay(@, file[s].at, file[s].buf)]

\* Adafruit_LittleFS::open() makes the folder first, for reading as well.
Opening(s, p) ==
  /\ Up(s) /\ file[s] = NoFile
  /\ UNCHANGED <<owner, run>>

OpenRead(s, path) ==
  LET p == Full(owner[s], path)
  IN /\ Opening(s, p)
     /\ tree[p] # "none"
     /\ file' = [file EXCEPT ![s] = IF tree[p] = "folder" THEN OpenedFolder(p)
                                    ELSE Opened("rb", p)]
     /\ past' = [past EXCEPT !.stale = IF Writers(p) = {} THEN @ ELSE @ \cup {s}]
     /\ UNCHANGED <<tree, data>>

\* fopen() fails, and the File is false; the folder has been made all the same.
OpenFails(s, path) ==
  LET p == Full(owner[s], path)
  IN /\ Opening(s, p)
     /\ tree[p] = "none"
     /\ tree' = MakeFolders(tree, Above(p))
     /\ UNCHANGED <<data, file, past>>

Truncated(d, i) == [d EXCEPT ![i] = << >>]

\* A file that is there is emptied under whoever reads it.  The firmware does not open
\* for writing what it has open for writing.
OpenWrite(s, path) ==
  LET p == Full(owner[s], path)
  IN /\ Opening(s, p)
     /\ Writers(p) = {}
     /\ tree' = [MakeFolders(tree, Above(p)) EXCEPT ![p] = "file"]
     /\ file' = [file EXCEPT ![s] = Opened("wb", p)]
     /\ data' = Truncated(data, p)
     /\ past' = [past EXCEPT !.meant[p] = << >>, !.stale = @ \cup Readers(p)]

Open(s) ==
  \/ \E path \in Files \cup Folders : OpenRead(s, path) \/ OpenFails(s, path)
  \/ \E path \in Files : OpenWrite(s, path)

\* How much of its buffer the library writes out: as much as it likes, but it never keeps
\* more than the buffer holds.
WrittenOut(buf) == {k \in 0..Len(buf) : Len(buf) - k <= WriteCap}

Write(s) ==
  /\ Writer(s)
  /\ \E b \in Bytes :
       LET f == file[s]
           all == Append(f.buf, b)
       IN /\ f.at + Len(all) <= MaxLen[owner[s]]
          /\ \E k \in WrittenOut(all) :
               /\ data' = [data EXCEPT ![f.ino] = Overlay(@, f.at, SubSeq(all, 1, k))]
               /\ file' = [file EXCEPT ![s].at = @ + k,
                                       ![s].buf = SubSeq(all, k + 1, Len(all))]
          /\ past' = [past EXCEPT !.meant[f.ino] = Meant(f.ino, past.tell[s], << b >>),
                                  !.tell[s] = @ + 1,
                                  !.stale = @ \cup Readers(f.ino)]
  /\ UNCHANGED <<tree, owner, run>>

\* flush(), and size() of a file that is written, which seeks to the end and back.
Flush(s) ==
  /\ Writer(s) /\ file[s].buf # << >>
  /\ data' = Out(s)
  /\ file' = [file EXCEPT ![s].at = @ + Len(file[s].buf), ![s].buf = << >>]
  /\ UNCHANGED <<tree, owner, run, past>>

\* Mutant of Ahead: what is read ahead begins where the last read-ahead did.
AheadAgain(f) ==
  SubSeq(data[f.ino], 1, IF Len(data[f.ino]) < ReadCap THEN Len(data[f.ino]) ELSE ReadCap)
\* What a reader with an empty buffer gets of the file at once.
Ahead(f) ==
  LET have == Len(data[f.ino])
  IN SubSeq(data[f.ino], f.at + 1, IF f.at + ReadCap < have THEN f.at + ReadCap ELSE have)

\* read(), until the file is at its end.
Read(s) ==
  /\ Reader(s)
  /\ LET f == file[s]
         buf == IF f.buf = << >> THEN Ahead(f) ELSE f.buf
     IN /\ buf # << >>
        /\ file' = [file EXCEPT ![s].buf = Tail(buf),
                                ![s].at = IF f.buf = << >> THEN @ + Len(buf) ELSE @]
  /\ past' = [past EXCEPT !.tell[s] = @ + 1]
  /\ UNCHANGED <<tree, data, owner, run>>

\* size() and available() of a reader seek to the end and back to where it stands;
\* what was read ahead may have to be read again.
SizeOfReader(s) ==
  /\ Reader(s)
  /\ file' = [file EXCEPT ![s].at = @ - Len(file[s].buf), ![s].buf = << >>]
  /\ UNCHANGED <<tree, data, owner, run, past>>

Seek(s) ==
  /\ \E at \in 0..MaxLen[owner[s]] :
       /\ \/ Reader(s) /\ UNCHANGED data
          \/ Writer(s) /\ data' = Out(s)
       /\ file' = [file EXCEPT ![s].at = at, ![s].buf = << >>]
       /\ past' = [past EXCEPT !.tell[s] = at]
  /\ UNCHANGED <<tree, owner, run>>

\* What is left of the streams when one is closed.
Closed(s) == [file EXCEPT ![s] = NoFile]
ClosedPast(s) ==
  [past EXCEPT !.tell[s] = 0, !.stale = @ \ {s}, !.there[s] = {}, !.seen[s] = {},
               !.meant = Kept(@, tree, Closed(s))]

Close(s) ==
  /\ Up(s) /\ file[s] # NoFile
  /\ file' = Closed(s)
  /\ data' = Kept(IF file[s].mode = "wb" THEN Out(s) ELSE data, tree, Closed(s))
  /\ past' = ClosedPast(s)
  /\ UNCHANGED <<tree, owner, run>>

\* remove(): the name goes, an open stream keeps its file.  A folder must be empty.
RemovesFile(p) ==
  /\ tree[p] = "file"
  /\ \E i \in {<<s>> : s \in Slots} :
       /\ Streams(i) = {}
       /\ file' = [s \in Slots |-> IF s \in Streams(p) THEN [file[s] EXCEPT !.ino = i]
                                   ELSE file[s]]
       /\ data' = [data EXCEPT ![i] = IF Streams(p) = {} THEN << >> ELSE data[p], ![p] = << >>]
       /\ past' = [past EXCEPT
            !.meant[i] = IF Streams(p) = {} THEN << >> ELSE past.meant[p], !.meant[p] = << >>,
            !.there = [s \in Slots |-> IF p \in @[s] \ past.seen[s] THEN {} ELSE @[s]]]

RemovesFolder(p) ==
  /\ tree[p] = "folder" /\ Children(p) = {}
  /\ UNCHANGED <<data, file, past>>

Remove(n) ==
  /\ run[n] = "up"
  /\ \E path \in Files \cup Folders :
       /\ tree' = [tree EXCEPT ![Full(n, path)] = "none"]
       /\ RemovesFile(Full(n, path)) \/ RemovesFolder(Full(n, path))
  /\ UNCHANGED <<owner, run>>

Mkdir(n) ==
  /\ run[n] = "up"
  /\ \E path \in Folders : tree' = MakeFolders(tree, {Full(n, path)})
  /\ UNCHANGED <<data, file, owner, run, past>>

\* openNextFile(): the first call reads the names, each call answers with one of them,
\* and the call after the last with a null File, which ends the walk.  A name that is
\* gone by then is a null File too.

\* Mutant of Entries: the walk counts its answers against the folder as it is.
EntriesCounted(s) ==
  IF ~file[s].walking THEN Children(file[s].path)
  ELSE IF Cardinality(past.seen[s]) < Cardinality(Children(file[s].path))
       THEN file[s].left ELSE {}
Entries(s) == IF file[s].walking THEN file[s].left ELSE Children(file[s].path)

NextFile(s, t) ==
  /\ Up(s) /\ owner[t] = owner[s] /\ file[s].mode = "dir" /\ file[t] = NoFile
  /\ Entries(s) # {}
  /\ \E c \in Entries(s) :
       /\ file' = [file EXCEPT
            ![s].walking = TRUE, ![s].left = Entries(s) \ {c},
            ![t] = IF tree[c] = "none" THEN NoFile ELSE Opened("rb", c)]
       /\ past' = [past EXCEPT
            !.there[s] = IF file[s].walking THEN @ ELSE Entries(s),
            !.seen[s] = (IF file[s].walking THEN @ ELSE {}) \cup {c},
            !.stale = IF Writers(c) = {} THEN @ ELSE @ \cup {t}]
  /\ UNCHANGED <<tree, data, owner, run>>

WalkEnds(s) ==
  /\ Up(s) /\ file[s].mode = "dir" /\ file[s].walking /\ Entries(s) = {}
  /\ file' = [file EXCEPT ![s].walking = FALSE]
  /\ past' = [past EXCEPT !.there[s] = {}, !.seen[s] = {}]
  /\ UNCHANGED <<tree, data, owner, run>>

RewindDirectory(s) ==
  /\ Up(s) /\ file[s].walking
  /\ file' = [file EXCEPT ![s].walking = FALSE, ![s].left = {}]
  /\ past' = [past EXCEPT !.there[s] = {}, !.seen[s] = {}]
  /\ UNCHANGED <<tree, data, owner, run>>

-----------------------------------------------------------------------------
\* The end of a process.  A return from main() writes the streams out one after the
\* other; a signal may come at any time, then as well, and writes nothing.

Return(n) ==
  /\ run[n] = "up" /\ run' = [run EXCEPT ![n] = "exit"]
  /\ UNCHANGED <<tree, data, file, owner, past>>

ExitCloses(s) ==
  /\ run[owner[s]] = "exit" /\ file[s] # NoFile
  /\ file' = Closed(s)
  /\ data' = Kept(IF file[s].mode = "wb" THEN Out(s) ELSE data, tree, Closed(s))
  /\ past' = ClosedPast(s)
  /\ UNCHANGED <<tree, owner, run>>

\* What the process was writing is what has reached the file by then.
Killed(n) ==
  LET f == [s \in Slots |-> IF s \in Mine(n) THEN NoFile ELSE file[s]]
      cut == {file[s].ino : s \in {w \in Mine(n) : file[w].mode = "wb"}}
  IN /\ run[n] \in {"up", "exit"} /\ run' = [run EXCEPT ![n] = "down"]
     /\ file' = f
     /\ data' = Kept(data, tree, f)
     /\ past' = [past EXCEPT
          !.meant = Kept([i \in Inodes |-> IF i \in cut THEN data[i] ELSE @[i]], tree, f),
          !.stale = @ \ Mine(n),
          !.tell = [s \in Slots |-> IF s \in Mine(n) THEN 0 ELSE @[s]],
          !.there = [s \in Slots |-> IF s \in Mine(n) THEN {} ELSE @[s]],
          !.seen = [s \in Slots |-> IF s \in Mine(n) THEN {} ELSE @[s]]]
     /\ UNCHANGED <<tree, owner>>

Start(n) ==
  /\ run[n] \in {"exit", "down"} /\ Mine(n) # {} /\ \A s \in Mine(n) : file[s] = NoFile
  /\ run' = [run EXCEPT ![n] = "up"]
  /\ UNCHANGED <<tree, data, file, owner, past>>

Next ==
  \/ \E s \in Slots : \/ Open(s) \/ Write(s) \/ Flush(s) \/ Read(s) \/ SizeOfReader(s)
                       \/ Seek(s) \/ Close(s) \/ WalkEnds(s) \/ RewindDirectory(s)
                       \/ ExitCloses(s)
  \/ \E s, t \in Slots : NextFile(s, t)
  \/ \E n \in Nodes : Remove(n) \/ Mkdir(n) \/ Return(n) \/ Killed(n) \/ Start(n)

Spec == Init /\ [][Next]_vars

-----------------------------------------------------------------------------
\* "The identity, preferences and ACL a repeater writes are genuinely persisted"
\* (src/README.md 156-159): a file is what was written to it, in the order it was
\* written, less what its writer still has in its buffer; and once that is closed, by
\* the firmware or by the return from main(), nothing is missing.
WrittenIsStored ==
  \A i \in Inodes :
    /\ Writers(i) = {} => data[i] = past.meant[i]
    /\ \A s \in Writers(i) :
         Overlay(data[i], file[s].at, file[s].buf) = past.meant[i]

\* read() answers with the byte at the stream's position, and the position moves by
\* what was read, however the library reads ahead and wherever size() has been: what
\* it has read ahead is what the file holds there.  Unless the file is written under it.
ReadsWhatIsStored ==
  \A s \in Slots :
    /\ file[s].mode = "wb" => file[s].at + Len(file[s].buf) = past.tell[s]
    /\ file[s].mode = "rb" =>
         /\ file[s].at - Len(file[s].buf) = past.tell[s]
         /\ s \notin past.stale =>
              \A i \in 1..Len(file[s].buf) :
                 /\ past.tell[s] + i <= Len(data[file[s].ino])
                 /\ file[s].buf[i] = data[file[s].ino][past.tell[s] + i]

\* A null File ends a walk, and by then it has answered with every entry that was there
\* when it began: also if the firmware removes, on its way, what it has been given.
WalkSeesAll ==
  [][\A s \in Slots :
       WalkEnds(s) \/ (\E t \in Slots : NextFile(s, t) /\ file'[t] = NoFile) =>
         past.there[s] \subseteq past.seen[s]]_vars

\* A node's storage is its own: a file of it changes while that node saves it and at
\* no other time, whatever its neighbours do and however anybody ends.
NoContent == << -1 >>
Home == {Full(Us, path) : path \in Files}
Held == [p \in Home |-> IF tree[p] = "file" THEN data[p] ELSE NoContent]
Saving == {p \in Home : Writers(p) \cap Mine(Us) # {}}

Flash == INSTANCE FlashStore WITH Names <- Home, files <- Held, saving <- Saving
KeepsFlash == Flash!Spec
=============================================================================
