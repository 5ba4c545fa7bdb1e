# meshcore-native: a verification project

meshcore-native builds MeshCore firmware as a host program whose radio is a
virtual SX1262 chip, in lockstep with a simulation engine at the other end of a
socket. A second program, the radio server, offers the same chip to firmware
that runs on an emulated MCU. A release pipeline builds both for whatever
upstream publishes. This directory holds TLA+ modules of that system, the TLC
configurations that check them on small instances, and proofs of what matters
most about the chip, its two transports and its modem settings, the native node and
the emulated one, their sockets, the file store and the release pipeline.

The claim behind the code is that a node in the simulation is the node on the
hardware: what the firmware sends goes on the air once and whole, what the air
delivers is heard once and whole, listen-before-talk hears what is there, an
emulated node is the same radio as a native one, engine and node are never in
different milliseconds, what the firmware stores is there when it comes back,
and a published release is what it says it is. The properties here are those
claims.

## 1. The system

| part | source | state | operations |
|---|---|---|---|
| Virtual SX1262 | `variants/host/VirtualSX1262.{cpp,h}` | mode, IRQ register and mask, one 256-byte data buffer for both directions, lengths, staged transmission (`pendingTx`), inbox, modem settings, detector latches, clock, counters | the simulator's: `tick`, `setChannelBusy`, `transmitFinished`, `inbox`, the front-end pin; the driver's: SPI commands |
| SPI transports | the same, lines 228-295 | the transaction in flight (`txn_`) | `spiTransfer` (a whole buffer); `beginTransaction`, `transferByte`, `endTransaction` (a byte at a time) |
| SimHal | `variants/host/SimHal.h` | `localUs_`, the chip, the interrupt handler | `beginTick`, `servicePendingIrq`, `spiTransfer`, `advanceUs` |
| Native bridge | `bridge/main.cpp` | `g_sim_millis`, the real-time clock, console queues | one case of the message loop per kind; `drainTx`, `flushConsole` |
| Radio server | `bridge/radioserver.cpp` | `gChip`, `gSimMillis` under `gChipMu`, two sockets | `serviceQemu`, `serviceBridge`, the poll loop |
| RadioLib SX126x driver | `vendor/RadioLib/src/modules/SX126x` | its own settings | the command sequences of startReceive, startTransmit, finishTransmit, readData, getIrqFlags |
| MeshCore firmware | not in this repository | the dispatcher and the radio wrapper | `loop()` |
| Simulation engine | not in this repository | what is on the air, network time | `kFrame`, `kTxDone`, `kChannelBusy`, `kTick` |
| Console | `variants/host/HostArduino.h`, `main.cpp` 100-120 | `consoleIn`, `consoleOut` | `available`, `read`, `print`; `kConsoleIn`, `flushConsole` |
| Modem settings | `SX126x.cpp`, `VirtualSX1262.cpp`, `HostRadio.cpp`, `main.cpp` | what the driver believes, what the chip decoded, three airtime formulas | `begin`, the setters, `SetModulationParams`, `SetPacketParams` |
| Filesystem shim | `variants/host/InternalFileSystem.h`, `lfs_shim.h` | a directory of the host, stdio streams | `open`, `read`, `write`, `seek`, `flush`, `close`, `remove`, `mkdir`, the walk of a directory |
| Release pipeline | `.github/workflows/build.yml`, `build.sh`, `platforms.json` | releases (a body that names commits, and assets), runs under way | `discover`, the build matrices, `publish`, `publish-radioserver` |
| Board, sensors, clock, random numbers, encoders | `variants/host/*` | constants and glue | not modelled |

**How they interact.** The engine sends its messages and then a tick, and waits
for the acknowledgement. On a native node the bridge then runs one `loop()` of
the firmware for every millisecond (`main.cpp` 274-296): it tells SimHal the
time, SimHal tells the chip, a pending interrupt is served, the firmware runs
and talks to the chip by whole-buffer transfers, and `drainTx()` writes what it
staged to the engine. SPI takes time as well: `spiTransfer` advances SimHal's
clock, which ticks the chip, so SimHal's clock can be ahead of the network's.
An emulated node is not held still: its firmware runs on the emulator's time
and reaches the chip one byte at a time through a second socket, and the radio
server takes whatever of the engine's messages has come between two bytes.

The firmware's flash is a directory of the host: a `File` is a stdio stream or
the walk of a directory, and every node on the host is a process with a working
directory of its own. The pipeline stands beside all this: somebody starts it,
it reads from the bodies of the releases what is finished, builds the rest, and
replaces each release in place.

**What is hard.**

- *One buffer.* Reception and transmission share it, the chip does not ask
  whether the last frame was read, and RadioLib stages a payload while the chip
  still receives. Correct: no frame lost, torn, or sent in another's place.
- *Interrupts.* They are raised between ticks, served at a point of the loop,
  masked, cleared all at once by the driver. Correct: none is missed, none is
  taken for another.
- *The detector.* Latches re-armed by clearing a flag and by a channel that
  falls silent, not by leaving receive mode. Correct: no tick in receive mode
  misses a signal.
- *Transmission's end.* `SetTx` → frame drained → engine plays it → `kTxDone`
  → interrupt → driver, with firmware that may give up at any point. Correct: a
  driver that waits has a chip that will answer; one waveform at a time.
- *Three clocks.* Network time, SimHal's, the real-time clock. Correct: none
  goes back, an acknowledgement means all are there, exactly one per tick.
- *Two transports.* A table says which commands are answered as they are
  clocked; the rest act at the release. Correct: same replies, same chip.
- *Interleaving.* On the radio server any message of the engine's may come
  between two bytes. Correct: what the driver believes agrees with the chip
  whenever no command is outstanding; ticks are answered however busy the
  emulator is.
- *The socket.* Blocking reads and writes that move any part of a message, on
  one thread, and an engine that may be gone at any byte. Correct: messages
  arrive whole, once and in order; nobody waits for ever; a node does not
  outlive its engine. The radio server has two such sockets and one thread.
- *Settings kept twice.* The driver keeps what the firmware asked for, the chip
  what it decoded from a code, and three formulas compute the airtime from one
  or the other. Correct: they agree after every request, refused ones too.
- *Buffers under the files.* What is written may be in the C library and not on
  the disk; a second stream, a removal or a kill comes between. Correct: what
  was written and closed is what is read, and no node touches another's storage.
- *A release replaced in place.* A leg, a command or the run can end anywhere.
  Correct: a release holds what its body names, and what is out of date is
  rebuilt in the end.

`PROJECT.json` lists each of these at its line, and the hazards no property
covers yet with the reason.

## 2. Modules

| module | models | role |
|---|---|---|
| `VirtualSX1262` | the chip | its state as one record, every call as an operator from chip to chip; no variables |
| `ChipAlone` | any order of the chip's calls | the component specification of the chip |
| `RadioLibDriver` | RadioLib's command sequences, `runCommand`'s dispatch | commands as records |
| `SpiStream` | both transports | how a command of any length acts and what it answers |
| `SpiPaths` | `streaming_test.cpp`, on chips with a history | two chips, one per transport |
| `MeshCore` | dispatcher and radio wrapper (external) | one action per decision; leaves commands in `fw.todo` |
| `Engine` | simulation engine (external) | one action per message |
| `NativeNode` | `main.cpp` and `SimHal.h` | composes chip, driver, firmware, engine |
| `RadioServer` | `radioserver.cpp` | composes the same with the streaming transport |
| `Framing` | the protocol's headers, `readAll`, `writeMsg` | messages as bytes, readers and writers of any part of them; no variables |
| `EngineEnd` | the engine's end of a socket (external) | the engine as a peer that writes, reads and hangs up anywhere, and what both wires say of it |
| `BridgeWire` | `main.cpp`: its loop as reader and writer, the console, the end of the run | the native node's socket, byte by byte |
| `ServerWire` | `radioserver.cpp`: `accept`, `poll`, `serviceQemu`, `serviceBridge` as readers and writers | the radio server's two sockets, byte by byte |
| `Channel` | nothing in the code | the abstract socket; each direction of both wires implements it, `NativeNode` and `RadioServer` take theirs to be one |
| `FileStore` | `InternalFileSystem.h` | `File` and `Adafruit_LittleFS` over stdio, in several processes |
| `FlashStore` | nothing in the code | what a node's storage promises; `FileStore` implements it |
| `ReleasePipeline` | `build.yml` | runs and releases, with repositories that move meanwhile |
| `ModemSettings` | the modem's setters and decoders, the airtime formulas | driver and chip, one request at a time |
| `RadioService` | nothing in the code | the abstract promise of a node's radio; `NativeNode` implements it |
| `Gathering` | what the messages of a sequence carry, put together | used by the sockets, and by the nodes through `SequenceLemmas` |
| `ChipAloneProofs`, `RadioLibProofs`, `NativeNodeProofs`, `RadioServerProofs`, `WireProofs`, `FileStoreProofs`, `ReleasePipelineProofs` | | the theorems; `RadioLibProofs` has those of `SpiPaths` and `ModemSettings`, `WireProofs` those of both programs' sockets |
| `SequenceLemmas` | | what the proofs need of sequences |
| `MC...` | | constants for TLC |

### The chip

`Chip` has a field for each member of the class that some later step reads. The
IRQ register is the set of flags that are up, split in `HighByte` and `LowByte`
where a reply carries one byte of it. A modulation setting is one value, and
what it implies for the detector two thresholds in milliseconds: the detector
compares whole milliseconds with 4 and 12 symbols, so the first whole
millisecond that is not below them decides everything. `Tick` is `tick()`:
elapsed and busy time, the spurious preamble of the faulty builds, and in
receive mode delivery and then detection, in that order. CAD begins and ends
within its command, so the mode has three values.

Not kept: frequency, power and the registers other than the receiver gain;
`lastBusyTickMs_`, which is always `nowMs_`; the buffer bases, which RadioLib
only ever sets to 0. The 32-bit counters do not wrap: a run of 49 days is out of
the scope of these models.

### The native node

`NativeNode` steps are: one message taken (`Read...`), one millisecond begun
(`BeginMs`: `beginTick`, `servicePendingIrq`), one decision of the firmware
(`Loop`), one SPI transaction (`Spi`), and the end of `loop()` with `drainTx()`
and, after the last pass, the statistics and the acknowledgement (`EndLoop`).
The node is one thread and the engine moves between these steps. An SPI
transaction takes less than a millisecond; whether it carries the clock over
into the next one is a choice, at most `SpiMs` at a time, and the chip is ticked
before the command and after it, as `SimHal` does. The message of an unknown
kind ends the node (`closed`).

### The two transports

A command is a `Cmd` record and the number of its bytes that came: what the chip
makes of a truncated command depends on the length alone (`MinLength`, and `Cut`
for a buffer write). A reply is a value for every byte clocked. `ByteEffect` and
`ByteReply` are `transferByte`, with the padding to sixteen bytes that a getter
is evaluated against; `EndTransaction` is the release. `SpiPaths` sends every
command at every length to a chip of each kind, with ticks, frames, channel
changes and TxDones in between.

### The radio server

`RadioServer` takes one step for each request (`CsAssert`, `Xfer`, `CsRelease`,
`ReadIrq`, `SetFem`) and one for each engine message (`Take...`). `turn` is the
poll loop: after a request the engine's socket is served if something has come,
in the same turn. `Write` does a whole command that is no read in one step.
That is sound because the bytes before the release leave the chip alone: this
is `ActsAtRelease`, which `SpiPaths` checks and `RadioLibProofs` proves, so an
engine message between them does what it would do before or after them. The tag
of `kXfer` and its byte are one request. `kReadBusy` always answers "clear" and
has no action. The interrupt runs when the emulator sees an edge of the pin.

### The wires

`BridgeWire` and `ServerWire` have the framing that the modules above leave out.
A reader is the bytes of the message so far and how many `readAll()` still
wants; `read()` returns any part of them, and `write()` puts its bytes into the
socket as there is room. Node and server are one thread each: what has been
begun to write comes before anything else, so nothing is read meanwhile. A write
to an engine that has gone is lost, or ends the program. Of the messages only
those are kept that the framing or the console tells apart. A four-byte number
is one byte here. The engine hangs up wherever it likes.

In `BridgeWire` a tick runs `loop()` as often as `main.cpp` does, and a pass of
it may read typed bytes, print, and transmit. A tick whose payload is not a
number is dropped without an acknowledgement, in the node as in the server.

In `ServerWire` `pc` is where the one thread stands: in `accept()`, in `poll()`,
before a request's tag, before its second byte, before its answer, or with the
engine's socket. `Poll` takes note of both sockets as they were when `poll()`
returned (`due`), and the emulator's is served first. Until the emulator
connects the server waits in `accept()` and notices nothing else, the engine's
leaving included. An emulator that stops between the two bytes of a request
keeps the engine waiting until it goes on or hangs up. An unknown tag ends the
server; an unknown message of the engine's does not. The process is one that was
given `--bridge`.

### The modem's settings

`ModemSettings` keeps what `SX126x` believes and what `VirtualSX1262` decoded,
and each setter sends what it sends, so that an error path that changes only one
of the two shows. Bandwidths are in units of 10 Hz: RadioLib finds its code by
half the bandwidth in kHz (`Half`), the chip goes back from the code by its table
(`Decodes`). The airtime formulas are in exact integers, over the bandwidths on
which a symbol is a whole number of microseconds (`AirBw`); there the floats of
the code give the same numbers, which a comparison of the two over all 32,768
combinations of settings and lengths confirmed.

### The file store

`FileStore` is `InternalFileSystem.h` over the C library. A place is a directory
of the host and a path; a file removed while it is open lives on under its
`File`. `file[s]` is one `File` variable: its mode, its stream with what is
buffered, or its walk. The library writes a buffer out when it likes
(`WrittenOut`), so that other streams of the same file, and a kill, find any part of it.
A process returns from `main`, which writes its buffers out, or is killed, which
loses them. `root_` is empty, as `setRoot()` is called nowhere. One variable
stands for all copies of a `File`. `past` is what the properties compare with.

### The release pipeline

`ReleasePipeline` has one action for each step of a run that others can see: the
clone, the decision on each ref, the plan, the end of a matrix, and each command
of a publisher (the body, the list, one deletion, one upload). A commit is a
number and an asset remembers what it was built from. A leg, a command, the
reading of a body or the whole run fails at any time, `MaxFaults` times in all.
A command that fails ends its publisher (`Fails`; `set -e`) with one exception:
the list of the old assets is a command substitution in the words of a `for`,
whose failure the shell does not see, so the publisher deletes nothing and goes
on to the upload (`ListFails`). Two histories are kept for the properties:
`broken`, the releases whose last publisher stopped midway, and `unlisted`, those
whose assets could not be listed when they last should have been.
Upstream and this repository move meanwhile; tags appear and do not move.

### Firmware and engine

Both are outside the repository and are modelled from how the code here uses
them, and marked external in `PROJECT.json`. The firmware ends a finished
transmission, collects a frame if the interrupt said so, makes sure the radio
listens, and listens before it talks; it may give up on a transmission when
`GivesUp`. The engine keeps to what the bridges' comments say of it: a message
of each kind before a tick, then the tick, then nothing until the
acknowledgement; and it is half duplex for the node, delivering nothing and
reporting no other station while the node's own waveform is on the air.

## 3. Runs

Ten runs pass.

| run | asks |
|---|---|
| `ChipDetector` | any order of calls, two modem settings changed at will, frames longer than the buffer, false preambles every 2 ms. `DetectorLatched`: a latch never outlives its flag or the signal. `TicksSeeSignal`: no tick in receive mode ends on a signal of the detection time with the flag down. `StatsPossible`, `SpuriousRate`: the counters are possible ones. `TypeOK`: the chip stays a chip. |
| `NativeBusy` | both directions, busy channel, firmware that gives up, a message that ends the node. `FramesConserved`: what was delivered is what was read, then the frame standing in the chip, then its inbox, then the socket. `SentGoesOut`, `DriverMatchesChip`, `DoneIsSeen`: transmission and its end. |
| `NativeQuiet` | a channel nobody else uses, SPI time carried over. `KeepsService`: the node implements `RadioService`. `AckIsCaughtUp`, `ClocksForward`: lockstep and clocks. `NoTalkOver`: one waveform. |
| `SpiPaths` | `RepliesAgree`, `ChipsAgree`, `ActsAtRelease` for sixteen commands at every length. |
| `Server` | frames, TxDones, a busy channel, unknown messages and ticks between any two bytes of an emulated node. `FramesOut`: one frame goes out for each sent, and whole unless one was received. `DriverMatchesChip`: driver, chip and engine agree on every transmission. `ListenTruthful`: listen-before-talk reads what is up. |
| `WireFramed` | reads and writes cut anywhere, sockets that hold less than a header, a tick without a time, an engine that hangs up between any two bytes. `KeepsChannels`: both directions implement `Channel`. `AckIsLast`: with the acknowledgement the engine has all that was printed and sent. `TypedInOrder`: the console loses, repeats and reorders nothing. `AcksAreTicks`: the acknowledgements are the times asked for, once each. `EveryTickAcked`: every tick is answered, and no two writers block each other for good. `EndsWithEngine`: a node does not outlive its engine. |
| `ServerWire` | two sockets of one byte each, an emulator that stops between the bytes of a request, an engine that stops between those of a message, requests and messages nobody knows. `AnswersMatch`: an answer is only ever there for the request that waits for it. `EndsOnlyWithPeers`, `EndsWithPeers`: the server ends with a peer or over an unknown tag, over nothing else, and then always. `TicksAcked`: no tick goes unanswered, however much the emulator asks. `KeepsChannels`, `AcksAreTicks`. |
| `FileStore` | two `File` variables, in one process or in two, buffers written out when the library likes, removals under open streams, kills. `WrittenIsStored`: what was written and closed is on the disk. `ReadsWhatIsStored`: a reader reads its file and stands where it should. `WalkSeesAll`: a walk answers with what is there. `KeepsFlash`: a node's storage implements `FlashStore`, whatever another does. |
| `Release` | any two of legs and commands that fail, listings that fail unnoticed and cancelled runs, an upstream that moves and tags. `HoldsWhatItSays`: a release whose publisher got to its end holds something built from what its body names, and nothing else unless the listing of its old assets failed. `RadioServerWhole`: the radio server's has every platform, all of one commit, even then. `BacklogDrains`: in the end every ref that builds is released at its own commit. |
| `Modem` | every spreading factor, bandwidth, coding rate and preamble, refused ones too, one after the other. `SettingsMatch`: the chip is set to what the driver believes. `AirtimesAgree`: the formulas give the same airtime for every length where their rules are the same. |

Two runs find the code at odds with what it or its documentation says of it;
`PROJECT.json` quotes the lines.

| run | shows |
|---|---|
| `NativeListen` | RadioLib's `getIrqFlags` clocks four bytes; the chip puts the byte with the busy flags into a reply of five or more. On a native node listen-before-talk reads nothing. The streaming path pads and answers, so an emulated node does listen. |
| `ReleaseCut` | a publisher interrupted after it has written the body leaves a release that names the present commits and holds nothing, and no later run will touch it: the body is all that `discover` looks at. |

### Divergences without a run of their own

The passing runs leave the following out by their constants or by what they ask.
Each of the first group was seen as a counterexample when the constant was
widened or the condition dropped, and can be seen again that way.

- *`GetIrqStatus` in `SpiPaths`.* At RadioLib's four bytes the two transports
  answer differently once a flag is up (the cause of `NativeListen`), and the
  streamed command counts as one read per byte in `irqReads_` and `busyReads_`,
  though the comment at `VirtualSX1262.cpp` 230-231 says that none of the
  streamed commands changes state. `streaming_test.cpp` compares chips just
  switched on, where every flag is down, and compares replies only.
- *`GetRssiInst` in `SpiPaths`.* It answers with data and is missing from
  `returnsData`: streamed, it reads as zero.
- *`GivesUp` in `NativeQuiet`.* Firmware that gives up leaves transmit by
  `SetStandby` without the engine being told, and its next frame is a second
  waveform on the air with the first. `radioserver.cpp` 192-194 says that the
  wait for `kTxDone` is "what stops a node talking over itself".
- *`FramesPerTick` 2 in `NativeBusy`.* Two frames before one tick: `tick()`
  delivers the second over the first before the firmware has read it.
- *`FramesOut` in `Server` without its condition.* A frame delivered between
  `WriteBuffer` and `SetTx` goes out instead of the one sent. On a native node
  the two commands are in one `loop()`; SPI time carried over can still put a
  delivery between them.
- *`GivesUp` in `Server`.* Two transmissions between two ticks: `SetTx`
  overwrites the one frame waiting for `drainTx()`.
- *Frames read in `Server`.* The lock is taken for each byte
  (`radioserver.cpp` 309), so a frame delivered between two bytes of
  `ReadBuffer` leaves the firmware with the head of one and the tail of another.
- *`ReportsBusy` in `NativeQuiet`.* `SetDioIrqParams` keeps the mask of what may
  be latched and drops the one of what may raise DIO1 (`VirtualSX1262.cpp` 388,
  against the member's comment at `VirtualSX1262.h` 189). A header interrupts
  the node, which collects the last frame once more.
- *The console's length in `WireFramed`.* What is printed in one tick is one
  message whose length is cut to 16 bits (`main.cpp` 118): beyond 65,535 bytes
  the engine takes text for headers. The run's passes print less than `Base`
  can say; `PrintsFit` is that condition, and the proofs about a node's socket
  name it where they need it.
- *`HoldsWhatItSays` in `Release` without `unlisted`.* `set -e` does not see the
  listing of the old assets fail (`build.yml` 311, 420). A branch is published,
  moves, and is published again by a run that lost one leg and the listing: the
  publisher deletes nothing, ends well, and the last commit's asset stays beside
  this one's under a body that names this one, although "old assets are deleted
  rather than left alongside the new ones" (308-309).

The rest were met while reading for the modules.

- *Airtimes.* The chip lowers the data rate at SF 11 and 12, RadioLib at symbols
  of 16 ms: their estimates differ at SF 11 with 250 kHz, SF 12 with 500 kHz and
  SF 10 with 62.5 kHz, and at SF 5 and 6 by their coefficients. `AirtimesAgree`
  says where it looks. RadioLib also accepts a coding rate of 4, at which the
  chip keeps the old one, and takes 7.0 kHz for 7.8; MeshCore asks for neither.
- *`--print-airtime`* (`main.cpp` 187-195) answers from the chip's power-on
  settings, and `--sf`, `--bw-khz` and `--cr` set variables that only the unused
  `HostRadio` reads; `target.cpp` 50-52 and `README.md` 137-140 say otherwise.
- *The last frame's signal.* Nothing calls `setLastSignal()`: every frame is
  reported with the same strength.
- *Two pipeline runs at once.* No concurrency group keeps them apart: both
  publish the same ref and their assets mix (`build.yml` 308-309). The pipeline's
  runs have one at a time.
- *A partial release is a finished one.* A ref whose leg failed is published
  with the rest and not built again until a commit changes; a platform added to
  `PLATFORMS` rebuilds nothing either.
- *Refs that never build.* As many of them as a batch holds, at the head of the
  list, keep the others from their turn, against `build.yml` 131 ("the backlog
  drains monotonically"). `Release` has no such ref.
- *"Built once and never rebuilt"* (`README.md` about line 106, `build.yml` 112)
  is said of tags; their bodies name this repository's commit too, so they are
  rebuilt whenever it moves.
- *The filesystem shim.* `open("/")` gives a null `File`, so the top level
  cannot be walked; `lfs_traverse()` opens `""`, fails, and counts no blocks;
  `format()` erases nothing and returns false; opening for reading makes the
  folders; nodes started in one directory share it. A file removed before its
  turn looks like the end of a walk, which `WalkSeesAll` allows for.

## 4. Bounds, and why they are enough

- `BufLen` 3 (256 in the code): room for frames of one and two bytes, which
  makes a frame torn, cut or overwritten by a shorter one visible;
  `ChipDetector` has 2 and delivers a frame longer than its length field can
  say. There the commands of configuration are given arguments that change
  nothing; `SpiPaths`, the node runs and the proof of `TypeOK` have the rest.
- `MaxMs` 2 to 4. The detector's thresholds are 1 to 3 ms, so that a signal is
  detected, cleared and detected again within the bound; ticks of 1 and 2 ms
  make the bridge step more than once for one tick. `RtcPeriod` is 2 instead of
  1000 so that the real-time clock steps at all.
- `MaxFed`, `MaxSent` 2: a second frame is needed to overwrite, reorder or
  repeat a first; every counterexample above needs two or fewer. `Server` feeds
  one of two bytes and sends two of one, which a mix-up of the two shows.
- `FramesPerTick` 1: with two a frame is lost, see above.
- `ReportsBusy` FALSE in `NativeQuiet`: with a busy channel a frame is collected
  twice, see above. `NativeBusy` checks, with it, what survives.
- `SpiMs` 1: a clock ahead by a millisecond at each transaction runs ahead of
  network time by several in one loop, up to `MaxMs` + 1.
- `MaxReads`: reads of the IRQ register before the last listen-before-talk; the
  counter is part of the chip and would grow for ever. 5 streamed reads are two
  listens.
- `MaxCommands` 2 in `SpiPaths`: one to make the history, one to compare; ticks,
  frames and channel changes are not counted.
- `Base` 2 in the wire runs: a length has two binary digits instead of two
  bytes, so that three bytes fit and four do not. `SockCap` 2 in `WireFramed`
  and 1 in `ServerWire`: less than a header, so that every message blocks its
  writer. Two milliseconds, in one tick or two (one at a time in `ServerWire`),
  and one other message.
- `FileStore`: two `File` variables are the fewest that can disagree, and belong
  to one node or to two. With `WriteCap` 1 a second byte pushes the first out,
  with `ReadCap` 2 a reader reads ahead of what it was asked for; two bytes are
  the longest file of the node looked at. One folder with two names in it.
- The pipeline: `Batch` 1, so that every other ref waits for a later run; two
  platforms, so that one of them can be missing; one move, and tags that appear on
  top of it. `Release` has two faults: an old asset stays only if the listing
  failed and the leg that would have overwritten it did too, so with one fault
  the condition on `unlisted` could be dropped and the run would not notice. It
  has a branch and a tag, and no runs of named refs; `ReleaseCut` has those, a
  second tag, which never builds, and one fault.
- `Modem`: nothing is cut but the preambles, 16 and 32. Spreading factors 4 to
  13, twelve bandwidths, two of them refused, coding rates 5 to 9, every payload
  length.

Deadlock is checked everywhere. `Finished` in `NativeNode` is the run's end: the
engine asks for no more time, or an unknown message ended the node. `Gone` in
the wires is the end after the peers have hung up.

## 5. Fairness

`BridgeWire` and `ServerWire` assume (`BridgeRunning`, `Running`) weak fairness of the program as
a whole, of the engine finishing what it has begun to write, and of the engine
reading; not that it sends anything or hangs up. The program is one thread,
which stops only in a read or a write that cannot go on. That the engine reads
while it writes is an assumption about a program outside the repository: were it
one thread like the node, two writers with full sockets would wait for each
other. Of the emulator `ServerWire` assumes the same two things, and not that it
asks or connects: the bytes of a request it has begun do come, as
`radioserver.cpp` waits for the second under its lock. That the emulator's
socket and the engine's are both served is not assumed: it is what `Poll` and
`due` do.

`ReleasePipeline` assumes that a run once started goes on (weak fairness of its
steps) and that somebody starts an ordinary one again and again (strong fairness
of `Ordinary`, since a forced run or one of named refs may be under way each
time). Faults and moves end by their bounds: a pipeline that is cancelled for
ever drains nothing.

The other runs ask for safety alone and assume none.

## 6. Proofs

| theorem | for every |
|---|---|
| `TypeCorrect`: `Spec => []TypeOK` | buffer size, set of modem settings, thresholds, inputs |
| `DetectorLatchedHolds`: `Spec => []DetectorLatched` | the same |
| `TicksSeeSignalHolds`: `Spec => TicksSeeSignal` | the same |
| `StatsPossibleHolds`, `SpuriousRateHolds` | the same, and every spurious period |
| `ChipsAgreeHolds`, `ActsAtReleaseHolds` | set of commands without `GetIrqStatus`, length, history |
| `RepliesAgreeHolds` | the same without `GetRssiInst` |
| `ModemTypeCorrect`, `ModemSettingsMatch`, `ModemAirtimesAgree` | set of requests, build settings |
| `ClocksAgree`: `Spec => []AckIsCaughtUp`; `TimeGoesOn`: `Spec => ClocksForward` | buffer size, modem table, set of frames, tick length, SPI time and bound of `NativeNode` |
| `NothingMissed`: `Spec => DoneIsSeen`; `DriverIsRight`: `Spec => []DriverMatchesChip` | the same, firmware that gives up included |
| `EverythingGoesOut`: `Spec => []SentGoesOut` | the same with `FramesPerTick` at most 1 |
| `OneWaveform`: `Spec => []NoTalkOver` | the same with firmware that does not give up |
| `NothingLost`: `Spec => []FramesConserved` | the same with `OneFrame`: `FramesPerTick` at most 1, and frames with at least one byte that fit the chip's length byte |
| `IsRadioService`: `Spec => KeepsService` | the same with an engine that never reports the channel busy |
| of an emulated node `DriverIsRight`: `Spec => []DriverMatchesChip`; `ListensRight`: `Spec => []ListenTruthful` | buffer size, modem table, set of frames, tick length and bound of `RadioServer`, firmware that gives up included |
| of the same `EverythingGoesOut`: `Spec => []FramesOut` | the same with firmware that does not give up |
| `AnswersInStep`, `EndsForAReason`: `Spec => []AnswersMatch`, `Spec => []EndsOnlyWithPeers` | socket size, set of requests and of messages |
| `SocketsAreChannels`: `Spec => KeepsChannels`; `ServerAcksInOrder`: `Spec => []AcksAreTicks` | the same |
| of a native node `NodeAcksInOrder`: `BridgeSpec => []AcksAreTicks`; `ConsoleInOrder`: `BridgeSpec => []TypedInOrder` | base, socket size, set of messages, tick lengths and passes of `BridgeWire` |
| of the same `NodeAckIsLast`: `BridgeSpec => []AckIsLast`; `NodeSocketsAreChannels`: `BridgeSpec => KeepsChannels` | the same with `PrintsFit`: what is printed between two ticks fits the header's length |
| `WritesStored`: `Spec => []WrittenIsStored`; `ReadsStored`: `Spec => []ReadsWhatIsStored`; `WalksSee`: `Spec => WalkSeesAll` | set of paths, nodes, `File` variables and bytes, buffer size, length |
| `StorageIsOwn`: `Spec => KeepsFlash` | the same |
| `FileTypesKept`: `Spec => []TypeOK` of the file store | the same |
| `TypesKept`: `Spec => []TypeOK` of the pipeline | set of refs, platforms and runs |
| `ReleasesAreWhole`: `Spec /\ []Alone => [](HoldsWhatItSays /\ RadioServerWhole)` | the same |
| `OneRunIsEnough`: the same of `Spec` alone | the same with a single run |

**The chip (`ChipAloneProofs`).** Type correctness is inductive as it stands; a
lemma for each operator says that it maps chips to chips, the two that need
thought being that a stored payload stays inside the buffer and that a long
frame is cut. `DetectorLatched` is inductive with the type invariant:
`DetectLatches` shows that detection leaves latches with their flags, and
`TickLatches` that nothing between a tick's start and detection parts them. The
same lemma gives `Seen`, from which `TicksSeeSignal` follows for one step.
`StatsPossible` (`Counted`) is inductive once time only moves forward.
`SpuriousRate` is not inductive: it says nothing of when the next false preamble
comes. `Scheduled` does: each one raised has used up a period of the schedule,
and the schedule is never more than a period ahead of the clock. `Clocks` names
what both rest on, and `ClocksDecide` settles every call but a tick and a read
of the register.
Time's direction is an assumption of the model: `Advance` never goes back.

**The transports (`RadioLibProofs`).** `PathsInv`: between commands the chips
are equal, and during one the buffered chip is what the whole command makes of
the streamed one. `BytesChangeNothing` and `ReleaseActs` make it inductive, and
they are where `NoIrqReads` (no `GetIrqStatus` among the commands) is needed; it
cannot be dropped, because of the counters. `RepliesInv` adds that the reply so
far is a prefix of the buffered reply; its heart is `ReplyByByte`, that a byte
answered against the padded command is the byte answered to the whole one. It
needs `NoRssiReads` as well and `MaxLength \in Nat`.

**The modem (`RadioLibProofs`).** `TypeOK` and `SettingsMatch` are inductive
together: what the chip decodes is what the driver meant only if the driver's
code is one the chip knows, and that is typing. A lemma for each setter says
that it takes matching settings to matching ones, whether it accepts or refuses.
The assumptions are `SettingsAssumption`, and `NominalBws`, that a bandwidth
RadioLib accepts is within a hundredth of the one it stands for; both are
evaluated on the run's constants. A coding rate of 4 is excluded there, see above.

`AirtimesAgree` needs that the driver's low data rate optimisation is that of
its present settings, which is why `Matched` says so. Then all three formulas
are one number, quarter symbols times a symbol's microseconds (`SameAirtimes`):
the products are equal as they stand, and only the last division, by a constant,
is left to compare (`Rounding`).

**The native node (`NativeNodeProofs`).** One invariant, `IInv`, whose parts
lean on each other; TLC checked it in both node runs before it was proved.
`Turns` is the lockstep: node and engine take turns, a tick is the last message
to the node and an acknowledgement the last to the engine, and SimHal's clock is
the chip's and never behind network time. From it follow `AckIsCaughtUp` and
`ClocksForward`. `States` says what the wrapper believes at each place in
`loop()`, `Stages` which commands of a sequence are still to come and what those
that went have done to the chip (`Sends` for a transmission). They are needed
because a sequence is several SPI transactions with ticks between them, and the
driver's belief is only right at its end. `Listens` is that belief; it gives
`DoneIsSeen`. `Airs` follows a transmission from `SetTx` to its `kTxDone`, and
with `Listens` gives `DriverMatchesChip`. These five hold whatever the engine
and the firmware do.

Two more need an assumption that the code does not make itself, and each is
false without it (section 3, divergences). `Arrives` and `GoesOut` put every
frame in one place if the engine delivers at most one before a tick
(`FramesPerTick <= 1`): nothing arrives while a payload is staged, so what goes
out is what was staged. `OneAtATime` counts waveforms if the firmware waits for
the end of a transmission (`~GivesUp`). Both stand as implications inside
`IInv`, so that one proof serves all constants.

Reception has an invariant of its own on top, `Received`, which TLC checked on
four instances before it was proved. `Conserved` puts every frame the engine
delivered in one place, in order: read while new, standing unread in the chip,
in its inbox, in the socket. `Unread` is the delicate part: the chip says
`RxDone` from the delivery to the driver's `ClearIrqStatus`, but the frame was
read one command earlier. `Waits` says that a frame waits in the inbox only of a
chip that does not listen, and that the extra pass of a tick never finds one
there; `Masked`, that a chip that listens raises the pin for what it receives;
`Stands`, where the firmware can be while a frame stands unread, so that nothing
is sent, cleared or delivered over it. `Hears` holds where no other station is
ever reported: then the pin means a frame and nothing is read twice, what is
heard is what was new, and each step of the node is a step of `RadioService` or
none (`Serves`, a lemma for each part of the node). With a busy channel a header
raises the pin as well, the driver reads the same bytes again, and `KeepsService`
is false: that is why it asks for a quiet one. `OneFrame` assumes that frames
have at least one byte and fit the chip's length byte; a longer one is cut, an
empty one is not read. `FramesIn`, the frames in a
socket, is the library's `FlattenSeq`, a recursive function: that it goes with
`Append` and with the joining of sequences is proved by induction over a set of
lengths (`StepsExist`, `FlatAppend`, `FlatJoin`).

A lemma for each chip command
says what it changes; `CommandKeeps`, `DecisionKeeps` and `QuietKeeps` reduce a
command, a decision and a millisecond to what they must show.

**The emulated node (`RadioServerProofs`).** The argument is that of the native
node, with the radio server's interleaving in it: after any byte a message of
the engine's may be served. TLC checked `IInv` on `Server`'s instance before it
was proved, with firmware that gives up and with firmware that does not.
`Reads` is what the native node's has no need of. The command in flight is the first one outstanding, and of a
`GetIrqStatus` the reply so far has one value per byte, the third of them flags
of the register's high byte and the fourth of its low one; what is up of the
busy flags in the fourth is what was up when it was clocked, whatever was served
since. From this follows `ListenTruthful`. `Stages` says which commands of the driver's
sequence are to come and what those that went have done, now with any number of
messages between two of them. A message of the
engine's leaves the driver's side and the transaction alone (`TakeFacts`), and
there is a lemma for each kind of message on what it does to the chip between
two commands of a sequence. `ProgramsAre` says what the sequences are,
`Outstanding` which command can be the next in which, and `ReadAhead` what is
left of a sequence after a read.

`FramesOut` rests on `GoesOut`: a frame sent is among those that went out, or it
is the last one sent and is what the chip has still to drain. The second half
(whole and in order) is claimed only while nothing was received, as in the
property; the first, that as many go out as are sent, needs `~GivesUp` alone, and
is false without it (section 3, divergences). `DriverMatchesChip` needs neither.
Of the engine's frames it is assumed that they are sequences of bytes (`ServerAssumption`).

A tick of several milliseconds steps the chip by a function recursive in the
time (`Stepped`). What that function does for ticks of any length is proved by
induction: `Induction`, that a set of naturals with 0 and every successor is all of
them, follows from the well-foundedness of `<` (`Least`); `RunsExist` and
`RunsAreCalm` use it on the set of times up to which a run of single steps
exists. In `Calm` is what they preserve: a
tick changes neither mode nor mask, neither the staged payload nor the flags of
a transmission's end, and the buffer only if a frame waits in the inbox.

**The radio server's sockets (`WireProofs`).** `Requests` relates the
letters on their way from the emulator to where the server stands: `Aligned`,
that they parse into requests from there on, and `Awaited`, that at most one of
them waits for an answer, which is in the socket only when none of them does.
Cut anywhere, they stay so. `UpFlow` and `DownFlow` do the same for a direction
of the engine's socket (`Flow`): there is a layout of all that was ever sent, the
bytes and the place where each message begins, and what the reader has, the
socket holds and the writer has still to write is what the layout has after the
messages already got. The layout is a witness and not a function of the
messages, which saves defining their joined encoding by recursion. With it the
last byte of a message completes that message, which is a step of `Channel`.
Assumed are that a message fits its length field (`EngineEndAssumption`) and
that `"byte"`, the second byte of a request, is not a tag (`AskedAssumption`).

`AcksAreTicks` compares what was acknowledged with what was asked for and says
nothing of the way in between. `Balance` does: the times of all ticks sent are
those acknowledged, in messages sent or about to be, then those being served,
then those of messages not yet read. What the messages of a sequence carry
(`Gathered`, over `FlattenSeq`) goes with `Append` and with joining
(`GatherAppend`, `GatherJoin`), proved by induction over a set of lengths, so
each step moves one time across one of the joints.

**The native node's socket (`WireProofs`).** `NInv` is the same of `BridgeWire`,
whatever is printed and transmitted: the flow up is a stream of messages, ticks
and acknowledgements balance, what was typed is what the firmware read, what the
node queues and what is on its way, and what was printed is in messages or
waits to be. A tick that is being served stays due while `loop()` runs as many
passes as it asks for. Nothing is assumed but `EngineEndAssumption`,
`FramingAssumption` and `PassesAssumption` (what a pass prints is bytes, what it
transmits is a packet that fits).

`LastInv` is what `AckIsLast` and the flow down rest on, and needs `PrintsFit`:
some bound on what one pass prints, times the passes of a tick and one more, is
below what the header's length can say. Without it `flushConsole()` writes a
length that was cut, and what comes down is no longer a stream of messages.
`WhileLooping` counts the passes a tick has had, which bounds what waits to be
printed; `WhileReading` says that between ticks nothing waits and that node and
engine agree on the time or are one tick apart; `Counted`, that there is at most
one tick unacknowledged, and exactly one while the engine waits. `EndsInAck`
closes the argument (`Settled`): when the engine does not wait nothing is
unserved and no acknowledgement is on its way, while a node that reads has said
its acknowledgement last, so nothing at all is on its way. `MCBridgeWire` has
TLC evaluate the bound on the run's passes (`MCPrintsFit`).

**The file store (`FileStoreProofs`).** None of the three statements is
inductive. `StreamsRight` adds to them what they rest on: a writer has its inode
to itself and its inode a name, unless the name was removed; and a reader that
nobody wrote under has no writer at its inode. `Settled` is `WrittenIsStored` for
what nobody writes. `OverlayJoined`, that bytes written in two parts are those
written at once, is why it does not matter when the library writes out. A removal
takes the streams at a place to an inode of their own (`StreamsMoved`), and an end
of some streams, by `close()`, a return or a signal, is one lemma (`DropKeeps`).
For walks `WalkRight` says that what is left of one is what it began with less
what it has answered with, and `FoldersFlat`, that folders are made in a working
directory only, that no removed folder is one of its entries.

`StorageIsOwn` is the refinement of `FlashStore`: a step writes in the node's
directory only if the node itself has the file open for writing (`HomeInv`), and
then it is a `Begin`, `Store`, `Finish` or `Delete` of that file; a kill is `Stop`
or nothing. It needs `OwnDirectory`: the simulator starts a node in a directory
that is no other's. Paths are sequences of names (`StoreAssumption`).
TLC checked the invariant on the run's instance before it was proved.

**The pipeline (`ReleasePipelineProofs`).** `HoldsWhatItSays` is false when two
runs publish one release at once (section 3). `Alone` says that no two are in
the middle of the same one; it is a condition on the behaviour, since nothing in
the workflow keeps them apart, and under it any number of runs may otherwise go
on beside each other. `Tracked` says what a publisher in its middle knows: the
body is its own, what is still to be deleted is on its list, what it has
uploaded is there and from its commits, and there is nothing else unless the
listing failed (`unlisted`). `Left` is what it leaves. That the old assets are
gone is claimed only where they could be listed, as it is false otherwise (section 3). The radio server's release needs no such condition: it has
assets of its platforms only (`Backed`), its publisher begins only with all of
them, and an upload overwrites. `OneRunIsEnough` drops `Alone` for pipelines that
are started one at a time, as the runs have them.

**Only model-checked.** No safety property of a passing run is left to TLC alone;
the two findings are, as counterexamples. What a recursive
definition computes needs the library's theorems on recursive definitions, which
take an operator and which the installed provers cannot instantiate; for
`FlattenSeq` and `Stepped` induction over a set was enough.
Liveness (`EveryTickAcked`, `TicksAcked`, `EndsWithEngine`, `EndsWithPeers`, `BacklogDrains`)
stays with TLC, as the prover has no ENABLED. No module with a theorem reaches a
RECURSIVE operator.

## 7. Not modelled, and what is left

Not modelled: RadioLib's other radios and MeshCore itself (third-party; the
driver's commands and the dispatcher's decisions are here as far as the bridges
see them); board, sensors and random numbers (constants); the telemetry encoder
(`CayenneLPP.h`), each of whose operations compares with the capacity before it
writes; text formatting of the console; `HostRadio` but for its airtime, as
nothing instantiates it; the creation of sockets and the command line; the
compilation itself, of which the pipeline sees success or failure.

Left to do: the pipeline's concurrency, should the workflow be given a group;
the counters' wrap after 49 days.
