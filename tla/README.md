# A TLA+ model of the Rover MEMS agent

The agent (`src/`) is one Go process on a Raspberry Pi or a PC. It talks to one
engine or airbag ECU over a serial line, keeps what it learns in a shared
state, and shows that state on a web dashboard. It is also a Bluetooth LE
peripheral that takes music, navigation and notification data from a companion
phone, and a relay between the phone and the head unit's frontend.

This directory holds TLA+ modules for the parts of it where things happen
concurrently or can go wrong half-way, TLC configurations that check them on
small instances, and proofs that TLAPS checks for every instance.

    tlc -config MEMS19_session.cfg MEMS19.tla
    tlapm StatusStream_proofs.tla

`PROJECT.json` lists the runs, the source lines behind every definition, the
hazards of the code, and for each property a mutant of the model that breaks it.
The mutated definitions stand in the modules right before the ones they replace
and are used by nothing else.

## The system

| Part | State it keeps | Operations | Talks to |
|---|---|---|---|
| Agent process (`cmd/rover-mems/main.go`) | the retry delay, the attempt under way | attempt, choose a port, run a session, wait, shut down | ECU handlers (calls), `ecu.State` (shared), web server and BLE (goroutines) |
| ECU handlers (`internal/ecu/*`) | the port, a receive buffer, the last byte sent | Connect, ReadData, Close | the ECU over the serial line; `ecu.State` |
| `ecu.State` | Connected, ECU type, port, pending command, data, faults, alert, error, log ring | setters, Snapshot, LogLinesSince | everyone, under two mutexes |
| `serial.Reader` | a channel of bytes, a stop signal | Start, Read, Stop | MEMS 2J's session, its own goroutine |
| Companion stores (`nowplaying`, `navigation`, `notification`) | the current track, cover, turn, icon, alert; an upload in progress; subscribers | one handler per GATT characteristic, Subscribe | BLE (callbacks), WebSocket handlers (channels) |
| Head-unit relay (`headunit`) | the cached catalog, two subscriber lists | SetCatalog, HandleCommand, Subscribe | frontend (WebSocket), phone (BLE) |
| BLE server (`internal/ble`) | the catalog characteristic | write events, catalog notifier | the stores |
| Web server (`internal/web`) | a log cursor per `/ws` connection | POST handlers, `/ws`, four listener streams | `ecu.State`, the stores |
| Dashboard (`dashboard.html`) | the number of the last notice shown | connect, poll, render | `/ws` |

What is hard here:

- The web handlers write the ECU type, the port and the pending command while
  the event loop and the session read them, in separate critical sections.
- The K-line echoes what is sent on the wire the replies come on, and the ECU
  may stop, or a byte may be lost, at any point of the exchange.
- A framed session (MEMS 2J, MEMS 3, RC5) is a chain of replies that each choose
  the next request: a refusal, a damaged frame or a session the ECU drops must
  lead somewhere, and no handler verifies the checksum of what it receives.
- Uploads come in datagram-like chunks that carry an index but no id.
- Stores change under a lock and tell their subscribers after it.
- Channels are bounded and sends drop.
- The dashboard outlives connections and the agent.

Each component's correctness properties are the ones listed with its module
below; `PROJECT.json` has the hazards, each at its line, with the properties
that cover it or the reason why none does.

## Modules

| Module | Models | Checked in |
|---|---|---|
| `MEMS1x` | the MEMS 1.x loop: its echo handling, the command slot, the wire and the ECU | through `MEMS19` |
| `MEMS19` | the 5-baud wake-up and the keyword exchange in front of that loop; a 1.x session is one that starts awake | `mems1x_session` |
| `KLine` | what the framed sessions have around them: fields of `ecu.State`, wire, ECU, users, and the steps their loops share | through `Sessions` |
| `MEMS2J`, `MEMS3`, `RC5`, `FakeECU` | the four handlers | through `Sessions` |
| `Sessions` | `ecu.Factory` and the session of the type selected | `ecu_sessions` |
| `KeyRounds`, `SecurityKey` | `GenerateKey` on 16-bit words; its loop, one round a step | `serial_parts` |
| `KwpFrames` | the replies of 2J and MEMS 3 that carry values, and the bytes read of each | `serial_parts` |
| `MEMS1xFrames` | how a data frame arrives and which offsets its decoder reads | `serial_parts`, `frame_7d` |
| `Agent`, `MCAgent` | the process: attempts, port choice, sessions from outside, shutdown | `agent_lifecycle`, `agent_retry`, `agent_port_choice` |
| `SerialReader` | the reader goroutine and Start/Stop/Read | `serial_parts`, `reader_stale`, `reader_overlap` |
| `MCSerial` | the reader, the decoders and the key side by side for TLC | `serial_parts` |
| `ImageChunks` | the pictures a phone may send, cut into chunks | through the next three |
| `ImageStore` | abstract: nothing, then one whole picture after another | as a property |
| `NowPlaying`, `Navigation` | the two chunked uploads | `companion` |
| `SnapshotFeed` | the subscriber lists and the WebSocket handlers behind them | `companion` |
| `HeadUnit`, `MCHeadUnit` | the relay, the catalog notifier, frontend and phone | `companion`, `headunit_stale` |
| `MCCompanion` | the phone's side for TLC | `companion` |
| `StatusStream` | the log ring, its cursors, the alert, and the dashboards on `/ws` | `dashboards` |
| `Agent_proofs`, `StatusStream_proofs`, `SerialReader_proofs`, `MEMS19_proofs`, `Sessions_proofs` | theorems about the module they are named after and what it extends | |
| `Decoders_proofs` | theorems about `MEMS1xFrames`, `KwpFrames` and `SecurityKey` | |
| `Relays_proofs` | theorems about `SnapshotFeed`, `HeadUnit` and how `MCCompanion` composes its parts | |
| `Images_proofs` | theorems about `NowPlaying`, `Navigation` and their refinement of `ImageStore` | |

How they correspond to the code:

- **One action per critical section or blocking call.** `HandleArtChunk` holds
  its lock from the first check to the last assignment, so it is one action.
  `SetCatalog` gives the lock up before it fans out, so it is two. `connectLoop`
  reads the selected port and writes it back under two locks, and RC5's
  `sendNextCommand` reads the command and empties the slot under two, so each is
  two actions. 2J, MEMS 3 and the fake take the command under one lock: one.
- **Variables have the names of the fields** they stand for (`userCommand`,
  `logSeq`, `lastKlineByte`). `pc` and its like say where a goroutine is.
- **Data is as small as the properties allow.** Bytes of the MEMS 1.x protocol
  are their numbers, since the code branches on them. A frame of the other
  protocols is a record that travels as a head and a tail, so that a read may end
  inside it and the wire may damage it; what a damaged frame passes for is a
  choice over what its bytes allow. A picture is an id and the lengths of its
  chunks. A catalog, command, alert or log line is its ordinal.
- **Handlers are instances.** `Sessions` instantiates the four handlers with
  KLine's own constants and variables. Only one session runs at a time, so in a
  behaviour one handler moves.
- **The environment is explicit**: the ECU, the wire, the adapters, the phone
  and the user are actions without fairness.
- **Parts that share no state are checked in one run** by letting a behaviour
  choose the part that moves (`MCCompanion`, `MCSerial`, `Sessions`). No
  interleaving is lost, since no step of one part reads what another writes.

## What each run checks

**`mems1x_session`**. A session that starts awake (1.x), or one that starts with
Connect (1.9): the address read back as up to two bytes of junk or not at all,
keywords left on the line by an earlier session, a port that does not open or
takes no timeout, an adapter that cannot break the line, an ECU that sends its
keywords and acknowledges, reads that return any part of what has arrived,
deadlines, and a handshake that fails and is ignored. Then the loop: an ECU that follows `CA 75 F4 D0` one stage at a
time, two user commands and one unknown name, each posted once (one more may be
pending at the start), one fault of the wire, which is a lost byte or an answer
after its deadline, and an ignition that may go off. A frame has one or two bytes,
and the bytes of frames and answers are 0 or `0xD0`, so that an answer may hold
what looks like a request. No command is carried out more often than it was
posted; a dead ECU ends the session; a pending command does not stay. While
nothing was lost, the challenge is the complement of this ECU's second keyword,
unless the junk holds a `0x55`: the search for the keywords passes over any other
byte, but takes that one for the sync byte and the two after it for the keywords.
The run's junk is `0x00` and `0xF8`, and `ChallengeIsTheComplement` states the
condition (`Sync \notin Junk`). While nothing was lost,
*connected* implies that the ECU went through the four stages in order; an alert
names a command that was carried out; the loop never transmits over a reply. Two
empty reads stand for the code's 200: the properties are about the race between
a late byte and the last empty read, which two show. The last three are stated
while nothing was lost because the protocol of the loop has neither lengths nor
checksums: after a lost echo the loop takes the reply for its echo, and what
follows in the reply for the next answer. That cannot be told from the bytes. How
far the loop can be misled is what `OnlyDataMisleads` says (below).

**`ecu_sessions`**. Any of the four handlers against an ECU that may start
asleep or still unlocked, refuse a user command, drop the session, answer the
wake pattern of RC5 with something else (the wrong ECU), or go off; one cell lost
or one session dropped; one command posted at any moment and one pending at the
start; an adapter that fails. A request goes out only when the reply to the one
before has been taken off the wire in full (`OneRequestAtATime`); a 2J or MEMS 3
session left alone asks for nothing behind the security access before the ECU has
let it in (`UnlockedBeforePolling`); commands run at most as often as they were
posted and are reported only if they ran; a session the ECU has shut out is let
in again or ends (`ResumesPolling`); one whose ECU is gone ends, and a command
does not stay pending (`SessionMovesOn`). `UnlockedBeforePolling` leaves out an
ECU that drops the session and a user who posts commands, because both make the
code poll a locked ECU for a while, by design; `ResumesPolling` covers those. An
ECU that is answering one request misses another, so that after a lost cell two
requests may cross, as they do on a half-duplex bus: `OneRequestAtATime` is
stated while nothing was lost. One empty read stands for the code's limit, since
an empty read has no effect but to count. Two posts instead of one give four
times the states and no violation.

**`agent_lifecycle`**. Two ports, one serial ECU type besides the fake, the
unknown and the empty one, every list of adapters the environment may switch to,
and delays 1, 2, 3. *Connected* has a session behind it on the right port, ports
are given back, the process exits clean, a signal always ends it, and with no
adapter the delay reaches its cap.

**`serial_parts`**. One of four parts moves in a behaviour.

- The reader. Two cycles, a channel of one byte, two bytes per port, Stop called
  twice by the session and twice by another goroutine, at any moment, during Start
  too. Bytes of the port are neither lost nor reordered while nobody stops the
  reader, and unless some Start found an earlier goroutine not yet gone
  (`lingering`) they are the only ones (`PortIsReceived`). Unless some Start found
  a caller inside Stop (`overlap`), no channel is closed twice and no Once left
  that was not entered (`StopIsSafeApart`), and the goroutine of a stopped reader
  ends, with the channel full too (`StoppedReaderExits`). `lingering` and `overlap`
  are history variables; the actions do not look at them. What happens in the two
  cases is what `reader_stale` and `reader_overlap` show.
- The 0x80 frame: size bytes to 40, past the largest offset read (31), and up to
  two bytes beyond the frame in the last read.
- The value replies of 2J and MEMS 3: every row of the two switches and every
  length from 2 to 16, past the longest guard (12). Neither decoder reads past the
  end.
- `GenerateKey` on all 65536 seeds comes to the key that the firmware's shift
  register, as `auth.go` describes it and written here on bits, comes to.

**`companion`**. One of four parts moves in a behaviour.

- The two image stores. Three pictures: three chunks, one chunk, and one beyond
  the limits; every chunk lost, repeated, reordered, or late by a transfer. The
  buffer of a cover is bounded for every phone (`NowPlaying`; `navigation.go` has no
  such limit, and no such property). That a store only ever shows one whole
  announced picture, and that the icon reported is the one the turn refers to,
  is shown for a phone that announces an acceptable picture when nothing is on
  the air (`patient`); the code cannot promise it to another, because a chunk
  names no picture. Both stores refine `ImageStore`.
- The feeds. One writer, two listeners, channels of two, three changes, both
  kinds of feed. Three changes are one more than a channel holds. Subscribers
  skip nothing unless their channel was full, the last change arrives, and an
  alert goes only to those connected when it was recorded. One writer: BLE write
  events arrive one at a time as far as this repository shows. Two writers could
  announce in the opposite order, and no more than that (`ChangesArriveOnce`).
- The head-unit relay. Catalogs of two, one and three frames, one frontend,
  three commands of which one asks for the catalog, channels of two. The phone
  shows whole catalogs only, commands arrive in order, requests are answered,
  and without requests the phone ends with the last catalog. One frontend: two
  report from two goroutines, and so may one that reconnects within a fan-out;
  what then holds is `OnlyAnOverlapLeavesThePhoneStale`.

**`dashboards`**. Two pages, a ring of two lines, three lines and two alerts per
process, one disconnection each and one restart. The ring holds the newest
lines; a connection gets no line twice; a gap only if the ring was overrun; the
last alert reaches every page. Three lines in a ring of two is the smallest log
that slides under a cursor. After a restart the promise about alerts is not made:
numbers start over and the page cannot tell.

### Where the code and its comments disagree

- **`frame_7d`**: `parseData7D` guards `data[0x16]` with `>= 0x16` and
  `data[0x1F]` with `>= 0x1F` (`loop.go:481`, `490`). A frame of exactly that
  size panics and takes the agent down. `parseData80` uses `>`.
- **`reader_stale`**: `serial.Reader` says that a new session cannot read the old
  one's bytes (`readwrite.go:10-12`, `33-35`), and `TestReaderRestartDiscardsStaleBytes`
  tests it once every byte has been pushed. A stopped goroutine that still holds
  bytes may find room in the channel after Start has drained it, and the select of
  `readwrite.go:62-67` may pick the send although `done` is closed.
- **`reader_overlap`**: Stop is said to be "safe to call concurrently with Start"
  (`readwrite.go:72-73`), but Start replaces the `sync.Once` (`readwrite.go:40`) that a
  caller of Stop, out of the lock by then, may be inside of. In the agent neither of
  the two can happen today: each MEMS 2J handler makes a Reader of its own
  (`mems2j.go:34`) and starts it once.
- **`agent_retry`**: `minRetryDelay` "is the wait after a connection attempt that
  reached the ECU" (`main.go:125`), but ReadData returns only with an error, so
  every lost session doubles the delay.
- **`agent_port_choice`**: a port posted between the two locks of `connectLoop`
  is overwritten (`main.go:234`).
- **`headunit_stale`**: a `request_catalog` can send an older catalog after a
  newer one (`headunit.go:85`); the phone is left with it.

Four more are read from the source or met in the models and have no run:

- `ecu.go:111-113` says that consumers of `LogLinesSince` "cannot silently miss lines
  that the ring dropped between polls". A cursor older than the ring is clamped to
  it and nothing says so: the gap is silent. `GapsOnlyOnOverrun` and
  `OnlyAnOverrunLeavesAGap` say that there is no other gap.
- `mems19.go:183-186` says why the keywords are searched for: "a single non-zero junk
  byte masked the real handshake for good". A junk byte `0x55` still does: the two
  bytes that follow it are taken for the keywords, so that the answer is the
  complement of the first keyword, or of junk.
- `mems19.go:205-206` says that a stray `0xE9` "costs nothing"; see `NeverOverTheEcu`
  below for the keyword with which it does.
- `faults.go:101` and `104` report bit 2 of byte 12 as a coolant temperature fault
  and again as a system voltage fault; in the bytes for low and high voltage the
  system voltage bit is bit 0.

## Fairness

Only what Go's scheduler and the code's timers give: a goroutine that can go on
goes on (`Loop`, `Connect` of 1.9, `EventLoop`, `Goroutine(n)`, a write handler
once begun, the notifier), Connect ends in bounded time (every handler's wake-up
has a limit), ReadData looks at its context and gives up on a port that is gone,
an open page reconnects by its timer and polls after each answer. Nothing is
assumed of the ECU, the wire, the user or the phone. Fairness is weak everywhere.
`SessionFails` is fair only for a session whose adapter is gone. The fairness of
`MCCompanion` is that of `SnapshotFeed` and `HeadUnit`, that of `MCSerial` is
`SerialReader`'s, of the part that moves.

## What is proved

Every safety and action property that a passing run checks is a theorem. The
theorems hold for every value of the constants that satisfies the modules'
`ASSUME`s. Where one has a hypothesis of its own, it is named here.

**The process and the dashboards**

- **`Agent_proofs`**. `TypeCorrect` is inductive by itself; the delay needs a lemma
  that `NextRetryDelay` stays between minimum and cap. `ConnectionsAreReal`,
  `PortsAreReleased` and `ExitsAreClean` follow from one invariant, `SessionInv`,
  that says for each place of the event loop what may be open: that *connected*
  or a held port occurs only inside a session, that the held port is the
  attempt's, and that the loop has stopped before `main` returns. None of the
  three is inductive alone: `Close` and `Report` would have to know what came
  before them.
- **`StatusStream_proofs`**. `RingIsExact` and `LinesAreSentOnce`, for any ring size
  and any number of pages, from `Inv`: the ring holds exactly the newest lines,
  and what a connection was sent has increasing numbers, none beyond its cursor.
  The second half is what makes a poll safe, because `LogLinesSince` returns
  only lines after the cursor (`LinesAfterCursor`). `OnlyAnOverrunLeavesAGap`
  adds that it returns all of them while the cursor is inside the ring
  (`NoLineMissing`).

**The serial side**

- **`SerialReader_proofs`**, for any number of callers, calls and cycles.
  `StopsAreSafeApart`, from `StopInv`: as long as no Start has found a caller inside
  Stop, everyone inside Stop holds the current channel, the Once lets one of them
  in, and until it is used that channel is open. Start has no guard that makes the
  condition so; `reader_overlap` shows what happens without it.
  `PortsAreReceived` has two halves. From `LossInv`: of the running cycle's bytes,
  what was returned, what the channel holds and what its goroutine has still to pass
  on follow one another up to what the port delivered (`Split`); the invariant also
  says of every other goroutine that what it has pending comes from its own port,
  since one that was stopped may still run beside its successor. From `OwnOnly`: as
  long as no Start has found such a goroutine, all others are gone, and what is in
  the channel and what was returned is of the session's own port. Without the
  condition it is not (`reader_stale`).
- **`MEMS19_proofs`**, for 1.x and 1.9.
  - `CommandsNotRepeated`. `NoCommandRepeated` alone says nothing of a command on
    its way. `CommandInv` keeps an account: times carried out, plus places in the
    ECU's inbox, plus one if it is in the slot, is at most the times it was
    posted. That the walk's own bytes are no user command (`WalkIsProtocol`)
    comes from the assumption on `UserCommands`.
  - `ChallengesAreComplements`, from `HandshakeInv`: while nothing was lost, what
    the ECU has said and the session has not looked at ends in the keywords and
    holds no other sync byte, whatever other junk precedes it, and however much.
    That the junk holds none is the property's own hypothesis: with `0x55` in it
    the theorem says nothing, and TLC finds the wrong challenge.
  - `NeverOverTheEcu`, and that *connected* and an alert tell the truth
    (`ConnectionsAreIdentified`, `AlertsAreTruthful`), while nothing was lost and
    whatever bytes frames and answers hold.
    `LinkInv` says that exactly one of the loop's request, its echo and the reply
    is under way, and that what has arrived tells which: a request's echo and its
    reply begin with the same byte, so what the loop makes of a byte depends on
    which of the two it is due. The three assume that the junk holds no sync byte, as
    `HandshakeInv` does (TLC finds none of them violated with one, but this proof does
    not show it), and that no keyword has the
    acknowledgement `0xE9` as its complement. For that one keyword (`0x16`) they
    fail: the echo of the challenge is then a stray `0xE9`, and the loop starts
    before the ECU has acknowledged. The comment on `waitForChallengeEcho`
    foresees a stray one and says that it costs nothing; with this keyword it
    costs a request sent over the ECU's acknowledgement.
  - `OnlyDataMisleads`: on a wire that loses any number of bytes *connected* and the
    alerts stay true, with and without an echo, as long as no data byte, size,
    keyword or byte of the handshake has the value of a request
    (`NothingPassesForARequest`). `LossyInv` follows the bytes that do have such a
    value: what is in the buffer and on the line holds at most one before the ECU
    has answered, the echo, and at most two after that, and none is left once
    the echo was taken of a request not answered. So what passes for the answer to
    a request is there only if the ECU has answered it. The hypothesis is needed: with data that may
    be `0x75`, TLC finds *connected* after the first stage, with `0xCC` an alert
    for an actuator that never ran, each with one byte lost. For values that are
    requests of the poll loop itself (`0xD0` in the run) it finds neither.
- **`Sessions_proofs`**, for the four handlers, any poll list, seeds and limits.
  - `SessionsAreHonest` (commands and alerts), from `HonestInv`. It keeps an
    account as above, with the command that is wanted (in the slot, or chosen by
    RC5 and not sent) and the one the ECU has been asked for, and says that no
    reply to a command is on the line or in the buffer unless the command has
    been carried out, whatever was lost in between. A damaged frame may pass for
    another, so this is said of every cell, not of whole frames only.
  - `AccessComesFirst`, from the same invariant: nor is a reply there to what lies
    behind the security access, unless the ECU has let the session in. Each reply
    chooses the next request, and only such a reply, or a key accepted, leads on
    to polling. The user command and the ECU's own drop are what the property
    leaves out, and `ShutOut` says so.
  - `RequestsTakeTurns` (`OneRequestAtATime`), from `TurnInv`: while nothing was
    lost, what is in the buffer and on the line together is at most one
    request's echo and one answer to it, each in full, and while the request
    still waits at the ECU no answer; a session about to send has nothing at all.
    The statement is about buffer and line as one sequence, because a read moves
    cells between them and may stop inside a frame (`WireStays`). The byte that a
    wake-up pulse reads back as is the one exception (`Pulse`), and is cut off by
    the read that finds it. A transmission is a step of one of the actions that
    write to the port (`Transmits`), so that the statement is the same, and no
    emptier, for an adapter that echoes and one that does not; the run has one
    that does, and TLC finds no violation with the other.
- **`Decoders_proofs`**. `Frame80IsSafe`: no size byte and no arrival panics the
  0x80 decoder, for a session that asks for 0x80 frames only (a hypothesis: the
  same is false of 0x7D, see `frame_7d`). `RepliesAreSafe`: no value reply of 2J
  or MEMS 3 of any length from two bytes on is read past its end. `KeysAreTheEcus`: for every seed the
  key computed with integers is that of the shift register. `KeyInv` says that the
  seed in the loop is the one as many rounds on as the loop has made, and that its
  bits are the register's; that the two agree after any number of rounds is an
  induction, made over the set of the numbers for which they do.

**The companion side**

- **`Relays_proofs`**. What a listener got and will get is one sequence, so a
  receive moves an element inside it and only a send adds one.
  - `AlertsOnlyWhileConnected` for any writers and listeners, from `AlertInv`: a
    fan-out under way has its own copy of the subscriber list, and its alert is
    later than the subscriptions of all those on it.
  - `OneWriterSkipsNothing`, with one write handler, from `SkipInv`: the last thing
    a listener was sent is the last change, or the one before it if the handler
    has yet to send it the last. With two handlers that is false.
  - `ChangesArriveOnce`, with any number of write handlers, says what is left then:
    nothing is pushed twice, and each change since the subscription was pushed or
    is on its way, unless a channel was full. Only the order is lost. `OnceInv` says
    that no two busy handlers have the same change and that what a listener still
    awaits it was not pushed.
  - `CatalogsArriveWhole` for any number of frontends, from `PhoneInv`: what the
    notifier has still to send continues what the phone has, and both are of one
    catalog (`SendsFrom`); a frame that fails takes the rest with it.
  - `OneFrontendKeepsThePhoneCurrent`, with one frontend, from `UnaskedInv`: while no
    frame failed and none was asked for, the newest catalog is the last in the
    channel, or else what the notifier sends, or else what the phone shows.
  - `OnlyAnOverlapLeavesThePhoneStale`, with any number of frontends and requests:
    a phone is current (`PhoneIsCurrent`) in every behaviour in which no
    frontend reports a catalog while another report or the answer to a request is
    between the cache and the channel (`UpdatesTakeTurns`), from `CurrentInv`. So the overlap that
    `headunit_stale` shows is the only way to a stale phone, besides drops.
  - `FrontendsGetCommandsInOrder` for any number of frontends, from `CommandInv`: the
    last command a connected frontend was sent is the phone's last.
  - `PartsAreInstances`: each behaviour of `MCCompanion` is one of each part, so
    the theorems about the parts hold of what `companion` runs.
- **`Images_proofs`**, for any pictures, chunks and limits.
  - `BuffersAreBounded`, for every phone. `ArtInv` says that the byte count kept
    beside an upload is the sum of its chunks; a chunk repeated replaces the old
    length in the sum (`PutCounts`). That a sum does not depend on the order in
    which the library's fold takes the chunks (`SizeOfTakesAny`) is an induction
    on the size of the set; it is made with a set of numbers in place of a
    predicate (`Induction`), which the provers can take.
  - `CoversAreWhole` and `IconsAreWhole`: for a patient phone both stores implement
    `ImageStore`, step by step. A picture is published when as many bytes have
    arrived as were announced, so that the set of chunks is complete has to
    follow from the sum: a part is smaller than the whole (`SizeOfPart`).
  - `IconsAreTheTurns`, from the same invariant.

**Not proved**

- All liveness (`ShutdownCompletes`, `NoAdapterBacksOff`, `StoppedReaderExits`,
  `DeadEcuEndsSession`, `PendingCommandIsTaken`, `ResumesPolling`,
  `SessionMovesOn`, `LastChangeArrives`, `RequestIsAnswered`,
  `LastAlertReachesEveryone`): the prover does not handle fairness and `ENABLED`.
- The runs that expect a violation, of course.

## Bounds

`MaxPosts`, `MaxLost` (MEMS1x), `MaxJunk` (MEMS19), `MaxPosts`, `MaxFaults` (KLine), `MaxCycles`,
`MaxBytes`, `MaxStops` (SerialReader), `MaxLines`, `MaxAlerts`, `MaxRestarts`,
`MaxDisconnects` (StatusStream), `MaxChanges` (SnapshotFeed), `MaxCommands`,
`MaxRequests` and the number of catalogs (HeadUnit), `MaxExtra` (MEMS1xFrames),
`MaxLength` (KwpFrames) bound the environment in the
guards of its actions. `MaxBacklog` (KLine) keeps the ECU from answering on top
of more cells than it says: with one request at a time a backlog arises only
where the wire or the adapter has held something back. The code's own limits are
constants with small values: `ReadLoopsLimit`, `InitLoopsLimit`, the channels
1024, 8 and 4, `MaxLogLines` 100, `MaxArtBytes` and `MaxArtChunks`,
`MaxFragmentPayload` 180, `MaxRetryDelay` 30. The long poll lists of 2J and MEMS
3 are a list of two, the fault list and one value: each entry leads to the next,
and the last one to ping. Of the thirteen user commands of 2J
(`mems2j.go:189-203`) the model has the two whose reply raises an alert; the others
are sent the same way and answered with a ping. No state constraint, symmetry or view is used.

## Not modelled

- Serial capture, port enumeration, log files, the WiFi switch and the pairing
  agent do input and output and keep no state the agent's behaviour depends on.
- Decoded sensor values, fault names, JSON, CORS, page layout and logging: no
  property here is about them. The fake ECU's invented values likewise.
- `State.Faults` and `State.Data`, which the sessions write and the handlers
  read; MEMS 3 writes `Faults` without the lock, which is a data race of one
  assignment.
- Fault replies of a single byte: no table says that an ECU sends one, and
  `KwpFrames` starts at two bytes. A MEMS 3 reply `58` alone would panic
  (`mems3.go:424` cuts it at two).
- The fault bits of 2J, a table of some fifty bits and names.
- Two frontends or two BLE writers at
  once are in no run; the theorems of `Relays_proofs` say what they keep.
- The dashboard's gauges and the web server's read-only handlers: they show
  `ecu.State` as it is.

## What could come next

1. `Agent` composed with `Sessions` in place of the session it sees from outside,
   to relate the retry delay to how a session ends.
2. The order in which several BLE writers or several frontends may reach a
   listener, as a refinement of a feed that says which reorderings occur.
