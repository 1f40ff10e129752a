# A verification project for quic-hop

quic-hop runs QUIC over a UDP "connection" whose server address changes with
time. Both ends compute the address of a time slot from a shared secret and
the clock, so nothing is negotiated; the connection IDs of QUIC packets are
disguised as well. Two programs, a client and a server, measure transfers over
it. This directory holds TLA+ models of the protocol and of the two programs,
TLC runs that check them on small instances, and TLAPS proofs.

    tlc -config HopServer_hops.cfg MCHopServer     # likewise for each run
    tlapm HopServerProofs.tla                       # likewise *Proofs.tla

`PROJECT.json` lists the runs, the source lines of every definition (`map`),
the hazards and the theorems.

## 1. The system

| Part | State | Operations | Talks to |
|---|---|---|---|
| Hopping server sockets (`pkg/magic/conn.go`) | `currentConn`, `nextConn`, the closer goroutines, the context | `NewServerConn`, `serverHoppingLoop`, `hop`, `Close`; `WriteTo` reads the socket | the clock; a pump per socket; QUIC through `WriteTo` and `Close` |
| Client sending (`conn.go`) | `localConn`, `latency` | `NewClientConn`, `clientWrite` | the clock; calibration for `latency` |
| Address derivation (`algo.go`) | the global `SlotDuration` | `GetAddressByTime`, `GetNextHopDelay` | all of the above |
| Receive path (`conn.go`) | `recvQueue`, one pump goroutine for each socket | `packetPump`, the select of `ReadFrom` | sockets; QUIC's read loop; `Close` |
| Connection-ID translation (`conn.go`, `session.go`) | `txCounts`, `obfRNG`; `CIDCache`, `GlobalServerSessions` | short-header parts of `WriteTo` and `ReadFrom`, `AddReal`, `FindByReal`, `FindByDecoded56`, `GetCache` | the codec; the network |
| Connection-ID codec (`algo.go`) | `indicesTable` | `precomputeIndices`, `Obfuscate`, `Deobfuscate` | - |
| Calibration (`calibration.go`, `sync.go`) | predictions and sums of one call | `StartCalibrationServer`, `SyncWithServer` | UDP request and reply; the clocks of both machines |
| Transfer tasks (`client/main.go`, `server/main.go`) | the position in a script, bytes moved | `runUploadTask`, `runDownloadTask`, `handleSingleTask` | one QUIC stream |
| Auto mode (`client/main.go`, `server/main.go`) | slot and task of each program | `runAutoSlots`, `performTransferTasks`, `dialOnce`; `serveOnce`, `handleConn`, `waitForPeerClose` | QUIC's dial, accept and close; `results.csv` |
| Loss statistics (both programs) | two counters | the qlog tracer, `snapshotLoss`, `lossPercentage` | QUIC's event trace |
| Process monitor (`pkg/cpumon`) | samples, the last counters | `StartProcessMonitor`, its loop, `AverageBetween` | `/proc`; the server's handler, which starts, asks and stops it |

What is hard in it:

- **Concurrency.** Hop loop, delayed closers, pumps, `Close` and QUIC's writers
  run at the same time; `hop` releases its lock around a system call, and
  `WriteTo` uses a socket after releasing it.
- **Time.** The two ends meet only because their clocks, the latency estimate,
  the pre-binding, the close delay and the double send together cover each
  other's errors. `hop` and the constructor read the clock twice.
- **Failure.** A bind may fail, because of another process or because two slots
  have the same address; one failure must not cost more than its slot.
- **An unreliable network** carries the packets from which the receiver learns
  which connection IDs are real.
- **Lost, late and copied datagrams** in the calibration, which matches no answer
  to its request, and whose result every client packet depends on.
- **Queues and selects.** The pumps share a bounded queue; several selects have
  two ready cases, between which Go chooses at random.
- **Counters read while they move**: two loads of a loss snapshot, two files of a
  CPU sample.
- **Two programs that count separately** and repeat what failed: a task, on the
  client; a whole slot, on the server.

What makes each part correct is stated as properties, section 4. The list of
hazards in `PROJECT.json` says, line by line, what could go wrong, and which
property would show it.

## 2. Modules

| Module | Models |
|---|---|
| `HopServer` | the server's sockets, at the granularity of slots |
| `HopTiming` | the same in milliseconds, with writers and the client's targets; instantiates `HopServer` and refines it |
| `RecvPath` | the pumps, the receive queue and `ReadFrom` |
| `LossyChannel` | abstract: what the receive path promises to QUIC |
| `CidTranslation` | connection IDs from sender over network to the receiver's caches |
| `CidCodec` | the table of bit positions, encoding and decoding |
| `Calibration` | the exchange of time stamps and the estimate made from it |
| `Transfer` | one task on one stream |
| `TaskOutcome` | abstract: what the two ends of a task may conclude |
| `AutoRun` | both programs in `-auto` mode |
| `ProcessMonitor` | the sampling goroutine of a task |
| `LossStats` | the tracer's counters and the snapshots |
| `TaskMeasures` | the server's handler, composed with the two above |
| `MC...` | values of constants for TLC |
| `...Proofs` | theorems about the module of that name; those about `CidCodec` are at the end of `CidTranslationProofs`, which relies on them |

How they fit together:

- `HopTiming` implements `HopServer`, and takes the error of the client's
  estimate, `MaxError`, as a constant; `Calibration` bounds it by the spread of
  the delays and a step of the client (`ErrorBounded`).
- `RecvPath` implements `LossyChannel` for each socket; the sockets open and close
  there as they like, which includes every way in which `HopServer` does it.
  `CidTranslation`'s network, which loses, delays, copies and reorders as it
  likes, includes the order in which such channels hand packets over.
- `CidTranslation` uses a wire ID that is a real ID or a prefix and a seed;
  `CidCodec`'s round trip justifies it.
- `Transfer` implements `TaskOutcome`; a task of `AutoRun` is a step of each end
  with the outcomes that `TaskOutcome` allows.
- `TaskMeasures` is the same handler of the server seen from its measurements.

Definitions marked "Mutant of" are plausible bugs. None of the specifications
uses them; putting one in the place of its original makes the property listed
with it in `PROJECT.json` fail, which shows that the property can fail.

### HopServer

A socket is the pair of the slot whose address it listens on and the slot in
which it was bound: addresses are bound again and again, and closing one socket
must not be confused with closing another of the same address. `AddrOf` is an
arbitrary function from slots to addresses; in the code it is a hash into
253 × 20000 addresses, so two slots may share one and the pre-bind then fails
although the system is healthy.

`loop` is the program counter of the goroutine that runs first the constructor
and then the hop loop. `hop` is five actions: `HopSwitch` (first critical
section), `HopReadsClock` (the first reading of the clock), `HopBind` (the second
reading and the system call), `HopInstall` (second critical section), `HopRetire`
(start of the closer, return to the select). `prev` and `fresh` are
its local variables. `CloseRetired` is a closer at the end of its sleep. `Close`
is `CloseCancel` followed by `CloseSockets`, so that hops can come in between.
`Listen`, `PrebindFirst` and `StartLoop` are the constructor. `TimerFires` and
`LoopExits` are the two cases of the select; when both are ready either is
taken, as in Go.

A pre-bind counts from one reading of the clock, whose slot is `base`, and adds a
delay computed from another, which may come any number of slots later. `Aims` are
the slots that the sum may fall in: from `base` itself, long over by then, to the
slot after the present one; which of them it is depends on milliseconds, and
`HopTiming` computes it. The constructor's `base` is also the slot whose address
it listens on. The clock never waits for anyone. What the code promises only as
long as its goroutines keep up is stated with `late`, a history variable that
becomes true when a slot ends before the work of its goroutines has (`Quiet`), or
when a pre-bind does not aim at a later slot.
`missed` is another: the slots whose bind failed.

### HopTiming

The actions of `HopServer` with their times, for a connection that stays open:
`Close` and the end of the loop take no time that anything depends on and are left
to `HopServer`. `ms` is the offset in the slot,
`deadline`, `closeAt`, `readAt` and `writing[w].since` bound how late goroutines
may be, and `InTime` stops the clock before one would be later. `PrebindSlot`
computes what `HopServer` leaves open, from the recorded first clock reading and
`GetNextHopDelay` at the second; that it is always one of `Aims`, with any gap
between the two, is the theorem `TargetWithinAims`. `WriteBegin` and `WriteEnd` are the two halves
of the server's `WriteTo`. `Targets` is `clientWrite`'s choice of addresses, as
a function of the estimated time of arrival.

`ImplementsPromptServer` is the refinement: every behaviour of the timed server
is one of `HopServer` in which `late` never becomes true, so all that `HopServer`
says of a server that is not late holds for these delays.

### RecvPath and LossyChannel

A packet is its socket and its number in the order of arrival; the packet that
carries an error has number 0. `pump[s]` is where the pump of a socket is:
in the read, with a packet in hand, with an error to report, or ended.
`PumpReads` takes any later packet, because the socket's own buffer may overflow;
`PumpClosed` is a read that fails because the socket was closed, `PumpBreaks` one
that fails otherwise. `PumpReports` and `PumpForwards` are the two selects: the
first waits for room in the queue or for the end of the context, the second drops
the packet when the queue is full. `ReadPacket` and `ReadClosed` are the cases of
`ReadFrom`, whose caller, QUIC's read loop, ends at the first error.

`LossyChannel` says what QUIC may assume: of the packets given to a socket, some
are handed over, each at most once and in order. (In order for each socket only:
two sockets of a server are two channels.) `got` and `handed`, the last number and
the count, tell a repetition from nothing at all.

### CidTranslation

One sender, any number of connection IDs, a network that delivers each packet at
most once, at any time and in any order, or never; a double send puts a packet
into it twice. The receiver has one cache (client) or one for each source address
(server). `Deliver` keeps the two history variables that say when the network was
too bad for the scheme: `tooSoon` has, for each cache and ID, the obfuscated forms
that came there before any of the ID's clear packets had, and `inOrder` says that
nothing has been lost or overtaken so far. That an obfuscated ID, looked up as if
it were real, never equals a prefix of a real ID, and that decoding a real ID gives
noise, are assumptions about 56 random bits.

### CidCodec

The state is the computation of the table, a step of the shuffle at a time with
any outcome of the generator. Encoding and decoding are functions on bit
strings, with any noise. The bytes they are packed into are left out.

### Calibration

Time is the client's clock, the server's is ahead by `offset`. A packet under way
knows when it will arrive; what the network makes of one is a set of at most
`Copies` times (`Sent`), the empty one being its loss. The server stamps what it
receives, and answers 0 to a request that shows its own time. The client's `Send`
and `Read` are the two system calls of `sendAndRecv`; `toSend` was read from the
clock before (the first time) or computed after the last answer, so up to `Gap`
passes between. `Read` takes the first answer in the socket's buffer, whichever
request it answers, as the code does; `stale` records that it was another one's.
`GiveUp` is every way to fail, `TimesOut` the one that must come. Go's truncating
division is `Quot`. `pc = "gaveUp"` marks a result that is a constant, 10 ms or 0
after a failed dial, and not an estimate.

The 0 returned when the very first request is answered by 0 is an estimate:
the request showed the time at which it arrived, so the sum is about 0.

### Transfer and TaskOutcome

Each end runs a script of fields to read and to write, exactly in the order of
the code; the data loops are steps that repeat. A byte on the wire is the name
of the field it was written for, so `misread` records whenever an end takes a
byte of one field for one of another: nothing in the protocol would notice. A
read of data returns any number of bytes up to the buffer, as in the code
without regard to how much is missing.

### AutoRun

A task is one step of each end here; what the two may conclude is
`TaskOutcome`'s. The server writes its row after the last answer
(`HandlerSucceeds`, then `RecordResult`), so the client may be ahead of the file.
A fault is a broken connection, a timeout of two seconds against a late
answer or a row that cannot be written; `MaxFaults` bounds them. `stale` counts
connections that the client has given up while they waited for `Accept`, which
may or may not notice. When a slot of the server ends or fails, its deferred
calls close every connection (`ServeAgain`). The sockets are closed with them, so
the client is not told; a last answer that left before may still reach it, and a
connection with one is `"late"`: its task succeeds or fails.

The failure of `NewServerConn` inside `serveOnce` is not modelled here: the loop
tries again at once and nothing else changes.

### ProcessMonitor, LossStats, TaskMeasures

The monitor's time is counted in jiffies, of which all CPUs together count
`Cpus` at a time; the process uses any part of them. A sample is two actions
(`SampleTotal`, `SampleProc`) because the code reads two files; `apart` keeps how
much was counted between. A sample also records the sums of all samples so far
(`totals`, `procs`, history), so that a run of samples is a difference of two
sums. `SharesBounded` is about these sums of jiffies; the code averages the
percentages of the samples, which is the same only when the samples cover equally
many jiffies. The ticker's channel holds one tick and drops the next. It is created by the
loop's goroutine when that first runs (`NewTicker`), any time after the constructor
has returned, even after the end of the transfer; `begun` (history) is when.

`LossStats` has the tracer's counters; a packet stays `outstanding` until it is
acknowledged or declared lost, at any time. A snapshot is two loads.

`TaskMeasures` is `handleConn` with `handleSingleTask`: `pc` names the next thing
it does. `Returns` may come at any point, as the stream may fail at any point, and
runs the deferred stop of the monitor.

## 3. Runs

| Run | Bounds | Shows |
|---|---|---|
| `HopServer_hops` | slots 0 to 5; 1 and 2 share an address, and 3 and 5; any bind may fail; goroutines delayed without limit, between the two clock readings of a pre-bind too; `Close` at any time | the sending socket is bound, none is forgotten, no hop goes back, `Close` ends everything but for a bounded orphan; while nobody is late, each slot is served from its address unless that could not be bound, with at most three sockets |
| `HopTiming_both` | slots 0 to 5 of 8 ms, all starting offsets, close delay 2, double send 3, error 4, two writers | arrivals are accepted, writes succeed, the prompt server is implemented |
| `RecvPath_pumps` | two sockets, 3 packets each, a queue of 2 | a lossy channel for each socket, no silent socket, retired sockets unnoticed, an end after `Close` |
| `CidTranslation_any` | four IDs, two with the same 56 bits and one whose 56 bits are zero, 2 clear packets each, 4 packets in all with double sends, two addresses, any network | QUIC gets the right ID unless that form of it came before every clear packet; no misrouting; what is learned stays |
| `CidCodec_small` | 2 payload bits, 2 seeds | rows are permutations; round trip |
| `Calibration_sync` | all three exchanges, delays 1 to 2, two copies, timeout 4, server ahead by 4, 0 or -3 | the error of the estimate; never ahead; the call returns |
| `Transfer_both` | both kinds, 5 bytes of data in chunks of 2, fields of 2 bytes, window 5, connections lost at any time | alignment, no partial count, return of both, success unless the connection is lost, the abstract outcome |
| `AutoRun_faulty` | 4 slots with a repeated duration, 3 tasks, 3 faults | no counted result is lost; nobody runs away; without a fault both finish |
| `TaskMeasures_task` | one CPU, 5 jiffies, an interval of 2, one packet in and one before the task | CPU shares, loss counts, samples of long tasks however late the loop begins, the end of the monitor |

Why the bounds are enough. A socket lives for at most three slots when
goroutines keep up, and the slots 0 to 5 contain every overlap of a socket with
its successors, as well as a hop that stops between its clock readings for
longer than that, so that its target is over before it is computed; the address
function contains the two ways in which a clash can meet a live socket: with the
current one and with the one just retired. In `HopTiming` only the ratios of the
delays to the slot matter; the error of the estimate is the largest that the
close delay and the double send together cover (`MaxError = CloseDelay +
Threshold - 1`). In `RecvPath` a queue of 2 is full with one packet of each
socket or two of one, and 3 packets contain a drop between two deliveries. In
`CidTranslation` the limit of 10 clear packets becomes 2: what matters is
whether none, some or all of them have come to a cache when an obfuscated packet
does, and whether its form has been there before; 4 packets of one ID leave all
of that open. In `Calibration` all exchanges of the code are there; the delays
differ by the smallest spread, a copy may come after the next request, and the
offsets give a zero answer at the first request, at a later one and never. The
bounds are tight: one less in either direction of `ErrorBounded` fails. The
tasks of `AutoRun` are alike, so three stand for twenty. In `TaskMeasures` QUIC
counts only between the snapshots and only in tasks without a monitor: monitor
and counters share no variable, so each is seen interleaved with the handler in
every way. One more packet of either kind changes no comparison, and the theorem
`LossesAlwaysExplained` holds for any number.

Deadlock is checked except in the runs whose model may stop because a bound is
reached or the modelled call has returned: `RecvPath` (all packets given, all
closed), `CidTranslation` (all packets sent), `Calibration` (the call has returned),
`TaskMeasures` (the handler has returned and time is up).

**Fairness.** `HopServer`: the Go runtime schedules every goroutine that can
run (hop loop, closers, the second half of `Close`); nobody has to call `Close`,
and the clock need not go on. `RecvPath`: pumps and QUIC's read loop run; nothing
has to arrive or break. That suffices for `CloseEndsReading` although
`ReadFrom`'s select is random: `Close` closes the sockets, so only a finite backlog
can be preferred to the cancelled context (`MaxGiven` bounds it in the model).
`Calibration`: time
passes, what the network delivers is delivered, the client runs; `Tick` never
passes the moment at which something is due. `TaskMeasures`: the loop runs, and
strong fairness for its exit: when tick and cancellation are both ready Go's select
takes either with equal chance, so it does not prefer ticks for ever. `Transfer`:
both processes run, and an end notices
that its peer's connection is gone, by its CONNECTION_CLOSE or the idle timeout;
nothing forces a connection to be lost. `AutoRun`: both programs run and steps
that no fault hits happen; faults are never forced.

### Findings

Three runs expect a violation: what the code does differs from what a comment or
a message says of it.

| Run | What it shows |
|---|---|
| `HopServer_leak` | A hop that is under way when `Close` comes binds a socket that nobody closes (conn.go:182; the comment at line 54 promises no leaks). `OrphanBound` says it is one, or two if the loop had fallen behind. |
| `CidTranslation_migrate` | Connection migration, which server/main.go:168 allows, leaves the server with an empty cache and obfuscated packets, although nothing is lost or reordered. |
| `AutoRun_retry` | One failed task makes the server restart its slot; the client finishes first and both wait for ever. |

Further consequences of the same code, without a run of their own:

- If all the clear packets of an ID are lost or overtaken, an obfuscated ID is
  stored as a real one (conn.go:263); that is the second case of `RealDelivered`,
  and `LearnedForGood` says the cache is right from the first clear packet on.
- If more than a millisecond passes between the two clock readings of a
  pre-bind (conn.go:64 and 79, or 179), it may aim at the current slot, or at one
  that is over: it then fails, or the server hops to an address at which nobody
  looks for it. `HopsForward` holds all the same; `ReadGap = 1` in
  `HopTiming_both` excludes the rest.
- Without pre-binding (`-pre`) the server never hops: no code binds the address
  of the current slot after the constructor. `OutageExplained` and
  `CurrentFollowsSlot` therefore need it in the theorems.
- A copied answer that comes late is taken for the answer to the next request,
  and the estimate may be too small by more than the spread (calibration.go:95):
  `ErrorBounded` excludes it by `stale`, `NeverAhead` does not.
- A transfer that ends within an interval and the time of a sample, or within that
  time after the monitor's goroutine first ran, may be recorded with 0 % CPU, and a loss percentage may exceed 100: `LongTaskSampled` and
  `LossesExplained` say when.

## 4. Properties

The type invariants apart:

- `CurrentListening`, `SocketsOwned`: at every moment of any interleaving, the
  socket that `WriteTo` uses is bound and not about to be closed, and no bound
  socket is without somebody who will close it.
- `AtMostThreeOpen`, `CurrentFollowsSlot`, `OutageExplained`, `HopsForward`: the
  server is where clients expect it, and where it is not, the reason is a failed
  bind of that very slot.
- `OrphanBound`, `CloseQuiesces`: the end of a connection.
- `ArrivalAccepted`, `WritesSucceed`, `ImplementsPromptServer`: the delays fit.
- `ImplementsLossyChannel`, `NoDeafSocket`, `RetiringUnnoticed`,
  `CloseEndsReading`, `PumpsEnd`: what QUIC gets, and learns of, from the sockets.
- `RealDelivered`, `NeverMisrouted`, `LearnedForGood`: connection IDs over any
  network.
- `RowsInjective`, `RoundTrip`: the codec.
- `ErrorBounded`, `NeverAhead`, `SyncReturns`: the estimate that addresses are
  chosen by.
- `FieldsAligned`, `NeverCutShort`, `BothReturn`, `BothSucceed`,
  `ImplementsOutcome`: the transfer protocol.
- `ResultsRecorded`, `NeverRunsAway`, `AutoCompletes`: the two programs.
- `SharesBounded`, `LossesExplained`, `LongTaskSampled`, `MonitorEnds`: what is
  measured of a task.

Each module has one type invariant, proved for all constants (`Calibration`'s as
a part of its `IInv`); those of `HopTiming`, `Transfer`, `AutoRun` and
`TaskMeasures` are no part of the runs, whose time goes to the properties above.

## 5. Proofs

All theorems hold for every value of the constants that satisfies the
assumptions stated in the modules (`HopConstants`, `TimingConstants`,
`RecvConstants`, `CidConstants`, `CodecConstants`, `CalibrationConstants`,
`TransferConstants`, `AutoConstants`, `MonitorConstants`, `LossConstants`). Some
have a hypothesis of their own, named in the theorem:

| Hypothesis | Says | In |
|---|---|---|
| `PrebindEnabled` | the server binds ahead | the theorems about slots without a listener |
| `Prompt` | a hop, the close delay and another hop fit into a slot, the constructor into the rest of the first, a pre-bind reads the clock twice within 1 ms | all theorems about `HopTiming` |
| `WritesShort` | a write takes less than the close delay | `WritesAlwaysSucceed` |
| `ClientsAccurate` | the error of a client's estimate is less than threshold and close delay together, and fits into a slot | `ArrivalsAccepted` |
| `SamplesPrompt` | `/proc` is read before the ticker fires again | `LongTasksAlwaysSampled` |

The run `HopTiming_both` uses values that satisfy the three about time
(`MCDelays`, which TLC evaluates); in the code the delays are 50 ms, slots from
100 ms on. With `Late = Interval` a tick can be dropped and `LongTaskSampled` fails,
which is why it needs `SamplesPrompt`.

**HopServer.** `IInv` has three parts besides the types. `Shape` says which
fields are set at which step of the constructor and the hop. `Ownership` says
that while the connection serves, the open sockets are exactly accounted for by
the fields and the closers, and that `current` is not with a closer. `Order`
says that the slots of `current`, `next` and `fresh` increase: it is what tells
a socket that is being retired from the ones in use, since an address alone does
not. `CurrentListening` is not inductive by itself: it depends on `next` being
open when it is promoted, which depends on the closers not holding it.
`CurrentAlwaysListening`, `SocketsAlwaysOwned` and `HopsAlwaysForward` follow
without any assumption on time. `OutagesExplained` and `CurrentSlotFollowed` add
`Cover`, which follows the slot of the next socket through the phases of a hop as
long as nobody is late; `NeverMoreThanThree` and `OrphansBounded` add `Tidy`, which
counts the sockets a closer may hold and those left after `Close`.

**HopTiming.** The proofs take `HopServerProofs` as an instance, so nothing it
shows is shown again: `Server` is its `IInv` and `Cover`, of a server that is not
late. What keeps it from being late is `Clock`: while the loop is busy there is a
deadline before which the clock cannot pass, each pre-bind has read the clock at
most `ReadGap` before, and closers are due `CloseDelay` and a hop after the start of
a slot. `PromptServerImplemented` follows: each step of the timed server maps to a
step or a stutter of `HopServer`, in which `late` stays false. `ServerUpToDate`
combines it with the theorems of `HopServerProofs`, and so turns every "unless the
goroutines are late" there into a condition on the delays. For `ArrivalsAccepted`,
`Bound` says which slots there are sockets for, and `Earlier` that the socket of the
slot before is still open `CloseDelay` into the slot, or as long as the slot has
none of its own; the proof then goes through the slots that an estimate may fall
in, before, in or after the current one, and the packet's two targets. `Writes`
follows the socket that each writer holds until its closer is due.

**RecvPath.** `Numbered` says that what is in the queue or in a pump's hand is newer
than what QUIC has of that socket, no newer than what was read, and in order; with
it every step maps to a step or a stutter of `LossyChannel` (`IsLossyChannel`).
`Errors` says where an error may be between a pump and QUIC, and that it cannot be
lost on the way: the select that reports it has no default.

**CidTranslation.** `IInv` says that entries of the index are entries of the
cache whose prefix is the key, that every wire ID in flight belongs to the ID it
was sent for, and that a real ID in a cache has its prefix in the index
(unless the prefix is the one whose hash is zero). `DeliversReal` adds that packets
up to `ClearLimit` are clear, that a clear packet that has arrived was learned, and
that an obfuscated form among a cache's entries came too soon. No assumption on the
network is needed for any of them.

**CidCodec** (in `CidTranslationProofs`). `CodecInv` says that the row under construction and all finished rows
are injective. `RoundTripHolds` follows from injectivity: each position of the
encoding is written by one bit only.

**Calibration.** `ErrorBounded` speaks of the end of the call only, so `IInv`
follows what it is made of. `Letters` says of each packet under way or in the
buffer when it was sent and stamped, as seen from the current attempt. `Sampled`
and `SampledFresh` bound twice the sum of the samples: half a round trip is taken
off each and added again, so what remains are the forward delay and the roundings,
which the factor 2 keeps in integers. The lower bound needs `~stale`, the upper one
does not: that is why `NeverAhead` holds for copied answers too. `MeanOfThree`
accounts for the three truncating divisions.

**Transfer.** The whole of the protocol is four scripts of seven or eight steps.
`Layout` is the stream that each end writes: which field its j-th byte belongs
to. `Out` and `In` say how many bytes an end has written and read at each step of
its script, and `ScriptsFit` that every step of every script moves just the bytes
that the stream has there. `IInv` then says that what is under way in a direction is
the piece of the stream between what one end has read and the other written
(`Streams`), and `Places` what the step of an end says of the data it has moved.
The delicate step is the receiving of data, which takes whatever has arrived:
`AtRecv` shows that the sender cannot have got beyond the data, because before that
it waits for an answer, or has nothing else to send, until the receiver has all of
it. `AllWritten` gives `NeverCut`. `OutcomesAllowed` rests on `AtLast`: the last byte
the client reads is the last that the server writes, in the step in which it
returns. That is the safety half of `ImplementsOutcome`; its fairness is TLC's.

**AutoRun.** The two programs count for themselves, so `IInv` relates the counts
through the connection. `Connected` says at which step of the server the client's
connection may be, that both are at the same duration while it works, and that one
with a last answer still on its way finds the server at the start of a slot;
`Working`, that a server busy with a connection has the duration of the client, or
the client has passed that slot since; `Credited`, that a row is written, failed, or
pending for each task the client has counted or may count without any further step
of the server. `ResultsRecorded` alone is not inductive: the client counts a task
when it has the last byte, and only `Credited` says that the server has then been
through it. `Connected` and `Working` make `NeverRunsAway` inductive: a program moves
on only after it has worked with the other at the duration it leaves.

**TaskMeasures.** Three invariants. `LossInv` says, from each load on, how what is
lost or may still be lost is bounded by what was pending at that load and what has
been sent since. `ShareInv` has `SharesBounded` for a run of samples that would end
now (`Counted`): since each sample, the process has used no more than there was.
With the sums recorded in the samples this is a comparison of numbers and needs no
induction over a range. `TickInv` says that no tick is dropped, and that while a task is
measured and the loop has begun there is a sample since the start of the transfer, or
the tick of one on its way, or the ticker fires within an interval from the later of
the two.

Only model-checked is liveness (`CloseQuiesces`, `CloseEndsReading`, `PumpsEnd`,
`SyncReturns`, `BothReturn`, `BothSucceed`, `AutoCompletes`, `MonitorEnds`, and the
fairness of `TaskOutcome` in `ImplementsOutcome`), which is beyond the prover. Every
invariant and every action property of the passing runs is proved.

## 6. Not modelled

- Long-header packets and packets too short for an ID: passed unchanged.
- The client's local socket on the sending side: a failing write returns its error
  to QUIC and changes no state of the connection.
- The hash that makes addresses, the noise generator, `GenerateMask`,
  `cpumon.Monitor` and other code that is not called; `StartPeriodicCalibration`,
  also not called.
- The data race on `txCounts` and `obfRNG` when two connections of one transport
  write at once. Each ID's packets are written by one goroutine. The generator is
  `math/rand`'s and not safe for concurrent use: a wrong seed would be as good as
  another, but the generator may also panic, and the models do not say that it does
  not.
- Clocks that drift during a run, and delays that change their range after the
  calibration: the code has no defence that could be checked. The estimate of
  `ErrorBounded` is right for later packets under constant conditions only.
- Kernel counters that step back. The monitor's differences are unsigned, so a total
  that is less than the one before makes a share near 0, and the next share too
  large; how counters do that is the kernel's.
- QUIC itself: a reliable ordered stream that may break, and `Dial`, `Accept`
  and `CloseWithError` as the programs use them.
- TLS certificates, flags, printing, the header and format of the results file:
  no influence on the rest.
- The plain mode of the server, an endless accept loop with a goroutine for each
  connection. Each runs the handler of `Transfer` and `TaskMeasures`; what they
  share are the loss counters, whose packets may be any connection's in `LossStats`
  already, and the results file, which is only appended to.

## 7. What is left

The modules cover all parts that change state, and every safety property of the
runs has a theorem. What would say more: `RecvPath` with the sockets of
`HopServer` in the place of sockets that come and go freely, so that the channels
QUIC sees are those of a hopping server; `CidTranslation` with `CidCodec` in the
place of prefixes and noise; and `MaxError` of `HopTiming` derived from the
`ErrorBounded` of `Calibration` in a theorem and not only by its statement.
