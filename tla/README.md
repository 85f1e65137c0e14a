# CanNodeSimulator: specifications, model checking and proofs

This directory describes the program in TLA+: how a command line, an EDS file
and a configuration become an object dictionary and PDO definitions, what the
process's threads do to each other, what frames and keywords do to the
dictionary, how the process ends. TLC checks small instances, TLAPS proves the
safety properties of every component for all values of the constants: any number
of threads, entries, PDOs and files, any widths and periods. File names below are
those of the repository (`src/`, `include/can_node_sim/`).

## The system

The program simulates one CANopen node. `main` parses an EDS file, applies a
YAML configuration to the object dictionary, builds the PDO definitions, and
creates a simulator, a CAN transport and the keywords. It then starts a Robot
Framework remote server whose workers call the keywords, starts the transport,
and waits for SIGINT.

| Component | State it keeps | Operations | Threads |
|---|---|---|---|
| `SocketCanTransport`, lifecycle | `running_`, `socket_fd_`, `rx_thread_`, `tx_thread_`, `send_mutex_` | `Start`, `Stop`, `SendRawFrame_` | main, keyword workers, its two loops |
| `SocketCanTransport`, transmission | `nmt_state_`, the due times | `TxLoop_`, `SendNmtCommand`, `SendHeartbeat`, `SendEmcy` | its transmit loop, workers |
| `SocketCanTransport`, data path | RPDOs by COB-ID, TPDOs by number (fixed) | `HandleFrame_`, `DecodePdoPayload`, `SendTpdo`, `SendSynchronousTpdos_` | receive loop, transmit loop, workers |
| `CanNodeSimulator` | `dictionary_` under one mutex | `ReadOd`, `WriteOd`, `ReadPdoSignal`, `WritePdoSignal` | all of them |
| keyword specifications (`main.cpp`) | none | one lambda per keyword, argument conversion | workers |
| `RobotKeywords` | none | one method per keyword, text conversion | workers |
| `ConfigLoader` | none | `LoadText`, `ApplyToDictionary` | main, before any other thread |
| `PdoBuilder` | none | `Build` | main, before any other thread |
| `EdsParser` | none | `ParseFile` | main, before any other thread |
| `main` | `g_stop_requested` | start-up, waiting, shutdown | main, signal handler |

How they interact. Workers and main call the transport directly; nothing above
it serialises `Start`, `Stop` and sends. The receive loop calls into the
simulator (decode) and, for a SYNC, back into its own sending path (encode and
send). The transmit loop reads and, through `SendHeartbeat`, writes
`nmt_state_`. Every send of every thread meets in `SendRawFrame_`, the only
code under `send_mutex_`. The simulator's mutex is held for one entry at a
time. The definitions of PDOs are copied at start-up and never change.

What is hard about it:

- `Start` and `Stop` change the descriptor and the thread fields with no lock,
  and the descriptor number is reused by the rest of the process.
- `Start` stores the socket in the field the loops read before it has a timeout.
- `Start` can fail in seven places, `Stop` waits for threads that block.
- `nmt_state_` is loaded and stored back in two steps by the heartbeat.
- A PDO of several signals is read or written in several critical sections.
- A decode that fails leaves the signals before the failure written.
- Loop variables and indices are of 8 and 16 bits, fed from a file.
- A writing keyword takes the simulator's mutex twice.
- The server is up before the signal handler is, and before main's own `Start`;
  at the end main stops the transport before the server.
- The last one wins in six places of start-up (options, sections, fields,
  items, defaults, overrides), in one of them in no particular order.

What makes each component correct: the loops own a valid socket as long as they exist, a
stopped transport has left nothing, `Stop` returns, nobody does I/O on a foreign
descriptor, the process is not terminated by a thread assignment, no read is without a
timeout; the NMT state comes from somewhere and is not lost; periodic items are neither
dropped nor sent in bursts; protected entries keep their values, every write is checked
against the entry's type, whoever writes and whatever an override had left there, a
frame changes only what it carries, a payload is what the dictionary held if that did
not change meanwhile; the builder ends and builds what the dictionary says, overrides
win and touch only what they name; the parser's entries are what the file says; a
keyword is one operation with one answer, and a number it reads can be written back;
SIGINT ends the process and main leaves nothing. `PROJECT.json` lists the hazards by
line.

## Modules

| Module | Models |
|---|---|
| `TransportLifecycle` | the abstract promise: open, run, stop, close, loops only in between |
| `SocketCanTransport` | lifecycle, loops and `SendRawFrame_`, step by step |
| `TxLoop` | periodic transmission and `nmt_state_` |
| `PdoExchange` | dispatch, decode, encode, keyword writes |
| `Node` | main from `server.start()` to the destructors, around `SocketCanTransport` |
| `Values` | texts, values, their parsing and compatibility |
| `EdsParser` | the parser as operators on lines and sections |
| `Startup` | command line, `LoadFile`, `ParseFile`, `ApplyToDictionary`, `PdoBuilder::Build` |
| `OdStore` | the abstract promise of keywords: one atomic operation each, always answered |
| `Keywords` | requests of the server, their conversion, execution and answer |
| `<component>_proofs` | theorems: of `SocketCanTransport`, `TxLoop`, `PdoExchange`, `Node`, `Startup`, `Keywords`; `EdsParser_proofs` has those of `Startup` about command line, parser and the end of start-up |
| `Recursion` | induction and recursive functions on the natural numbers, for the proofs |
| `MC*` | instances for TLC, with their `.cfg` files |

Definitions named as a "Seeded fault" are wrong versions of the action that
follows them, used only to confirm that a property notices the fault.

### SocketCanTransport

One step of a thread is a stretch of code with at most one access to state
another thread writes. `pc` says where each caller is and what a loop does; a
loop whose `pc` is not `"absent"` is a joinable `std::thread`, and `"done"` is
one that returned and waits for its join. `Start` is `StartBegin` (the test of
`running_`), `OpenSocket`, `Bind` (with the interface's index), `SetTimeouts` (two
options), any of which fails, `SetRunning`, two `Assign`s of a thread. A descriptor is
free, somebody else's, a `"new"` socket of the transport without timeouts, or a `"can"` one
with them. `SpawnFails` is a constructor that
throws; `Assign` is `Spawn`, or `SpawnOverJoinable`, which calls `std::terminate`
(`aborted`). `Stop` is `StopBegin`, for each loop `JoinSkip`, or `Join` and
`JoinEnd`, then `CloseSocket` and `ClearFd`; `Join` is `JoinBegin`, or `JoinRefused`
if another caller is joining the thread already. Only overlapping callers get to
`SpawnOverJoinable` and `JoinRefused`; `Node` has them. What the C++ standard leaves undefined for
unsynchronised calls (a torn field, a `std::thread` moved while joined) is taken
as what Linux and libstdc++ do with word-sized fields.

`SendRawFrame_` is `Acquire`, `CheckClosed` or `CheckOpen`, `WriteFrame`. The
write may use the number tested or the one in the field now, as the compiler is
free to load it once or twice. `stray` remembers who did I/O on a descriptor of
somebody else; `OtherOpen` and `OtherClose` are that somebody, with POSIX's rule
that the lowest free number is taken.

`RxEnterRead` takes the number in the field: a `"can"` socket is read until a frame or the
timeout (`"reading"`), a `"new"` one or a foreign descriptor until something arrives, if it
ever does (`"blocked"`, left by `RxArrival` only), a closed number not at all. `shutdown()`
in `Stop` wakes nobody, as raw CAN sockets do not support it.

The payload is abstract here. `todo` counts the frames a loop still has to
send for a SYNC or in a pass.

### TxLoop

Due times are ticks left, so time needs no unbounded clock: the code compares
them with now only. `elapsed` is the time since the pass read its clock, which
is what a due time computed from the pass's `now` is late by, and is capped at
the longest period. `TxLoad`, `TxStore` and `TxSend` are
`SendHeartbeat(nmt_state_.load())`. Sends may fail anywhere. `busCommands`,
`announced`, `requested`, `exposed` and `passAge` are history variables.
Commands to another node change nothing here and are left out.

### PdoExchange

A value is the alternative of its `std::variant` with a number. Each signal of
a PDO is a step (one hold of the simulator's mutex), so keyword writes and the
other threads' signals come in between. `Refusal` lists the tests of
`DecodePdoPayload` and `WritePdoSignal` in the code's order. `snaps` records the
values a PDO had during the call that encodes it, `intact` whether a keyword
wrote during a decode. Bytes have `ByteBase` values: the conversions are
those of the code with 256 replaced. A keyword's text is its number; `stoull`
wraps negative ones as it does in the code. An entry starts with what the parser or
`od_defaults` have for its type, or with the unsigned number an override puts into an entry
of any type (`InitialValues`). `KeywordWrite` is one step, as the entry's type and access,
which it reads under the first lock, never change; `Keywords` has the two locks.
`SnapshotUnlessOverlapped` judges the calls during which no entry of the PDO changed: what a
payload may mix when one did, no document says.

### Node

Extends `SocketCanTransport`; every step of the transport is one of that module,
taken by main at its places in the code (`mainPc`) and by the workers while the
server is up. main's exceptions unwind to the destructors: `server` and
`transport` are destroyed in that order, `~SocketCanTransport` calls `Stop`, and
the `std::thread` members abort the process if they are joinable. `Interrupt` may
come at any moment; before `InstallHandler` it ends the process. `Descriptors` is what the
server's connections do to the descriptor table, `ReadReturns` the end of a read without
timeout. The server
is a library: that its stop refuses new calls and waits for those in progress
(`Drained`) is what main relies on, and an assumption here. `raced` remembers
whether two calls of `Start` or `Stop` were ever in progress at once.

### Values, EdsParser, Startup

A text is a sequence of tokens: marks and quotes are tokens, what stands between
them is a word, blanks are gone. What the C library reads at the head of a word
(`IntegerOf`, `RealWords`, `DecimalOf`) and case folding (`LowerOf`) are constants.
Operators that may throw return a set, empty when they throw. `stoull` wraps
negative numbers, `stoll` and `stoull` stop at the first character they do not
know: `2*$NODEID` is 2, as in the code. The reference of `ParsedMatchesText` (`Meant`) has the
documented forms only: a number, read to its end (`Literals`), `$NODEID`, a sum of the two.
Of other forms it asks nothing: the README lists them as failing or ignored, the code takes
the number before the operator, and the hazard at `EdsParser.cpp:75` is covered by no property.

`Startup` is one thread: each option, line, section, default, override section
and mapping entry is a step. A configuration is what yaml-cpp hands over, items in
the order of the file; `Loads` has the checks of `LoadText`, `SectionOf` that the
last item of a number wins. `od_defaults` is an unordered map, so `ApplyDefault`
takes any default that is left. Widths of bytes, words and longs are constants.
`MaxSignals` bounds a list that would otherwise grow for ever in the case that
does not end. `eds` is a history variable.

### OdStore, Keywords

`Receive` takes a request of the server, `Refuse` or `Convert` is the lambda up to
the call with its casts, then `Read`, `List`, `Transport`, or `ReadEntry` and `Write`,
the two critical sections of a writing keyword; `Return` gives the answer.
`FrameWrite` is the receive thread's write of one signal. The refinement maps the
dictionary to `OdStore`'s store; `Alone` says what a request does when nobody comes
in between. Texts and casts are as in `Values`; reals are not told apart, and what
the transport answers is left open (the other modules say what it does). As in `PdoExchange`,
an entry may start with the unsigned number of an override (`Overrides`). Widths are those of
the alternatives, 64 bits: no code looks at the width of an entry's type.

## Runs

Passing runs:

| Run | Instance | Checks |
|---|---|---|
| `transport` | one controller that also sends, one more sender, two descriptors, one SYNC TPDO, up to two frames in a pass | `TypeOK`, `LoopsHoldSocket`, `QuiescentStop`, `NoAbort`, `StrayOnlyFromOutsiders`, `SerialInv`, `ClosesItsOwnSocket`, `StopCompletes`, `ImplementsLifecycle` |
| `node` | main, one worker that starts, stops and sends, two descriptors, no frames in a pass | `NodeTypeOK`, `NodeInv`, `AbortOnlyAfterOverlap`, `ExitIsClean`, `ShutdownCompletes`, `CooperativeExit` |
| `tx_loop` | one worker, heartbeat of 3 ticks, a TPDO of 2 | `TypeOK`, `NoStateFromNowhere`, `KeptUnlessExposed`, `NoBurst`, `EveryItemServed`, `HeartbeatCatchesUp` |
| `pdo_exchange` | receive thread, one sender, keywords; 4 entries, 7 PDOs | `TypeOK`, `ExchangeInv`, `DecodeDelivers`, `SnapshotUnlessOverlapped`, `WritesAreChecked`, `NothingBeyondPayload` |
| `startup` | 180 EDS texts for the parser, 42 for the builder, 92 configurations, command lines with every option, and options as arguments of others | `TypeOK`, `InputsInv`, `BuildInv`, `ParsedMatchesText`, `DictionaryMatchesInputs`, `BuildMatchesDictionary`, `MappingsKept`, `StartupEndsUnlessFull` |
| `keywords` | two workers, five entries, 16 requests | `TypeOK`, `CallInv`, `WriteBackKeepsNumber`, `ImplementsStore`, `EveryRequestAnswered` |

`SerialInv`, `NodeInv`, `ExchangeInv`, `CallInv`, `InputsInv` and `BuildInv`
are the inductive invariants of the proofs: what holds half-way through a call or a loop.

Runs that end in a counterexample, each against a sentence of the repository:

| Run | What happens |
|---|---|
| `start_race` | main's `Start` and a keyword's pass the test of `running_`; the second assigns over a joinable thread: `std::terminate` |
| `blocked_read` | a keyword's `Start` stores its socket while main's spawns the receive loop, which reads it before it has a timeout |
| `stray_frame` | a `Start` that fails, or a `Stop`, closes the socket of a sender that holds `send_mutex_`; the number is reused and the frame goes there |
| `lost_update` | the heartbeat stores back the NMT state it loaded before a keyword changed it |
| `signed_rpdo` | a receive PDO mapped to a signed entry is always refused |
| `full_count` | a mapping count of 255 keeps the builder in its loop |

`ShutdownCompletes` makes an exception of calls that overlapped. `blocked_read` is one thing
they can leave behind: a `Stop` that joins the loop then waits for a frame, unless the second
`Start` gets to its assignment first, which is `std::terminate` (`start_race`).

In the trace of `stray_frame` it is a `Start` whose bind fails: it has closed the socket and
not yet reset the field when the sender tests it. With `Stop` the same happens between its
close and its reset, or between a sender's test and its write.

Why the bounds are enough. *Descriptors*: reuse needs one number that changes hands; the
second makes "lowest free" and a socket at either number happen. More senders only
repeat what one does, since `send_mutex_` admits one at a time; the theorems hold for
any number. `NSync` and `NDue` make a pass end with none, one or two frames. *TxLoop*: 2
and 3 have every phase between the two items, including both due at once, and `Tick` may
delay a pass by more than a period. *PdoExchange*: two signals are the least that can
tear, the mappings include a repeated identifier, a constant, a signed and a missing
key, a short and a long frame, and a payload over the limit; `MaxSnaps` allows two
changes during one call. Base 2 keeps order and truncation of bytes visible. *Node*:
main and a worker are the least that can overlap; two numbers let each of them have a
socket, or one socket and its next owner, and a loop meets all of them. Its loops
send nothing in a pass, which keeps liveness within reach: sends end by themselves and
`transport` has them in `StopCompletes`. *Startup*: with bytes of 8 values and words
of 16 numbers the counts absent, 0, 2, 3, 10 (cut to 2) and 7 (full) all occur, PDO
numbers past the range of 2 reach mapping objects, the other direction and round the
word; every form of a default value, documented or not, is under every type, with
and without a second section of the same object in other letters. *Keywords*: two
workers are the least that can come between the two critical sections; 17 is cut to 1,
40 and a double of 1000 are out of range of a long of 6 bits, -1 wraps. Two entries may
start with an override's number their type does not allow. Requests cover each keyword
but those that differ in the transport call only, and each way a conversion fails.

Deadlock is checked except in `node` and its companions, where the process exits or
is terminated, and in `startup` and its companion, where start-up ends.

Fairness. In the transport every step of a call or loop that has begun is weakly
fair: threads get the processor, and `read`, `write` and the sleep end by
themselves (`SO_RCVTIMEO` and `SO_SNDTIMEO` are set to 100 ms for this purpose,
`sleep_for` is 10 ms). A read of a socket without `SO_RCVTIMEO`, or of a foreign
descriptor, need not end (`RxArrival`); a write to one is taken to end, as frames are small
and go to a buffer. Nobody is obliged to call anything. Taking `send_mutex_` is
strongly fair: `std::mutex` promises nothing, but each holder sleeps, reads the
bus or answers a client between two sends, for much longer than a waiter needs
to wake up. `TransportLifecycle` states weak fairness of leaving only. In
`TxLoop` the loop, calls in progress and time are weakly fair, and a heartbeat
that is tried again and again is sent at some time (strong fairness of a
successful send, needed by `HeartbeatCatchesUp` alone). `Node` takes the
transport's fairness over and gives main the same; SIGINT need not come. In
`Keywords` a worker goes on with what it has begun: the simulator's mutex is held
for one entry, by threads that do other things in between. `Startup` is one thread
that never waits.

## Proofs

Each `_proofs` module proves theorems of its component's specification from the
assumption its module states about the constants; TLC evaluates these assumptions
in the runs. The proofs of `Node` use lemmas of the transport's.

| Module | Theorem | Property |
|---|---|---|
| `SocketCanTransport_proofs` | `TypeCorrect`, `SerialInvariant`, `LoopsHoldSocketHolds`, `QuiescentStopHolds`, `NoAbortHolds`, `ReadsInterruptibleHolds`, `StrayOnlyFromOutsidersHolds`, `ClosesItsOwnSocketHolds` | all its safety properties |
| | `ImplementsLifecycleSteps` | the steps of `ImplementsLifecycle` |
| `Node_proofs` | `NodeTypeCorrect`, `NodeInvariant`, `AbortOnlyAfterOverlapHolds`, `ExitIsCleanHolds` | all its safety properties |
| | `LoopsHoldUntilOverlap` | the transport's, for many controllers that take turns |
| `TxLoop_proofs` | `TypeCorrect`, `NoStateFromNowhereHolds`, `KeptUnlessExposedHolds`, `NoBurstHolds` | all its safety properties |
| `PdoExchange_proofs` | `TypeCorrect`, `ExchangeInvariant`, `DecodeDeliversHolds`, `SnapshotUnlessOverlappedHolds`, `WritesAreCheckedHolds`, `NothingBeyondPayloadHolds` | all its safety properties |
| | `RoundTrip` | encoding what was decoded gives back the bytes |
| `Keywords_proofs` | `TypeCorrect`, `CallInvariant`, `WriteBackKeepsNumberHolds` | all its safety properties |
| | `ImplementsStoreSteps` | the steps of `ImplementsStore` |
| `Startup_proofs` | `ConfigInvariant`, `TypeCorrect`, `MappingsKeptHolds`, `DictionaryMatchesInputsHolds`, `BuildInvariant`, `BuildMatchesDictionaryHolds` | configuration, overrides and builder |
| `EdsParser_proofs` | `CommandLineInvariant`, `ParsingInvariant`, `InputsInvariant`, `ParsedMatchesTextHolds` | command line and parser: with these all safety properties of `Startup` |
| | `StartupCountsDown` | the progress behind `StartupEndsUnlessFull` |

### What the proofs assume

- `TransportAssumption`: callers are not named like the loops, bounds are natural
  numbers. The theorems that need it also assume `Serial`: at most one thread
  calls `Start` and `Stop`. The runs `start_race`, `blocked_read` and `stray_frame` show that
  it, and the restriction to loops and controller, cannot be dropped. `Node_proofs` does
  without it: there, `raced` says when it stopped being true.
- `TxAssumption`: periods are positive (the code keeps an item only then), states
  and commands are bytes, there is a longest period, as there are finitely many items.
- `PdoAssumption`: types and accesses are those of the enumerations, mappings are
  sequences, bytes have at least two values, payloads consist of bytes.
- `KeywordsAssumption`: an entry starts with a value of its type or with the unsigned
  number of an override, of 32 bits at most, whatever its type; a number printed by
  `std::to_string` is read back by `stoll` and `stoull` as that number, 0 and 1 are printed
  as such, and the words for Boolean values are no numbers.
- `SetupAssumption`: widths are ordered, the four ranges of objects fit in the word and
  the five sub-indices an override may name in the byte, overrides name only these.
  Command lines and EDS files are sequences, a configuration has finitely many
  defaults, the marks `+` and `"` are no numbers and have no case, and a word that is a
  number to its end (`Literals`) is one `stoull` reads. That
  what a file holds is well-formed is not assumed: `Loads` and the parser check that.

### The inductive invariants

*SocketCanTransport.* None of its properties is inductive: that a live loop has a socket
follows only if one knows that whoever closes it has joined both loops. `SerialInv`
therefore says, for each place of the controller, what may exist there (`ControlInv`):
before the socket nothing, from there to the close exactly one CAN socket, named by the
field; no loops until the first spawn and from the last join on; `running_` set exactly
between, the timeouts set from `SetTimeouts` on, which is why no loop reads without one.
`QuietInv` says the same for a controller that is elsewhere, which includes a transport
left running with one loop or none by a spawn that threw. `SendInv` says that a loop or
the controller inside `SendRawFrame_` has tested the number that is there when it
writes. Each action preserves it; the senders' steps do so by one lemma
(`ControlFrame`), as they change nothing it reads. The refinement reads the phase off
the place of the one controller (`PhaseOf`); its steps use `SerialInv` to know that no
loop lives when the socket is closed.

*Node.* `ControlCore` is the part of `SerialInv` that survives a change of controller,
as it speaks of whoever is in control now. `NodeInv` says that as long as `raced` is
false at most one is (`NoOverlap`) and `ControlCore` holds; a step of the process is by
lemma one of the specification the transport's proofs are about, whoever takes it, or
the end at a thread object that is still joinable (`NodeStepIsTransportStep`). It adds
that the server is down before the transport is destroyed, and that `running_` is clear
behind the destructor's `Stop`, so that a clean exit and an abort can be told from the
place of main alone.

*TxLoop.* A state that is on its way in a call has to be accounted for as well
(`SourceInv`); a keyword's state may also be in the loop's hands (`KeptInv`); a pass is
never early because the time since the last one and the time left never add up to
less than the period (`AgeInv`).

*PdoExchange.* `FrameInv`: half-way through a frame, the cursor is behind the signals
decoded, the rest of the frame is what is left, and the signals decoded are in the
dictionary unless a keyword wrote. It is kept because `Delivered` speaks of the last
signal of an entry only, and because encoding a value just decoded gives back the bytes
(`RoundTrip`). `SnapInv`: half-way through a TPDO, the payload holds the encodings of
the one value the dictionary has had, if it was one.

*Keywords.* `CallInv`: between the two critical sections the call is the one the request was
converted to and the value fits the type of its entry, so that the step at the second
lock can be replayed by the abstract store as one operation. `WriteBackKeepsNumber` follows from
the types: the number of an override is small enough for any alternative.

*Startup.* `ConfigInv`: overrides that `Loads` accepted stay in their fields' width, and
their numbers start from 1; without it neither the types nor `MappingsKept` follow.
`CommandLineInv` says that the node id is that of the last `--node-id` among the words
passed. A `--node-id` may itself be the argument of the option before it, so what counts
as an option depends on all words before (`Kinds`), and the invariant says that the loop
variable never stands on an argument. `ParsingInv` says of the loop over lines that the
sections read are those of the headers passed (`Headers`), in order, each field with its
last line up to where the next header comes, the open section last; and of the loop over
sections that the dictionary is what the sections passed say (`DictionaryFrom`). Without
the first nothing is known of the text a section came from when it is turned into
entries, and without the node id of `CommandLineInv` nothing of a default with
`$NODEID`. `ParsedMatchesText` is the case in which both loops have passed everything.
`AppliedInv` says for each stage which inputs the dictionary already reflects; defaults
are taken from an unordered map, so it speaks of the set applied so far. `InputsInv` is
the four together. `BuildInv` says what the builder's loops have built: definitions of
the mapping objects passed, in order (`BuiltInv`), and the signals of the words passed
(`FillingInv`). For a count of `ByteSize - 1`, where the loop never ends (`full_count`),
`FillingInv` says nothing of the signals, and start-up never gets to the end the
property is about. `StartupCountsDown` uses all of them: a stage, the items left of it
and the mapping words left of an object are natural numbers, and each step but one
inside a mapping loop with a full count makes the triple smaller.

### Induction over data

The library's induction theorems take an operator and cannot be applied. `Recursion`
states induction for sets (`SetInduction`), from a least-element lemma, and from that
the existence and uniqueness of functions defined by recursion, given a step as a
function. The operators that are folds in the code are recursive functions in the
modules (`PartialSums`, `Power`, `Before`, `Encodings`, `SignalsUpto`), so their
recursive equations and what they compute are proved for any length of input. In this
way `RoundTrip` is proved by writing both directions as sums over the bytes, and the
references for command line and parser (`Kinds`, `Headers`) are proved to be what their
comments say. The loops of the parser are steps of `Startup`, so what they compute is an
invariant. Where an operator looks for the first word that satisfies a condition
(`SelectInSeq`), its defining property is used.

### Only model-checked

- Liveness: `StopCompletes`, `CooperativeExit`, `ShutdownCompletes`, `EveryItemServed`,
  `HeartbeatCatchesUp`, `StartupEndsUnlessFull`, `EveryRequestAnswered`, and the fairness in
  `ImplementsLifecycle` and `ImplementsStore`. It needs `ENABLED`, which the prover lacks.

Of `StartupEndsUnlessFull`, `StartupCountsDown` proves that start-up cannot go on for
ever without a full count; that it never stops half-way is TLC's part. Every safety
property of every passing run is a theorem.

## Not modelled

- Characters: blanks, digits and the regular expression of section names are
  abstracted to tokens; yaml-cpp's grammar is a library's.
- Logging, warnings, signal and parameter names: output. A log file that cannot
  be opened is a failure of `ArgsDone`.
- Real numbers are one value; a real entry is never told from another.
- The remote server is a library outside the repository's sources; it appears as
  workers that take requests and as a stop that waits for them.
- CAN arbitration, kernel queues: a read returns anything, a write may fail.
- `inhibit_time` is read and overridden (in `Startup`) and used by no code.

## Plan

Done: all modules, their runs, and a theorem for each of their safety properties. Left: an
abstract specification of start-up in two steps (dictionary from inputs, definitions
from dictionary) with the loops as its refinement, if it says more than `InputsInv` and
`BuildInv` already do.
