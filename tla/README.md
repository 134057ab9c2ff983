# rar-chat in TLA+

A verification project for `rar-chat`, the streaming chat client under `src/chat2/`: a terminal
loop, a driver for OpenAI-compatible endpoints, a handler that decides, and a bus that records.
Paths below are relative to `src/chat2/src/` unless they say otherwise; `README.md:n` is the
repository's own README.

## The system

| part | state it keeps | operations | interacts with |
|---|---|---|---|
| Stream machine, `machine.rs` | content, finish reason, usage, sentinel, anomalies of one attempt | `feed`, `finalize` | owned by a `StreamState` |
| Event Handler, `event_handler.rs` | send bucket pool (atomic), allowance per turn, whether a failover exists; per turn a `StreamState` | `begin_stream`, `begin_attempt`, `acquire_send_bucket`, `return_send_bucket`, `on_wire_fault`, `on_installment`, `finalize_attempt` | called by the driver, emits to the bus |
| Turn driver, `openai.rs` | per turn: remaining allowance; per attempt: parser, clocks, counters | `execute_turn`, `run_attempt` | peer over HTTP, cancellation token, handler, parser |
| SSE parser, `sse.rs` | reassembly buffer | `push`, `finish_with_residue` | fed by the driver |
| Emission bus, `emission.rs` | bounded channel, drop counter, latency maximum | `emit`, the writer task | sinks |
| Sinks, `ports.rs` | capture file buffer | `write` | terminal, disk |
| Terminal loop, `main.rs` | history, stream id | read a line, `/reset`, `/quit`, failover | both drivers, one shared handler |
| Configuration, `env_file.rs`, `OpenAiConfig` | key/value map | `from_file`, `get` | start-up only |
| Stress harness, `../examples/stress.rs` | latencies | spawns many turns on one handler | driver |
| Registry, `lib.rs`, and types, `driver.rs` | none | none | quoted by everything |

What is hard in it, and the property that makes each part correct:

* **Attempts inside a turn.** The `StreamState` of a turn outlives its attempts and only its machine
  is renewed. An answer must be made of one attempt only, its records must tell what that attempt
  heard.
* **Many exits.** `run_attempt` has some fifteen ways out: three `select!` arms before the headers,
  five in the read loop, overflow, the sentinel, a rejected installment, the peer's close, two wrong
  kinds of response. Each must record exactly one `StreamEnd`, give the slot back once, and be
  answered by the strategy under one allowance.
* **Concurrent turns.** Turns share one pool. On `current_thread` they switch only at an await; on
  `multi_thread` anywhere. A retry gives its slot back before it asks for another.
* **Cancellation** races with every clock, read and frame.
* **Time.** Liveness is enforced by timers alone (INV-CHAT-09).
* **The caller.** A line is answered and kept, or leaves no trace, through retry and failover.
* **Framing.** Reads cut the wire anywhere, in a terminator or in a character; the frames must be those
  of the wire, and a peer that never ends one must not grow the buffer.
* **Clocks.** Five deadlines and an average are rebuilt on every wakeup. A silent peer, a peer that
  drips comments and a peer that never ends must each be given up in bounded time, a healthy one must
  not.
* **Records under load.** Emitting never waits, so records are dropped; drops must be counted and
  reported, order kept, a kill must cost little, and the exit must deliver what is queued. On one
  thread the writer's blocking sinks and the turns share their executor.
* **Start.** A typo in the env file, a value set twice or left empty decides which endpoint gets the
  key and the conversation.

## Modules

| module | models | remarks |
|---|---|---|
| `StreamMachine` | `machine.rs`: `feed`, `finalize` as operators on a record | no state |
| `MachineLife` | one machine fed any events in any order, finalized once | history variables `fed`, `ended` |
| `EventHandler` | `event_handler.rs`: normalisation, refinement, strategy, pool | extends `StreamMachine`; the pool is its one variable |
| `Driver` | `openai.rs`: `execute_turn` and `run_attempt` for a set of concurrent turns | extends `EventHandler`; one action per exit and per step of the loop |
| `TurnContract` | what `execute_turn` promises to a caller, the wire left out | abstract specification |
| `DriverRefines` | the mapping under which the Driver implements the contract | |
| `DriverClaims` | what documents say of the driver and the code does not do | one violated run each |
| `SseParser` | `sse.rs`: `push` step by step and `finish_with_residue`, over the kinds of bytes that matter | history variables `wire`, `blocks`, `got` |
| `ReadClocks` | `openai.rs`: header wait, body wait and read loop of a turn as far as time decides | discrete time; refines what `Driver` leaves to chance |
| `EmissionBus` | `emission.rs`, `ports.rs` and the drain of `main.rs` | channel, writer, sinks, scheduling, kill |
| `Startup` | `env_file.rs`, `OpenAiConfig`, the start of `main.rs` | part of `ChatSession` |
| `ChatSession` | `main.rs`: start and loop, composed with `Startup` and `TurnContract` | the awaited turn steps as the contract allows |
| `StreamMachineProofs`, `MachineLifeProofs`, `DriverProofs`, `DriverRefinesProofs`, `ReadClocksProofs`, `EmissionBusProofs`, `SseParserProofs`, `ChatSessionProofs` | theorems and lemmas, one module for each module they are about | `DriverRefinesProofs` builds on `DriverProofs`, `DriverProofs` on `StreamMachineProofs` |
| `MCMachineLife`, `MCDriver`, `MCChatSession`, `MCSseParser`, `MCReadClocks`, `MCEmissionBus` | instances for TLC | |

### Correspondence

*Text.* A fragment is an element of `Text`; a content is a sequence of fragments, a count of
characters a count of fragments. The normaliser drops empty fragments, so "no characters" and "no
fragments" agree. A payload is what one data installment says after JSON: how many choices (two
stand for any number above one), text, finish reason, usage, an error, the sentinel, or nothing
that parses.

*Driver.* `pc` is the line of `execute_turn`/`run_attempt` a turn stands at: `idle`, `attempt` (top of
the loop), `dial` (the header `select!`), `body` (collecting the body of a response that is no event
stream), `read` (the read `select!`), `frames` (the `for ev in frames` loop, with the frames still to
come), `ended` (`run_attempt` has returned), `strategy` (the slot is back), `done`. A task is suspended
at `idle`, `dial`, `body`, `read` and `done` only. With `SingleThread` (`main.rs:24`) a step of one
turn needs the others to be suspended; without it steps interleave freely, as after the one-line
flip the README offers. `records` keeps what the emitted records of a turn come to: the number of
`StreamEnd` records and the last cause, the number of `NormalizationError` records, and what was emitted
of text (`shown`). The channel may be full at any `emit`, whatever the other turns and the writer do, so `TrySend` leaves the fragment or
a gap, and the terminal is given the fragments only; how many gaps, and whether they are counted, is the matter of `EmissionBus`. `heard` is a history variable: the payloads the handler was given in this
attempt. `FlowDirective::Abort` is never returned by the handler, and has no action.

*Cancellation.* `Cancel` sets the token at any moment another task can run; the two `select!`s may
then take the cancel arm, and may as well take another one that is ready. The token is not looked
at while an error body is collected, nor between two frames.

*Parser.* One iteration of the loop in `push` is one step (`CutBlock`), the two ways out are
`PushReturns` and `PushOverflows`. `"data"` stands for the field name with its colon, `"hi"` and
`"lo"` for the two bytes of a character, so that a read, or a malformed peer, can part them. A block is
named by its positions in the wire, which lets the properties speak of the wire alone. `finish` has
no caller outside the tests and no action. The parser and the `Driver` meet at `Reads`: the Driver takes
any frames, the parser says which ones a wire gives.

*Clocks.* An option of the code is a set of at most one instant. `Elapse` may not pass an arm of the
`select!` that has been ready for `Lag` instants, so `Lag` covers both the executor's delay and the
random order of polling. The average is an integer, `Scale` times the code's, and exact while no
more ticks happen than `Scale` has factors of five. `sleep(overall_remaining)` is rebuilt from the time left and so ends at `turn_start`
plus the deadline. A refused admission of a retry ends the turn sooner and has no action; nor has
cancellation, which the Driver has.

*Bus.* A turn emits and then awaits or emits again, as a read brings one frame or several; the last
record of a turn is its trailer. `emit` is three steps, the send, the count of a drop and the pacing
of the latency sample, which other threads may come between. The writer is at `recv` (its one await), in a `write`, at the
look at the counter (`check`) or in the write of its `report`. `CanRun`, `WriterCanRun` and
`MainCanRun` are the executor: on `current_thread` a task is polled only while all others are at an await. A sink is
`wedged` from the moment a write does not return, until it does. A closed standard output makes a `print!` panic (`SinkPanics`). Two history
variables speak of drops: `known` is how many there were when a turn last counted one, `ahead` what the sender of each accepted record knew when it sent it. The
writer's load of the counter is relaxed: on `multi_thread` it may miss the latest drops, but not those in `ahead` of a record it has received. `flushed` is how much of `written` a kill
cannot take: more may be in the file, as the `BufWriter` also writes when it is full.

*Start.* A line of the env file is a sequence of tokens, and carries what the operator meant by it
(`says`, `sound`), which only the properties look at. `Render` is the documented syntax; `LoadLine`
is the code's reading of it. A space and a tab are two tokens (`Spaces`), as `trim` takes both and the test for `export` a space only: `export` and a tab is refused as a
malformed line. One clock stands for all values parsed as integers. `Start` forgets the
source, which is not read again, and sets `has_failover`.

*Session.* `ChatSession` shares one `TurnContract` between both drivers because `main.rs` gives them
one handler. `has_failover` is the configuration, chosen at the start. A message is named by the
stream its line was first put to. The terminal that cannot be flushed ends the session by `?`, before the turn of a line (`LeaveSubmitting`, `main.rs:78`) or between the two
endpoints (`LeaveFailingOver`, `main.rs:89`); such a line counts as resolved, with the session. The arm for a Failover without an alternative (`main.rs:94`) has no
action of its own: the handler then never directs one.

## Runs

| run | instance | shows |
|---|---|---|
| `machine_life` | 2 texts, 2 reasons, 1 usage, 5 events | the verdict, the content and the anomalies follow from the history |
| `driver_turn` | 1 turn, 1 retry, 7 payloads of every kind (two usages among them), 2 frames per read, 3 installments per attempt | nothing of an abandoned attempt survives into the answer; the screen ends in the answer, less what a full channel drops; exits, records and the ledger agree |
| `driver_live` | 2 turns, 1 bucket, 2 retries, `current_thread`, fair | slots are conserved; an admitted turn keeps its place; every begun turn ends |
| `driver_contract` | 2 turns, 1 bucket, `multi_thread`, failover known | never more attempts on the wire than slots; pool and ledgers hold also where a retry can be refused; the Driver implements the `TurnContract` |
| `session` | files of up to 3 lines of 15 kinds, 3 environments, 3 typed lines, fair | a lookup gives what was written last; only a sound configuration starts; the history holds answered lines only; no slot is outstanding at the prompt; every line is answered, dropped or ends the session (by a terminal error, or in the panic of `session_panic`) |
| `sse` | wires of up to 7 bytes, any reads, a bound of 4 | the frames are those of the wire alone, for every division into reads; a rest without a frame, and nothing else, overflows |
| `bus` | 2 turns of 2 records, channel of 2, both flavors | order and accounting; drops in front of an accepted record are reported, on `current_thread` all of them; what a kill takes; what the drain delivers; who waits for a sink |
| `clocks` | half-second instants, 1 retry, deadlines of 0.5 to 4.5 s, delay up to half a second | bounds on a silent, a steady and a comments-only stream and on the turn; a stream is not starved within the sustained time after a rich second |
| `session_panic` | 1 line | violated: the "unreachable" arm of `main.rs:100` is reached |
| `claim_*` | the instances above | violated: one documented claim each, see Findings |

*Bounds.* One retry makes two attempts, the least in which state of one can leak into the other and
in which the allowance is spent and exhausted; the theorems cover every allowance. Two frames in one
read make an installment behind the sentinel or behind a fault possible; three installments allow
text, finish and late text in an attempt. `driver_live` needs more turns than buckets; its payloads are
irrelevant to the pool and reduced to the sentinel. Five events in
`machine_life` hold two finish reasons with texts before, between and after. In the session,
three lines allow a failure or a reset before, between and after answered lines; three lines of a file allow
a typo before or behind an entry and an entry overwritten. Seven bytes hold a frame with a data line
between two terminators of different kinds, a character cut in two, or a rest longer than the bound behind a frame;
a read may be the whole wire. Two records in two slots fill the channel, and
a third is dropped; with `FlushEvery` 3 and samples at every third emit, trailers, periodic flushes and
samples fall differently in each interleaving. The clocks are small multiples of a second in the order the
defaults have them where it matters: the stall window is longer than a second, so that ticks wake the loop inside it, and
the overall deadline is longer than warm-up, sustained time and two ticks, so that starvation can come first.
A delay below a second makes ticks late; one of a second, with `Allowance` 0, skips ticks too and was checked with the same result.
`MaxHeard` bounds how much a peer sends, not what the driver does: reads without data are always
possible, and so is every clock.

*Fairness.* `Own` steps are weakly fair: a runnable task is run. `Clock` steps, the header
backstop, the timeout of the body and the overall deadline, are strongly fair: each is measured from a
fixed instant, an expired timer stays expired, and `select!` polls its arms in random order
(DEC-CHAT-12), so that an arm that is ready again and again is taken. It is an assumption that the
task waits at least one tick of the runtime's timer again and again; a peer that always has data
ready sooner could postpone a rebuilt `sleep` of zero, and this is listed as a hazard. Nothing is
assumed of the peer, the network, the stall and throughput clocks (a peer that sends comments resets
the former) or the canceller. In `EmissionBus` a running turn goes on, a waiting one is woken again and
again by its own timers (INV-CHAT-09) and a writer with work is polled again and again; nothing forces a wedged
sink to return, a turn to begin, main to leave or the process to be killed. `ReadClocks` needs no
fairness: that a clock fires is what `Lag` bounds, and its properties are bounds. `ChatSession` assumes that an open turn goes on, which is what `TurnEnds` says.

## Theorems

All proofs hold for every value of the constants, under the named assumptions `NoneAssumption`,
`StrategyAssumption`, `DriverAssumption`, `MaxEventsAssumption`, `ClockAssumption`, `BusAssumption`,
`SseAssumption`, `SessionAssumption` and `EntriesAssumption`, which TLC evaluates in the runs of their modules. They say that
bounds and counts are numbers, the sets of turns finite, names distinct, durations natural numbers with a second and a
scale above zero, that there is a most content one read may bring, and that an env file is written in the grammar of
DEC-CHAT-02: `EntriesAssumption` says that each line is an entry (any name and value, `export` or not, quotes or not, any number of
spaces and tabs in each of five places, but a space behind `export`), a remark, or a typo (no sign, no name before it, or a space or tab inside the name). The two shapes
that read as something else are left out: a name `export`, and a value without quotes of its own that begins and ends with the same quote. The run has a few lines of each kind and TLC evaluates the
assumption on them.

* `MachineLifeProofs`. The inductive invariant `IInv` relates the machine to the history: each
  fragment is the text of the event that carried it, and whether a finish has been fed and which.
  It is needed because `ContentIsTestimony` speaks of positions in `fed` and each step appends to it.
  From it: `TypeCorrect`, `Testimony` (INV-CHAT-05), `Completion` (INV-CHAT-04). `Evidence` (DEC-CHAT-05) counts:
  an event is odd when the machine is completable, and the machine is completable when a finish was fed (`FinishHeard`).
* `DriverProofs`. `TypeCorrect` with `HasEnd` (a turn past `run_attempt` has a result). `StepShapes` then
  says that for control each of the many actions is one of a few shapes (a step inside an attempt, an
  exit, a step of `execute_turn`, one only the canceller notices), and the invariants are proved on
  the shapes:
  * `PoolSafe`: only an admission and a return move a slot, and both move its holder. The sum alone would hold of a pool below zero;
    `FloorSafe` adds that there are never more holders than slots.
  * `Ledgers`, point by point: before an attempt `attempt + remaining = Allowance`, from its admission on
    one more; the `StreamEnd` records follow the attempts. `AllowanceSafe` (INV-CHAT-11) and
    `TestimonySafe` follow; neither is inductive, as both speak only of turns that are over.
  * `CancelsNoted`: the last recorded cause and what `run_attempt` returned agree until the strategy
    has looked. `CancelSafe` follows.
  * `Placed`: on `current_thread` at most one turn is between two awaits, and a turn about to retry
    finds a free slot. `PlaceSafe` follows: `SingleThread => OnlyFirstAdmissionDenied`.
  * `Tales` is about data, and has shapes of its own (`Tells`): what the machine of an attempt holds is told by what
    the handler was given (`Told`), and is the end of what was emitted, gaps aside (`ShownLast`), at every place and not only at the
    commit. `Follows` carries the machine over one installment, whatever mixture of text, finish reason and usage it brings.
    `CommitSafe`, `ShownSafe` and `CauseSafe` follow.
* `DriverRefinesProofs`. `Implements`: each step of the Driver is a step of the `TurnContract` under the mapping of `DriverRefines`, or a
  stutter. The ledgers are needed where the contract bounds a turn's attempts, `CancelsNoted` and
  `WasAsked` (a recorded cancellation was asked for) where it says why a turn ended.
* `ReadClocksProofs`. `StallBounded` needs that the loop knows when bytes came last (`ReadInTime`), which is what
  restarting a timer on a wakeup would break. `TurnBounded` needs `WithinBudget`: what an attempt may still take,
  at each place it can wait, fits the budget of the attempts so far; the sum over attempts is then a product.
  From both: `StallSafe`, `TurnSafe`. `StarvationSafe` has an invariant of its own, `SInv`: the next tick is later than any
  that saw a rich second, and the clock of the starvation runs from a later tick still. It holds because
  a rich second lifts the average to the floor whatever it was (`RichRepairs`) and a skipped tick lands
  behind the present, by no more than a second (`NextTickBound`). `CommentsSafe` has `QInv`: while nothing but comments came, the average
  stays at zero, and the first tick, or the second if the first was late, starts the clock of the starvation.
  `TypeCorrect` has `TInv`, which bounds what a second can hold by the reads it saw (`Credited`).
* `EmissionBusProofs`. `TypeCorrect` needs that a turn which may emit has a record left and that the writer writes what it
  received; the capacity is kept because a sample looks for room as a record does. `FlushCounted` (what is not
  flushed is counted by `since_flush`, and holds no trailer) gives `KillSafe`. `Accounted` gives `AccountsSafe`: a record moves
  from channel to hand to file, and the ranks of the delivered ones do not change on the way. `Ends` gives `ReportSafe` and `DrainSafe`: on one thread a drop
  is counted before the writer is polled again (`OneAtATime`, `LooksAgain`), which is what fails on `multi_thread`, where `AheadSeen` is what remains: no look misses a drop in front of a received record;
  main waits only when the turns are over (`QuietAtExit`), and the writer ends only on an empty channel (`EndsEmpty`).
* `SseParserProofs`. `IInv`: blocks, terminators and the rest tile the wire (`Tiles`), the rest is within the bound between
  reads and holds no terminator when it overflows (`Bounded`), and each block is the one the wire alone gives. The point is that a terminator found in the buffer is the first one of the
  wire behind the block's beginning, also when a read brought half of it. `TilesSafe`, `BlocksSafe` (DEC-CHAT-06) and `OverflowSafe` (INV-CHAT-06)
  follow. `FramesInv` counts: the frame of a block stands among the frames given at the rank of the block among those with data; from it
  `FramesSafe` (INV-CHAT-07) and `TypeCorrect`.
* `ChatSessionProofs`. `IInv`: `Dialog` says that behind the system message the history is pairs of a line and its committed answer,
  and an open line behind them exactly while a turn runs; `Contracts`, that the turns to come are new and that only the running one
  holds a slot; `Numbered`, that a line takes two streams at most. What `/reset` leaves of the history is stated by places (`Retain`). `HistorySafe` (DEC-CHAT-11), `AdmissionSafe` and `TypeCorrect` follow.
  `LInv` is about the start. Its core is a round trip: reading a line undoes writing it. `RenderTrimmed` takes the outer spaces off an entry,
  `SplitFirst` finds that the first sign is the one behind the name, `Unquoted` that one layer of quotes comes off, and together they are `EntryRead`;
  `RemarkRead` and `TypoRead` say that the other lines are skipped and refused. With it `LoadLineKeeps`: what is loaded is what the lines so far say, the later over the
  earlier (`LoadedSays`), and all of them are sound (`LoadedSound`). `LookupSafe` (INV-CHAT-02, DEC-CHAT-02) and `StartSafe` follow.

The provers know nothing of `SelectSeq` and of folds. Where the code filters, the properties speak of the places of the
source and their ranks, and `Retain` is stated so too.

*Model-checked only*: liveness (`TurnEnds`, `LineResolved`, `WireFlows`), which is beyond the prover. Every invariant
of a passing run is a theorem.

## Findings

| run | what the code does |
|---|---|
| `session_panic` | both endpoints exhausted: the process panics at `unreachable!("resolved above")` |
| `claim_no_content` | after an attempt with text, an empty close of the retry is recorded as `peer_closed` |
| `claim_data` | a comment line at the head of a block hides the data lines behind it (`sse.rs:87`) |
| `claim_wire` | a sink that does not return stops every turn on the default flavor (README.md:175); the same holds of the five seconds of the drain, a timer on the same thread |

What else differs from the documents or may surprise, without a run of its own:

* Wire exits do not pass `finalize` (INV-CHAT-08, `lib.rs:59`): the machine is replaced or dropped.
* A peer's protocol violation ends the turn as `Aborted`, which `driver.rs:72` documents as operator intent.
* Frames behind the sentinel, or behind a rejected installment, in the same read leave no record
  (INV-CHAT-14); frames in the read that overflows neither. Blocks without a data line are dropped
  silently by `push` and kept as residue by `finish_with_residue`.
* A rejected multi-choice installment is recorded as an error that the trailer does not count
  (`event_handler.rs:236` against README.md:117).
* Text of an attempt that is retried stays on the screen in front of the answer (`ports.rs:16`
  speaks of "no display/history asymmetry"), and a read with more frames than the channel has room leaves gaps on the screen that the history does
  not have. `ScreenLacksOnlyDrops` is the part that holds: behind the abandoned text the answer was emitted whole and in order, and the screen lacks only what was dropped.
* On `multi_thread` a retry can be refused a slot after its turn had been admitted.
* The "absolute turn ceiling" (README.md:163) is one per attempt; `TurnBounded` is what holds of a turn.
* The average approaches a steady rate from below: a stream of exactly the floor is below it.
* Whether a rest overflows depends on the reads: a frame that ends in the same read in time does not.
  LF followed by CRLF is no terminator, though each of the pairs is.
* Behind a panicked writer (closed standard output) every record is dropped and no drop is reported.
  On `multi_thread` drops behind the last accepted record can be missed for good, as the writer may look between a drop and its count.
  `DropsReported` says what is certain.
* An empty value in the env file is a value: it hides the environment's, counts as a key that is set,
  and makes an alternative endpoint of an empty URL. A capacity of 0 panics at the start.

## Plan

What is left:

1. The parser composed with the `Driver` at `Reads`, with read spans of installments in the capture.

## Not modelled

JSON and the texts of messages, HTTP below the response status, TLS, default values, the
secret handling of INV-CHAT-01, latency statistics, sequence numbers, spans and counters of records,
the prompts `main.rs` prints while the writer may still print text (nor their panics on a closed standard output), the granularity of the runtime's
timer, failing writes of the capture file, `examples/stress.rs` beyond its concurrency (it sleeps, drops the handler and gives the writer
half a second, but its driver keeps no sender; the drain of `EmissionBus` covers it).
