# RSWebTWAIN in TLA+

RSWebTWAIN is a desktop agent that lets a web page scan paper: a WebSocket
server on localhost takes requests, a command handler admits one scan at a
time, and a scan runs either on a native thread against 64-bit TWAIN or in a
32-bit child process (the sidecar). This directory holds TLA+ models of the
parts of the agent in which interleavings, failures and time-outs matter, the
TLC runs that check them, and proofs of the properties that carry the most.

## Contents

| Module | Models | Runs | Proofs |
|---|---|---|---|
| `CommandHandler` (`MCCommandHandler`) | `src-tauri/src/lib.rs`, `ScanOrchestrator` | 3 | `CommandHandlerProofs` |
| `ScanPipeline` | `src-tauri/src/scanner/mod.rs`, one scan end to end | 2 | `ScanPipelineProofs` |
| `ScanContract` | what a client is promised; abstract | refined by `ScanPipeline` | `ScanPipelineProofs` |
| `SidecarSession` | `scanner/sidecar.rs` and `scanner-sidecar/src/main.rs` | 3 | `SidecarSessionProofs` |
| `TwainSession` (`MCTwainSession`) | `scanner/twain.rs` and its two callers | 2 | `TwainSessionProofs` |
| `WsConnection` (`MCWsConnection`) | `ws_server.rs`, one established connection | 1 | `WsConnectionProofs` |
| `ResponseLink` | what the agent takes a connection for; abstract | refined by `WsConnection` | `WsConnectionProofs` |
| `ScannerChoice` | from the list of scanners to the source opened: `scanner/mod.rs`, `twain.rs`, the sidecar | 1, all of `MCSequential` | `AgentProofs` |
| `Capabilities` | the settings of a source: `twain.rs`, the sidecar | same | `CapabilityProofs` |
| `PageImage` | strips, `scanner/raw.rs`, sizes for encoders and thumbnails | same | `PageProofs` |
| `PdfFile` | `pdf.rs` | same | `PageProofs` |
| `Startup` | `config.rs`, set-up in `main.rs`, handshake in `ws_server.rs` | same | `AgentProofs` |
| `LogFiles` | `logging.rs` of both programs | same | `AgentProofs` |

`PROJECT.json` lists the components, runs, mutants, findings, hazards and
theorems, and maps each definition to the lines it translates.

Every property has a mutant: a variant of one definition with a plausible bug,
placed just before it and marked `Mutant:`. With the variant in its place the
property fails, so no property holds by the shape of the model alone.

## Inventory of the system

**Connections** (`ws_server.rs`). Per connection: a reader that parses client
messages and passes them to the handler on an unbounded channel; a response
queue of 8 messages drained by a writer; tasks that forward broadcast events
and send pings; a watch channel that ends them. The socket's write half is
shared under a mutex. Hard: a client that stops reading backs the queue up
into the scan; a connection may vanish between any two messages.
Correct: messages of one scan reach the client in the order sent; a dead
connection never blocks the agent.

**Command handler** (`lib.rs`). One task per client message. Shared state:
`scanning` (an atomic flag), `active_scan` (the id and cancel flag of the
registered scan), the orchestrator behind an async mutex. Operations: ping,
list_scanners (a blocking discovery with a 15 s time-out that does not stop
it), start_scan (compare-exchange, `ScanGuard`, registration, resolution,
execution, error reply) and cancel_scan. Hard: races between all of these,
exits by error and by panic, a mutex held by a hung discovery, sends that
park. Correct: one scan at a time, the lock always given back, cancellation
of exactly the scan named, one answer per request.

**Orchestrator** (`scanner/mod.rs`). Keeps the list of scanners found natively
and by the sidecar; the native entry wins; a failing backend counts as empty.

**Scan pipeline** (`scanner/mod.rs`). A producer (thread or blocking task)
hands raw pages over a channel of one page to `consume_pages`, which encodes
each, announces it and streams it in frames of 256 KiB; PDF output also goes
into a temporary file that `finalize_pdf` closes and streams. Every send is
raced against the cancel flag. Hard: two bounded queues in a row, a consumer
that leaves while the producer is parked, a producer that fails after its last
page was consumed, cancellation anywhere. Correct: frames match their
announcement, a complete scan is whole, exactly one terminal message.

**Sidecar manager and sidecar** (`scanner/sidecar.rs`,
`scanner-sidecar/src/main.rs`). The parent spawns the child with up to three
attempts, waits for Ready, writes JSON lines, reads answers with a time-out,
shuts down with a 5 s limit and then kills. The child reads commands, drives
32-bit TWAIN, polls stdin for a Cancel. Hard: the child may die or hang at
any point; outcome, clean-up and kill race; a failed start may drop a child that
is alive. Correct: never a second sidecar beside a live one, what is dropped has
no command and ends, every job returns, success means a whole batch and a closed
scanner.

**Native TWAIN session** (`scanner/twain.rs`). Typestate values for the TWAIN
states 1 to 6, each with a Drop that walks back; the driver keeps a state of
its own. Hard: any driver call may fail, a consuming transition that fails
takes its handle with it. Correct: value and driver agree, nothing is left
open behind a success.

**Choice and set-up of a source** (`scanner/mod.rs`, `twain.rs`, the sidecar).
The orchestrator keeps the list of the last discovery by any client; a scan
names an entry by name, by id or not at all, and the backend enumerates again
to open it. Then up to eleven settings are sent, in order; a refusal is only
logged. Hard: a stale list, ids that two backends give independently, settings
that depend on each other, two copies of the block. Correct: the scanner that
was meant, with what decoding relies on in force.

**Pages and documents** (`raw.rs`, `thumbnail.rs`, `pdf.rs`). Strips become a
buffer, the buffer packed rows, rows a JPEG in a document whose table holds the
place of each object. Sequential; hard at the boundaries (last row, bits,
no pages). Correct: every sample in its place, every reference resolves.

**Start-up and handshake** (`config.rs`, `main.rs`, `ws_server.rs`). Template,
file, validation, environment, then origin and token of each connection.
Correct: what is served is what file and environment say, by their precedence.

**Logging** (`logging.rs`, twice). One file per program and day in a shared
directory, the last seven kept. Correct: the latest are never pruned.

**The rest**: the Tauri shell, which also broadcasts deep links to all
connections, and FFI declarations. See "Not modelled".

Interaction: connection -> handler by channel; handler -> connection by its
response queue; handler -> pipeline by a call under the guard; pipeline ->
producer by thread or task and the page channel back; producer -> sidecar by
pipes; cancel_scan -> pipeline and producer by one shared flag.

## The modules

### CommandHandler

A request constant stands for the task that serves it, and a start_scan also
for its scan id. `scan[s]` walks through the handler: `claimed` (the
compare-exchange won), `resolving` (registered), `running`, `replying` (the
error is being sent), `dropping` and `releasing` (the two stores of
`ScanGuard::drop`). `RejectBusy` is the other branch. `queue` is the response
queue of each connection; a send parks when it is full and is discarded when
the connection is gone, like `send_json`. Discovery is a task of its own
(`disc`) that outlives its handler's time-out and holds `orch`, the
orchestrator's mutex, which `ResolveScanner` needs. The pipeline is reduced to
its announcements, its end, and `driving`: whether the producer is still at
the scanner. `ScanPanics` is the unwinding the comment at lib.rs:51 describes.
A cancel_scan names an id its client has read in a scan_progress, or one that
never existed.

### ScanPipeline and ScanContract

One admitted scan. Producer (`Start` ... `CloseSource`, `BatchComplete`),
page channel, consumer (`consumer` is the place in `consume_pages`,
`finalize_pdf` and the end of `execute_*_scan`), response queue, and the
client of docs/integration.md, which assembles transfers by count. `Abandon`
is every `?` of the consumer: the receiver is dropped, so the page channel
closes. `SendCancelled` is `until_cancelled` losing its race; it is enabled
only while the queue is full, because the `select!` is biased towards the
send. The final error (`ReplyError`) is not raced, as in `handle_command`.

`ScanContract` says what the client is owed: pages, then for a PDF the
document, then one outcome that names the number of pages, then nothing.
`Promise` is `Contract!Spec`, with the client's own state as refinement
mapping: `delivered` counts the transfers received whole.

### SidecarSession

Parent, child and the two pipes. The parent's reader thread forwards lines as
they come, so its channel and the pipe are one sequence; the two are told apart
only where the parent drops the channel and joins the thread. Time-outs of the
parent expire on a child that is stuck (`hung`, or `self_blocked` on its own
stdin lock); the 5 s of `shutdown` may also expire on a busy one. `device`
says whether the calls that close the source were sent; the code ignores their
results, and so does the model. `MayFail` chooses the faults and `Noise` what
may be printed before Ready, which follows it all the same.

A start can fail with the child alive. `ReaderSpawnFails` drops the local `Child`
and both pipes. `StartupUnreadable` goes into `cleanup_dead_sidecar`, which drops
the `Child` (that closes its stdin and kills nothing) and the receiver
(`DropUnread`) and joins the reader; `CleanedUp` is the end of that join: at the
end of the child's output, or at its next line, which can no longer be sent.
`StartupMisread` is a line that is not UTF-8: the reader has ended already, and
the join waits for nothing. What is left behind gets no command; in `idle` it
finds the end of its stdin and exits (`StdinCloses`).

### TwainSession

`held` is the typestate value, `driver` the TWAIN state the driver is in.
`Consume` is a transition that takes the handle out first, so that a failure
loses it (`Lose`), and `Ask` a call through a value that stays held, so that a
failure runs its Drop (`Unwind`, `DropCalls`, `DropCall`). The driver
`twain` is one of `Drivers`: a strict one refuses what is out of sequence,
another obeys, and each has operations that may fail by themselves. Handing a page over
is left to `ScanPipeline`.

### WsConnection and ResponseLink

One connection after its handshake. `handler` is the place in the read loop,
`task` that of the three spawned tasks, `waiters` tokio's fair mutex with its
owner in front, `hand` what each user of the socket is sending, `wire` the
room the socket has. `closing` is the watch channel; a task looks at it only
between sends. `Send` is `send_json`, called by the tasks of this client's
commands: it parks on a full queue and is discarded when the receiver is gone.
`TaskEnds` drops the queue with its receiver. `Broadcast` is a deep link; the
ring keeps `EventCapacity` of them and `Lagged` moves a slow receiver to the
oldest. `inbox` starts as one of `Scripts`: what the client sends and the order
of it matter, when does not.

`ResponseLink` is what `CommandHandler` and `ScanPipeline` assume of their
queue: accepted means delivered in turn while the client stays, bounded, and
discarded at once when closed. `Reliable` is `Link!Spec`; the link is `closed`
when the response task has ended and `ending` from the end of the reader or of
the client on.

### ScannerChoice and Capabilities

`installed` is what each data source manager would list now; `scanners` is the
orchestrator's list, `shown` the one this client got, and others may have
replaced the former since. `Merged` is the loop of `discover_scanners`;
`Resolved` searches by name or id; `Open` is the second enumeration, alike in
both backends. An enumeration may end early anywhere. `Numbers` are the ids as
text that a data source manager hands out, first come first; no product is named
like one, because `resolve_scanner` compares the text it is given with names and
ids alike, and a scanner named "1" would be taken for the first of the list.

`Capabilities` sends `Configure` or `ConfigureSidecar`, one setting a step, each
as the two halves of its 32-bit item (`Fix32` saturates as the casts do). The
driver is external: it refuses what it likes (`unwilling`), and a new pixel
type or transfer mechanism takes it back to defaults in what TWAIN makes
dependent on it.

### PageImage and PdfFile

A byte of a page is known by its place in the driver's image, so `Sample` says
where a packed sample comes from and `PageExact` compares that with the place
of the pixel. Strips are whole rows; the last may come without padding; a
failing call ends the loop and what was received goes on, as in the code.

A document is a sequence of pieces, one for each `emit`; places count pieces
where the code counts bytes, which keeps their order and their identity.
`Mark` grows the table with zeros, as `resize` does.

### Startup and LogFiles

`Startup` starts from any build, file and environment, walks through the set-up
of `main.rs`, and then answers handshakes as operators of the settings in
force. Origins are a few with the attributes the code looks at; tokens are
character sequences, because `percent_decode` looks at characters. `NoToken`
stands for the absence of one and is no token.

`LogFiles` has two programs that start, roll over, prune and stop over several
days in one directory, with other files in it, and a clock that may be set back
once.

`MCSequential` puts these six side by side: a behaviour is one of them, chosen
by `part`, so that one run checks them all.

## The runs

All passing runs but `Sequential_parts`, whose parts come to an end, check
deadlock; each other model has one stuttering action, enabled only where the
modelled program has nothing left to do.

| Run | Shows | Bounds |
|---|---|---|
| `CommandHandler_safety` | `TypeOK`, `OneScanAtATime`, `BusyOnlyWhileOwned`, `RegistrationMatches`, `AnsweredOnce`, `CancelIsExact` | 2 connections, 2 start_scan, 1 cancel_scan, 1 list_scanners, 1 ping, queue of 1, 1 page; 2.2 M states |
| `CommandHandler_live` | `ScanReleased`, `ListAnswered` | 1 connection, 2 start_scan, 1 cancel_scan, 1 list_scanners, queue of 1, no sidecar, one error each of producer and consumer; 163 k states |
| `ScanPipeline_scan` | `TypeOK`, `FramesMatch`, `CompleteMeansAll`, `ProcessingMeansScanned`, `Promise`, `CancelEndsPipeline`, `ProducerReleased`, `EveryScanTold` | both backends, both outputs, 3 sheets, 2 frames, queue of 2; 106 k states |
| `SidecarSession_jobs` | `TypeOK`, `NoStraySidecar`, `SuccessClosesScanner`, `SuccessIsWhole`, `JobEnds` | scan and list, 3 sheets, 3 attempts, all faults, three kinds of noise at start-up; 22 k states |
| `TwainSession_sessions` | `TypeOK`, `NeverAhead`, `SuccessClosesSource`, `NothingLeftOpen`, `CancelEndsSession` | scan and list, 3 sheets, the three drivers of `MCDrivers`; 1.8 k states |
| `WsConnection_client` | `TypeOK`, `EventsKept`, `Reliable`, `Released`, `HandlerReturns`, `CommandsRead`, `AllDelivered` | 4 scripts of two messages, queue of 1, ring of 2, room for 1 message in the socket, 3 responses, 3 events, 1 heartbeat; 225 k states |
| `Sequential_parts` | `SourceAsMeant`, `SettingsInForce`, `PageExact`, `DocumentSound`, `AsConfigured`, `TokenRoundTrip`, `LogsKept` | 2 names, 2 numbers and so 2 sources a backend, 1 change; 5 resolutions around 2^15, 2 refusals; 9 x 3 pixels, 2 bytes of padding, 5 depths; 3 pages; 2 sites, 5 origin lists, 4 tokens; 4 days of which 2 are kept; 257 k states |

Why these bounds are enough: two scans are what a race for the lock, and a
registration that outlives its guard, need. A queue of one makes every send
park at every place; longer queues only postpone it (`QueueCapacity` is 8 in
the code). The page channel has the code's own
capacity of one, so three sheets give a page in the channel, one in the
producer's hand and one being sent. Two frames are a transfer with an inner
and a last frame. Three attempts are the code's own number.
A connection needs a message in the queue, one in hand and one in the socket to
park a sender, and three events to overrun a ring of two. Nine pixels are a
full byte of 1bpp and the start of another; three rows are a first, an inner
and a last one; 16 bits stand for the depths that are refused. The tokens
include one that looks like an escape and one with half an escape.

### Disagreements found

Five runs are expected to end in a violation; each checks what a comment or
document says against what the code does (details in `PROJECT.json`):

- `CommandHandler_overlap`: the lock is released while the producer of a failed
  scan still drives the scanner.
- `ScanPipeline_pinned`: the error that reports a cancelled scan is sent
  unraced under the guard; a client that stopped reading keeps the scanner.
- `SidecarSession_short`: a page the sidecar gave up on does not stop the batch
  from being complete.
- `SidecarSession_cancel`: a Cancel during a scan makes the sidecar deadlock on
  its own stdin lock.
- `TwainSession_sequence`: the source is closed while still enabled.

Smaller ones have no run of their own. In the models:

- A scan task that panics (`ScanPanics`) tells its client nothing, where
  scanner/mod.rs:744-746 owes one terminal message and integration.md:241
  reports INTERNAL_ERROR. `AnsweredOnce` excepts it.
- A discovery that was answered with DISCOVERY_TIMEOUT is not "abandoned"
  (integration.md:244): it keeps the orchestrator's mutex, and a scan that has
  claimed the scanner waits for it for as long as the discovery hangs, out of reach
  of any cancel_scan. `ScanReleased` assumes that discovery ends.
- An unreadable first line sends a live child through `cleanup_dead_sidecar`, the
  clean-up "after the sidecar process has exited", though its caller is "responsible
  for cleanup" (sidecar.rs:365-366, 321). Nothing kills the child: one that hangs
  stays when the job has returned (`JobEnds` lets it), and if it hangs before
  it has said anything more, the join of the reader never returns (`JobEnds`
  excepts that too).
- A client that sends a bad message or a ping and then stops reading is not
  listened to any more, its cancel_scan included: the reader itself waits for the
  socket. `CommandsRead` excepts exactly that.
- A scan whose cancellation was acknowledged may end with the code of a device
  or conversion error (integration.md:161-163 names scan_complete and
  SCAN_CANCELLED only).
- Each backend numbers its scanners from its own manager, so an id of the
  sidecar's may equal a native one's; `resolve_scanner` then takes the earlier
  entry, although integration.md:137-139 has the id stand for the scanner it was
  returned for. Two scanners of one name cannot be told apart at all.
  `SourceAsMeant` excepts the former.
- After its 5 s, `handle_connection` returns, but a writer stuck in a send keeps
  the queue, and senders stay parked until the client reads or goes.
- A configuration file that cannot be read (also one that is not UTF-8) counts as
  none and the agent starts with the defaults, where configuration.md:86-90 has
  it exit with code 2 when the file is "present but invalid" (`Load`).
- The current day's log can be pruned when the clock was set back
  (configuration.md:109 says it is always kept; `LogsKept` excepts it).

Only read in the code: the sidecar's pages carry the resolution asked for, not
the one the driver chose; duplex and feeder are switched on but never off; the
item type 3 of `set_capability_i16` is commented TWTY_INT16, which TWAIN numbers
1; each native session leaves its hidden window behind; `RSWEBTWAIN_LOG_DIR` is
overwritten by `main.rs` and never read by the agent; nothing calls
`WsServerHandle::shutdown`, so server_shutdown is never sent; no pong is ever
looked at, so a heartbeat finds a broken socket but not a client that hangs;
environment variables are ignored by debug builds; a deep link that arrives
before the server is up is dropped with a warning.

### Fairness

- A tokio task that can step is eventually polled, a thread eventually runs
  (`TasksRun`, `AgentSpec`, `FairSpec`): weak fairness per task or thread.
- Discovery returns (`DiscoveryEnds`): the premise of `ScanReleased` alone. A
  start_scan waits for the mutex a hung discovery holds, so without it the
  scan would not release; the hazard list has it as one that no property covers.
  `ListAnswered` does without.
- The scanner stops in the end (`ProducerStops`, `ProducerWorks`): hardware
  that hangs in a driver call cannot be recovered from in the native path.
  In the sidecar the assumption is dropped: `Hang` is a fault of the model.
- A client reads: part of the `FairSpec` of `CommandHandler`, and in
  `ScanPipeline` the premise of `EveryScanTold` alone (`ClientKeepsReading`). A
  response queue no client drains does block its tasks in this code;
  `CancelEndsPipeline` and `ProducerReleased` are checked without it.
- In `WsConnection` (`TasksRun`): the tasks are polled, the mutex is handed on,
  the 5 s run out, and a send to a broken socket fails. Nothing is assumed of the
  client, of broadcasts or of the heartbeat, nor that a Close ends a send that
  already waits for room; that the client stays and reads is the premise of
  `AllDelivered` alone.
- Never assumed: that a client sends anything, that hardware fails, that a
  driver signals, or that a panic happens.

## What is proved

Every safety invariant and action property that a passing run checks is also a
theorem, and so are both refinements. TLAPS checks them for every value of the
constants that meets the named assumptions of the modules; each argument below
names the inductive invariant and why the property does not do by itself.

The assumptions, besides positive bounds and sets of the right kind:

- `CommandHandler`: disjoint request sets, one connection per request.
- `ErrorAssumption` (`ScanPipeline`): the codes of device errors are neither
  those of the consumer nor words the model uses for no error. The code has them
  apart in one enum (`ScanError`).
- `ChoiceAssumption`: no product has a number for its name (see above).
- `StartupAssumption`: `NoToken`, the blank token and the missing origin are not
  among the tokens and sites.

### CommandHandlerProofs

- `TypeCorrect`: `Spec => []TypeOK`, the queue bound included.
- `MutualExclusion`, `NeverStuckBusy`, `RegistrationExact`. None is inductive
  alone: that a second task is not admitted needs the flag to be set while a
  task owns the guard, that the flag is not cleared under another's feet needs
  mutual exclusion, and both need the registration to lie inside the guard.
  `IInv` joins the three with `TypeOK`, and `NextIInv` goes through the actions
  of each task.
- `CancelExact`: the action property, from `IInv`: the registered scan owns the
  guard.
- `OneAnswer`: `AInv` is the answer count together with the fact that a scan
  that has not panicked has an error to report or none.

### ScanPipelineProofs

`TypeCorrect`, `FramingKept`, `NothingMissing`, `AssemblyAfterScan` and
`Promised`: `Spec => Promise`, the refinement of `ScanContract`. What the client
sees lags behind the consumer by whatever is in the queue, so nothing said of
both is inductive. `Link` is: there is a *forecast*, a sequence of views one
longer than the queue, of which the first is what the client has, each follows
from the one before by the message between them, all of them are `Sound` (the
contract allows them) and the last is where the consumer stands (`Sent`). A send
adds a view at the end (the consumer's obligation), a read drops the first one
(and the soundness of the next is what the client then relies on), a
disconnection keeps the first only. `Flow` says that no page is lost or invented
between producer and consumer, which a complete count depends on; `Document`
that the document grows with the pages; `Failed` where an error code comes from.
For the refinement, a step of the client is the step of the contract that its
view allows and every other one stutters.

### WsConnectionProofs

`TypeCorrect`, `EventsInOrder` and `ReliableLink`: `Spec => Reliable`, the
refinement of `ResponseLink`. Again by forecast, this time of what is on the
wire: `Wire`, with `Paced` to bound the responses between two places on it.
`Queue` says that the numbers in queue, hand and wire are consecutive, `Mutex`
that a user of the socket waits for it once and with a message of its own kind,
`Ring` that the next event of the receiver and those it heard leave only gaps
that the ring has overwritten by now.

### SidecarSessionProofs

- `SidecarContained`: the parent never spawns beside a live sidecar, and returns
  with its own gone or `Abandoned`. Not inductive alone: it takes `IInv`, whose
  `Beginning` says that no command was written before the start was over, and
  `Contained`, that a clean-up that will be followed by another attempt is that of
  a child that is gone. A child that was abandoned can only take steps that keep it
  so or end it (`ChildSteps`), since it has no command and its stdin is closed.
- `TypeCorrect`, `SuccessIsClosed`, `NoPageLeftBehind`. A job succeeds by what the
  parent reads, so the invariant has to say what the lines in the pipe are worth:
  `Conserved` counts pages read, in the pipe and announced; `Completed` says that
  the line "complete" stands behind every page and that the child has closed the
  source by then; `Beginning` that nothing has happened before the one command of
  the job is read.

### TwainSessionProofs

`TypeCorrect`, `DriverReached`, `SuccessIsClosed`: the invariant ties the step of
the thread to the value it holds (`Aligned`), the sheets to the step (`Hopper`)
and the outcome to the driver (`Verdict`). `EverythingClosed` adds what a Drop
still owes the driver (`Owed`: the calls left end with the one that closes the
manager) and that a library not loaded has nothing to close (`Unloaded`).

### PageProofs

- `DocumentReadable`, for every number of pages: `Laid` is the layout of the whole
  file so far, seven pieces a page, and of the table, three entries a page. The
  references of a finished document resolve because each number has its piece.
- `PageAsScanned`, for every width, height, depth and padding: `Transferred` is
  how far the strips are and how many bytes have come (at least the whole image,
  short of the padding of its last row, once it is done) and `Normalized` what
  the page is made of; that sample n is the pixel's is then arithmetic on rows.

### CapabilityProofs

`SettingsHold`: `SoFar` says that each setting already sent is in force or was
refused, and that each not yet sent is the driver's own choice; what a setting
resets is always sent after it (`Place` gives the order), so none undoes another.

### AgentProofs

- `LogsStay`: with `Dated`, that a dated name was written on its day and that, the
  clock never set back, no file is of a day to come; the file just opened is then
  among the latest, and counting days is monotone in the directory.
- `ServesAsConfigured`: `Stages` says what each stage of the set-up knows.
- `EncodedTokens`: decoding undoes encoding for every token (`RoundTrip`), by three
  inductions: that a text so far holds no "&", that it is the beginning of the
  whole, and, from the end of the text backwards, that the rest is decoded.
- `OpensWhatWasMeant`: `ChoiceInv` keeps both lists `Separate` (a name is listed
  for one backend only), by induction over the merge, and remembers that what
  was resolved came from the present list.

The last two are about recursions over data of any length. The library states
induction with an operator as parameter, which the installed provers cannot
instantiate; `Induction` states it for a *set* of natural numbers and is
proved from `Smallest`, itself from the well-foundedness of strict inclusion on
finite sets. `Decoding`, `Encoding` and `Merging` show by it that the recursive
functions exist, which is what their unfolding needs.

### Only model-checked

- Liveness: `ScanReleased`, `ListAnswered`, `CancelEndsPipeline`,
  `ProducerReleased`, `EveryScanTold`, `JobEnds`, `CancelEndsSession`, `Released`,
  `HandlerReturns`, `CommandsRead`, `AllDelivered`. They rest on fairness, hence
  on ENABLED, which is out of the prover's reach. The same goes for the absence
  of deadlock.
- The five disagreements: each is a counterexample, not a theorem.

## Not modelled

- The accept loop and the shutdown signal of the server: the first only spawns
  `handle_connection`, the second is never sent.
- The values of pixels, JPEG and PNG encoding, the resampling of thumbnails and
  the layout of a PDF page: libraries and arithmetic on floating point numbers.
- JSON, base64 and TOML: serde's and the libraries'. What they reject appears as
  an unreadable message, an undecodable page or a malformed file.
- Stderr of the sidecar, piped and never read: a child that logs more than the
  pipe holds would look like `Hang`.
- The Tauri shell (tray, autostart, windows): calls into a framework; its set-up
  of the server and its deep links are in `Startup` and `WsConnection`.
- FFI declarations: constants and C structures, of which `Fix32` has the one
  conversion the agent's own calls use.

## Plan

1. Safety lemmas on the way to the liveness properties: what every parked task
   waits for, as invariants.
2. `CommandHandler` with the pipeline and the session composed: the
   cancellation path from the client's message to the closed source, and the
   counterpart of `ResponseLink` in the queue the handler assumes.
