# TLA+ verification of kiliax

kiliax is an agent server: clients create sessions, a session queues runs, a run
streams a model's answer and executes its tool calls, and everything is recorded in
files so that a session can be resumed. This directory models what can go wrong
between two steps of it: file writes with crashes between them, tasks that share a
live session lock by lock, requests that check under one lock and act under another,
events and answers that arrive in another order than they were asked for; and the
algorithms of the code that are easy to get wrong and hard to test (assembling
streams, rebuilding requests, diffs, patches, configuration).

## The system

| Part | State | Operations | Talks to | Module |
|---|---|---|---|---|
| Session store (`kiliax-core/src/session.rs`) | `events.jsonl` (append-only), `snapshot.json`, `meta.json`; in memory `SessionState` | create, load, record\_\*, checkpoint, read\_message\_page, delete | called under `LiveSession::session` | SessionLog, SessionStore, SessionTranscript, Transcript |
| Run queue and worker (`kiliax-server/src/state/live_session.rs`) | queue, status, active\_run\_id, active\_cancel, goal, run files | enqueue, cancel, edit, regenerate, goals, shutdown; the worker task | store, runtime, events | RunQueue |
| Events (`live_session.rs`, `http/handlers/events.rs`) | `events_api.jsonl`, ring, broadcast channel, stream snapshot | emit, backlog, subscribe, resize | live session, clients | EventStream |
| Settings (`live_session.rs`, `state/mod.rs`) | settings, settings\_dirty, meta, tool configuration, preamble | patch, apply, defer, run overrides, configuration updates | worker, server configuration | SessionSettings |
| Registry (`state/server_state.rs`) | live sessions, lifecycle locks, idempotency cache | create, fork, resume, delete, run, evict | live sessions | SessionRegistry |
| Multi-agent control (`state/multi_agent.rs`) | tree of agents, mailboxes, activity counter | spawn, message, follow up, wait, list, close | live sessions of other agents | MultiAgent |
| Runtime (`kiliax-core/src/runtime*`) | messages of the turn, step counter, event channel | step loop, retries, tool groups, compaction | providers, tools, session | AgentRun |
| Model context (`compact.rs`, `history.rs`) | none | repair of the history, compacted history, context of a checkpoint | runtime, live session | History |
| Tools (`kiliax-core/src/tools`) | shell sessions, custom tool processes, files, MCP connections | shell, write\_stdin, custom calls, apply\_patch, edit\_file, write\_file, MCP sync and calls | runtime, child processes | ShellSessions, CustomTools, FileTools, TextEdits, EditMatch, McpConnections |
| Providers (`kiliax-llm`) | accumulators of a stream | build a request, take a reply, retry | model servers | ProviderRequests, Providers |
| Configuration (`config.rs`, `server_state.rs`) | the file, the configuration in force | load, resolve, normalise, validate, patch | sessions | Configuration, ConfigAdmin |
| Daemon (`kiliax-cli/src/daemon.rs`) | `server.json`, ports, server processes | ensure\_running, stop, restart | servers | Daemon |

HTTP routing, telemetry, prompt text and the front end are not modelled; see the end.

What makes them hard: every store operation is several file writes; HTTP handlers may
be dropped when their client goes away; the worker takes the queue, status, cancel and
session locks one after the other; goal and settings requests and the multi-agent tools
do not take the lifecycle lock; wakeups go through `tokio::sync::Notify`, whose two
notify functions differ; a cancelled run's task goes on while the next run starts;
parallel tools answer in any order; children, MCP servers and `kiliax` commands live
outside every lock. PROJECT.json lists the hazards line by line, each with the
properties that would catch it.

What correctness means for each:

- store: a load gives back what was recorded, whatever was cut off when; pages show it;
  a summary does not outlive what it summarises; all of it looks like one transcript.
- run queue: a run is executed or cancelled, exactly once, and ends; the status tells
  the truth; a shutdown leaves nothing behind.
- events: a client that follows the stream misses nothing without being told.
- settings: a session at rest is what its settings say; a deferred change is applied.
- registry: runs of a session happen in one copy; a key creates one object.
- multi-agent: limits hold, a closed tree is closed, a waiting agent is woken.
- runtime and context: what the session records is what the task goes on with.
- tools: output, answers, files and connections end up where they belong.
- providers: a stream gives what the whole reply would; every next request says it all.
- configuration and daemon: a restart finds what is in force; one server, on record.

## Modules

`SessionLog` holds the session data as TLA+ values and the pure functions of
`session.rs` and `preamble.rs`: `ApplyEvent`, `Replay` (a recursive function over the
lines), `ReplacePreamble`, `ReadMessagePage`. A message is a role and a body; a context
checkpoint remembers the set of messages its summary was made from, so that staleness
can be stated. A line of `events.jsonl` is an event with a seq, or text that does not
parse; `AppendTo` is the append-mode write, which glues new text to a line that has no
newline.

`SessionStore` is one session: the three files, the state in memory, and the operation
that holds the session mutex. Each file write is one step (`append`, `apply`, `meta`,
`snapshot`, `snapshot_meta`); `LiveSession`'s operations become lists of events to
record, followed or not by a checkpoint. Faults are chosen per instance: `crash` between
two writes, `iofail` of a write, `torn` appends, `drop` of a handler's future at an
await, and `legacy`, a snapshot of an older version with a message that has no id. A
regenerate request checks and truncates under two acquisitions of the mutex.

`Transcript` says what all this promises: a durable transcript that changes by one event
at a time, and a shown copy that differs from it by the event being recorded and by
nothing else. `SessionTranscript` is the refinement mapping: `durable` is the replay of
the log alone (the variable `kept`, a function of the log in every state), whatever
`load` takes from the snapshot; `shown` is memory. So an append is the recording of one
event, the apply shows it, every other write and every failed one is a stutter, and a
load or a crash changes only what is shown. `MCSessionStore` gives small values.

`RunQueue` is the queue of one live session: the worker (`worker_loop`, `run_one`), the
requests serialised by the lifecycle lock (task `api`) and those that are not (task
`side`: goals, messages from and closing by other agents). One step per lock acquired or
file written. `NotifyOne`, `NotifyWaiters` and `SendCancel` model tokio from the way the
code uses it. The faults are `early` (any `?` in `run_one` before the status is reset)
and `iofail`. `abandoned` is a history variable: the runs the code gives up by an early
return, a failed write, or a close. `MCRunQueue` lists the environments: which requests
and faults occur together in one behaviour.

`EventStream` numbers, appends, pushes and sends events in the separate steps of
`emit_event_with_persistence`, by the worker (in the order `run_stream` produces) and by
handlers. An append is two writes, the line and its newline (`WriteEvent`, `FinishLine`),
which nothing keeps from meeting another task's: `unfinished` is what is behind the last
newline of the file, and a line that is not one event is skipped by every reader. The
module keeps the stream snapshot in its two critical sections, and lets a client read a
backlog, subscribe, fall behind and reconnect.

`SessionSettings` has the five copies of a session's settings (memory, `meta.json`, tool
configuration, preamble, server configuration) and the steps in which handlers and the
worker change them; a run reads the configuration first (`RunStart`) and is shown in the
status afterwards (`RunBegins`). `model` stands for what only the preamble uses. Three
history variables name windows: `overlap` (two changes in progress at once), `straddled`
(a handler still applied settings when the run was shown) and `slipped` (settings were
applied between the two steps of a run's start, on a configuration newer than the run's).

`SessionRegistry` has several sessions, their copies in memory and on disk, the lifecycle
locks, the eviction, the deletion with its workspace and the idempotency cache. `stray`
and `excused` name the sessions and keys that met a window the code leaves open.

`MultiAgent` is one tree of agents with two tool calls in progress, runs that are popped,
started, continued for a goal, ended, aborted and cancelled, children resumed over HTTP
and restarts of the server. `enqueue_run` looks at `closing` in one step and pushes in
another, the worker looks at it in neither, and a close takes its four locks one after
the other (`CloseMeta`, `CloseStop`, `CloseClear`, `CloseSignal`).

`History` has the operators over a conversation (`Sanitize`, `DropOldest`, `Compacted`,
`Context`) and `AgentRun` the task of `run_stream` with the session that reads its
channel: replies, retries by kind of error, groups of tools, permission, images, a
compaction in the middle, a session that falls behind, leaves, and starts the next run.

`ShellSessions`, `CustomTools`, `McpConnections` and `FileTools` are the tools with state,
`TextEdits` (patch language, hunks, diff) and `EditMatch` (the nine searches of
`edit_file`) the text algorithms. They share nothing, so that `MCTools` composes them as
a choice: a behaviour is about one of them. `McpConnections` follows one server: a request
that syncs decides under the engine's lock (`Sync`), stops it when the loop of shutdowns
comes to it (`StopOld`), spawns the connection after the loop (`SpawnNew`), and may be
dropped at any of these awaits (`DropRequest`). In `CustomTools` the id of a call is given
by `RequestId`, and two calls may have the same one.

`ProviderRequests` builds the requests of the three APIs from one conversation;
`Providers` makes a call: request, retry, reply as a whole or as a stream of server
events through each API's handler, assembled message, next request.

`Configuration` has the functions of `config.rs` and of the patches; `ConfigAdmin` lets
administrators apply them concurrently to memory and file; `Daemon` the commands that
keep a server, one request, one file operation or one half of a port check at a time (a
check binds the port: `Hold`, then lets it go); `MCAdmin` composes the two as a choice.

## Runs

| Run | Checks | What it shows |
|---|---|---|
| session\_store | RecoveryExact, CheckpointFresh, PagesShowTranscript, ImplementsTranscript | messages, edits, regenerates, settings and compactions, with a crash or a failed write anywhere and an inconsistent old snapshot |
| session\_torn | IdsAligned, TornTailTolerated | torn appends and dropped handlers: messages and ids stay in step, and a load right after a torn append recovers the state before or after it |
| run\_queue | NoRunForgotten, StatusTruthful, ShutdownLeavesNoRun, EndIsFinal, EveryRunEnds | eight environments of requests and faults against the worker |
| event\_stream | DurableBeforeVisible, LossOnlyInWindow, NoSilentGap, SnapshotIsOutput | exactly which events a client can miss, and that whoever connects in the middle of an answer gets all of it but, in a window of two steps, one piece |
| session\_settings | SettledAtRest, RunToolsBounded, DeferredApplied | patches, configuration updates and run overrides, applied at once or deferred |
| registry | RunsInLiveCopy, DivergenceIsStray, KeyRemembered | two requests on two sessions with eviction, forks, deletion and retries |
| multi\_agent | LimitHeld, CloseComplete, NoLostWakeup | two tool calls on one tree, runs before, during and after a close, HTTP resumes, restarts |
| agent\_run | HistoryAgrees, CompactionCovers, CancelEnds | the recorded history rebuilds the next request, a compaction hides only what it summarised, a task that was left ends, or hangs in a summary request or a tool |
| tools | SilentLossOnlyLate, AnswerIsOwn, PatchAllOrNothing, DiffExact, EditExact, StateMatchesHub, ConnectingSettles | every tool with state; the diff of every change of up to four lines of two kinds, and every edit of texts of up to four lines |
| llm | StreamIsWhole, NextSaysAll, ReasoningSupplied | every reply of up to three blocks, whole, streamed or cut, after seven conversations, and the next request to each API |
| admin | RestartAgrees, OneServer, ServerOnRecord | concurrent configuration changes with restarts; concurrent commands with crashes and timeouts |
| shell\_output | OutputComplete | *violation*: a finding, below |

Several properties have an exception in them: `DurableBeforeVisible`, `LossOnlyInWindow`,
`SnapshotIsOutput`, `SettledAtRest`, `RunToolsBounded`, `DeferredApplied`,
`DivergenceIsStray`, `KeyRemembered`, `LimitHeld`, `CloseComplete`, `CompactionCovers`,
`CancelEnds`, `AnswerIsOwn`, `StateMatchesHub`, `ConnectingSettles`, `RestartAgrees`,
`OneServer` and `ServerOnRecord` say *only in these windows*. The code really leaves the
windows open; the property shows that nothing goes wrong outside them, and its comment
and the hazard's note in PROJECT.json name them.

Each module with a type invariant states it (`TypeOK`, `McpTypeOK`), as SessionStore does
LogIsSourceOfTruth and MetaNotAhead and RunQueue OneContinuation; the configurations list
only the properties that say more.

### Bounds

- SessionStore: `MaxSeq` 5 (4 with torn appends) allows three events beyond the initial
  ones: a compaction, an edit before it and a regenerate after that, with a snapshot in
  between (`CheckpointEvery` 2 or 3 puts the automatic checkpoint inside the sequence),
  or two nested truncations. Without symmetry: roles differ in the preambles.
- RunQueue: `MaxRuns` 3 lets one run end while the next starts and a third waits. At the
  bound a goal is not continued. The environments keep apart what would only multiply
  (goals with cancels that cannot write their file).
- EventStream: ring sizes 0 and 2, a channel of one event, five ids: a ring overflows,
  a receiver lags, and a restart follows ephemeral events. One fault per behaviour.
- SessionSettings: one handler with three requests against the worker with two runs, so
  that a request falls into each window of a run's start and end and overlaps the
  worker's own apply; two configurations that differ in model and custom tools, one of
  which knows a server that the other does not, so that a restore fails. That two handlers
  overlap is what `overlap` excepts, and the proofs allow any number of them.
- SessionRegistry: two requests, three operations, one live session at most, so that the
  second session evicts the first; a cache of one key. `IdemTtl` 0 is the code's "no
  limit"; `LiveTtl` makes eviction by age possible.
- MultiAgent: two names below the root, a limit of one agent, three sessions, four tool
  calls: two spawns compete for the last place, or a spawn with a close and a message.
  Names and calls are symmetric (there is no liveness property).
- AgentRun: two steps, two calls, one compaction, a channel of two events, so that a
  compaction can find a message in it that the session has not read; a tool that runs and
  one that is denied; errors of each class that `retry_decision` tells apart, with `MaxRetries` 2 of them (`MaxRate` 1 of the
  rate limit's own). All calls of a reply have one id, so that repair happens.
- Tools: one command with two bytes and a buffer of one, two file tools on two files, one
  named by two spellings, two I/O failures; three custom calls, two of which have one id;
  two MCP actors with two connections and one change of configuration.
- Providers: five kinds of blocks, replies of up to three; conversations with blank and
  unreadable parts, missing answers and broken arguments.
- Admin: two administrators with three requests; two commands at a time and three in all,
  three servers, three ports and two faults. Commands and administrators are symmetric.

### Fairness

RunQueue assumes weak fairness of the worker and of the request in progress on each
side, and nothing of new requests: tokio polls every task that is ready, and a stream
ends because its steps are bounded and each is bounded by timeouts and retries. The
five-second abort of a shutdown is not assumed to happen. SessionSettings assumes the
same of the worker and of each handler. AgentRun assumes only that the task goes on where
it waits for nobody else: its sends, its delays, the end of a closed stream. It assumes
nothing of a summary request, which has neither a timeout nor a look at the cancellation,
nothing of a tool, of the provider's stream or of the session that reads; CancelEnds names
the two places where a task that was left may therefore hang for good. The tools run assumes that the shell watcher polls, a deadline
passes, and MCP connections and shutdowns end (they have timeouts). The others state no
liveness property and no fairness.

Deadlock is checked in session\_store, session\_torn and agent\_run. In the others a
system without requests, or with all its bounded requests used up, rests.

### Finding

`shell_output` (OutputComplete): `wait_for_shell_session` returns when the watcher has
stored the exit code, without waiting for the tasks that read the output; what they have
not delivered yet is not in the result, the session is removed, and the result says
`truncated: false`. A test of the repository expects all of it.

### Known divergences

The models show these behaviours of the code; the properties are stated around them.

- A torn line at the end of `events.jsonl` is tolerated by one load; the next append is
  glued to it, and once a newline follows, the session no longer loads.
- A handler's future dropped between append and apply leaves memory one event behind the
  log, and its seq is used again.
- `cancel_run` checks the active run under one lock and signals under another: it may
  cancel the next run.
- Between the pop and `Running` a session looks idle: an edit may truncate the transcript
  of a run that has started.
- `close_for_multi_agent` wakes the worker with `notify_waiters`, which leaves no permit:
  a worker that is not yet waiting sleeps for ever.
- An agent that is resumed over HTTP before its spawn has registered it is open in the
  tree with the mark of an earlier close in its file; resumed once more, it is registered
  as closed while the agents below it stay open.
- The line of an event and its newline are two unlocked writes: lines of the worker and
  of a handler that run into each other are skipped by every reader of `events_api.jsonl`,
  and after a restart the id of an event that was lost that way may be given out again.
- A client that fetches the session between the two updates of the stream snapshot misses
  the piece in between: the snapshot's id covers it already.
- Settings changed between a run's reading of the configuration and its status are applied
  as in an idle session, and the restore after the run puts the older configuration back.
- Two settings changes in progress at once: the first to finish clears the mark of the
  other, whose deferred change is then never applied.
- A run that the worker has popped when a close clears the queue, and whose cancel signal
  is not stored yet, is executed; so is one whose enqueue had passed the check of `closing`.
- The checkpoint of a compaction may be recorded and the store fail after it: the session
  has the checkpoint, the task goes on with the whole history.
- The task of a cancelled run hangs in a summary request that never answers.
- A custom tool's late line is accepted by a later call with the same id.
- A status request dropped while the engine shuts MCP servers down, one after the other,
  leaves a server in the hub that the engine has forgotten; and who stops a server may
  stop the one another has just connected, after which the engine believes in a server
  that is gone and no call repairs it.
- A first server that binds only after its record was probed is forgotten; when another
  program has the default port, the next command cannot find it and starts a second one.
  Two checks of a port collide, and a server is started on the next one. A check may make
  a starting server's bind fail; its record then stands for up to thirty seconds.
- `run_one` returning early, or a goal continuation whose goal has ended, leaves status
  and run file at running. A failed restore of the tools after a run does the same and
  also keeps a deferred settings change waiting until the next run ends.
- A compaction that ends after its run was cancelled is still written, over the input of
  the next run.
- An `oldString` that occurs twice is refused by the exact search of `edit_file` only; a
  looser one may find a unique block around it.
- Arguments of a call that are not JSON keep the Messages API from building any further
  request of that conversation.

## Proofs

`SessionStoreProofs` proves, for all bodies, initial messages, preambles, checkpoint
intervals and bounds, and for all operations and the faults `crash`, `iofail` and
`legacy` (assumption `NoTornNoDrop`; for the two others it does not hold, see the first
two divergences):

- `TypeCorrect`: `Spec => []TypeOK`
- `RecoveryIsExact`: `Spec => []RecoveryExact`
- `Invariance`: `Spec => []IInv`, the inductive invariant behind both

RecoveryExact is not inductive: that replay gives memory says nothing about the next
snapshot. `IInv` adds that every line of the log has a seq that memory has reached
(`MemoryCoversLog`: a snapshot of memory skips all of them), that the snapshot's position
is not beyond memory (`MemoryCoversSnapshot`: the next event is replayed on top of it),
that a snapshot's position is not beyond its own last seq, that creation numbers lines
from one, and that the log is readable. One lemma per group of actions shows that it is
preserved. They rest on the module's lemmas about `Replay`: appending a
line applies one event, lines at or below the snapshot's position change nothing, and
replay keeps types. The library's induction theorems take operators and cannot be used
with the installed backends; `SequenceLemmas` proves `BoundedInduction` for sets of
naturals from a least element, and everything about `Replay` goes through it. The same
module has what the other proofs need of sequences as sets: appending, taking the head,
and that distinct elements bound the length.

Its second half is about the transcript. It proves, for the same constants and for *all*
faults:

- `IdsAreAligned`: `Spec => []IdsAligned`
- `TornTailIsTolerated`: `Spec => TornTailTolerated`
- `IdInvariance`: `Spec => []IdInv`, which gives `TypeOK` as well

and, without torn appends and dropped handlers again:

- `LogIsTheSource`: `Spec => []LogIsSourceOfTruth`
- `CheckpointIsFresh`: `Spec => []CheckpointFresh`
- `StoreImplementsTranscript`: `KeptSpec => ImplementsTranscript`
- `TranscriptInvariance`: `Spec => []TranscriptInv`, the invariant behind these three

`IdsAligned` is not inductive: an event read from the log, or one still to be recorded,
could bring an id that is there already. `IdInv` says where ids come from: messages are
recorded under ascending ids (`LogGood`), none but a pending one beyond memory
(`LogBelow`); what an edit, a truncation or a regenerate names is a recorded transcript
message and never a system message (`RefersBack`, `TodoGood`, `RegenGood`); and no system
message has a recorded id, in memory or in the snapshot (`Placed`). The last two are what
an edit needs in order not to turn a system message into a user message, which would
shift the preamble and with it the order of ids. A file that replay rejects, or that ends
inside a line, says nothing about what memory names; hence `Readable` and `Whole`.

`TranscriptInv` says that three sessions have the same transcript: the log replayed alone
(`LogState`), the snapshot with the log (`Recovered`), and memory with the event that has
been appended and not applied (`Durable`). An append applies the same event to all three,
and `ApplyKeeps` gives the transcript afterwards from the transcript before
(`EntriesAfter`), whatever preamble each has; any other step leaves one as it is or copies
it over another. `CoversKept` is the part about checkpoints: what one covers is at most
its base and is there under the same id, with the same text unless the log has an edit
whose truncation is missing; a truncation at or below the base drops the checkpoint, one
above it removes nothing that is covered. In the refinement `RecordStep` is the abstract
`Record`, `CreateSnapshot` is `Begin`, `Delete` is `Remove`, and `StepKinds` shows that
every other step is a `Show` or a stutter.

Its third part is about paging, under the same assumption:

- `PagesShowAll`: whenever a session is loaded and at rest, following `next_before` shows
  what `DisplayEntries` shows, for pages of any size
- `PagesAreComplete`: `Spec => []PagesShowTranscript`, its instance that the run checks
- `PageInvariance`: `Spec => []PageInv`, the invariant behind both

`read_message_page` goes backwards over the file, `apply_event` went forwards. `ScanInv`
relates the two at every line: what the page is to show is what has been collected and what
will come (`Coming`) of the transcript before that line (`Historic`), under the edits and
the lowest truncation met since. `PageProperties` says what one page holds and what it
leaves, and `WalkShowsAll` that a walk ends: each `next_before` is the id of a recorded
message at an earlier line than the one before. One difference between the two readings is
real: a truncation after a message that is no longer there does nothing in `apply_event`,
while the scan still hides every later message with a higher id. They agree because no such
line is ever recorded, which is what `PageInv` says (`LogPresent`), of the events still to
be recorded (`TruncateDue`) and of a regenerate request that has found its message and
released the lock (`RegenPresent`): only a truncation removes messages, and edits and
regenerates exclude each other until theirs is appended.

`RunQueueProofs` proves, for any number of runs and any set of requests and faults:

- `TypeCorrect`: `Spec => []TypeOK`
- `RunsAreHeld`: `Spec => []NoRunForgotten`
- `EndsStay`: `Spec => EndIsFinal`
- `GoalQueuedOnce`: `Spec => []OneContinuation`
- `StatusIsTrue`: `Spec => []StatusTruthful`
- `ShutdownFinishesRuns`: `Spec => []ShutdownLeavesNoRun`

The first four rest on `PlaceInv`: a run is at one place at a time, with a request about
to push it, in the queue, or with the worker, and its file says there what it must
(`QueuePlaces`, `PushPlaces`, `WorkerPlaces`); nothing else is unfinished. NoRunForgotten
alone is not inductive: a run in two places would be dropped by one of them and lost, or
cancelled in the one while it runs in the other. The sharpest part is that between
`enqueue_goal_continuation`'s two checks no other continuation can be queued, because
only the worker creates one. Each action is a frame step (`PlacesKept`: no run moves, or
the worker lets go of one that ended), a removal (`RunsLeaveQueue`), a push, a new file
(`FreshRunIsUnused`, `NewRunIsNowhere`) or a write of the worker's own file
(`WorkerWrites`). `VecDeque::retain` is the recursive function `Without`, characterised by
`WithoutProperties`. `StatusInv` adds which part of `run_one` the status shows its run in,
and that what an early return leaves behind was given up. `LeaveInv` follows a shutdown:
`closing` comes before its list; once the worker has found the queue empty under
`closing`, what is in the queue afterwards is what shutdown has listed and not yet
cancelled (`Listed`), because only a request begun before, and not another agent's, can
push. The attempt corrected two properties. A message from another agent does not take
the lifecycle lock: it may read `closing` before a shutdown and push after the worker has
left, and that run stays queued. ShutdownLeavesNoRun and EveryRunEnds held only because
no environment had such messages together with a shutdown; one has now, and both name
the case.

`SessionRegistryProofs` proves, for any sessions and requests, any finite set of keys
(`RegistryBounds`), any limits and ages (`RegistryNull`: NULL is no request and no number):

- `TypeCorrect`: `Spec => []TypeOK`
- `RunsAreLive`: `Spec => []RunsInLiveCopy`
- `OnlyStrayDiverges`: `Spec => []DivergenceIsStray`
- `KeysAreRemembered`: `Spec => []KeyRemembered`

The first three share the invariant `SessionInv`. That a run is in an open copy is not
inductive: what a request found must still be there when it enqueues. The invariant ties
every lifecycle lock to the one request between its lookup and its end (`Locked`), says
that a copy found under the lock stays registered and open until then (`FoundIsLive`),
that an open copy which is not stray knows the last seq on disk (`LiveIsCurrent`), and
that nobody but its creator knows a session before it is on disk (`NamesKnown`,
`Creating`, `Unregistered`). `KeyInv` says that what a key made it made once, unless it is
excused (`MadeOnce`), and that the cache holds the last time each key was stored
(`Stamped`); an eviction removes the oldest entry, and then `IdemMax` others are newer.
The attempt corrected the history variable `stray`: larger instances evict, or delete, a
copy that was opened over a creation before it is registered, and the first version of
the model did not count those sessions.

`EventStreamProofs` proves, for any number of clients, ring size and bounds:

- `SeenIsDurable`: `Spec => []DurableBeforeVisible`. Its invariant `EventInv` follows an
  event from its id to the clients: ids are never beyond `next_event_id` and an emission's
  id is its own (`IdsCovered`, `IdsOnce`), so that an append can be recognised by its id;
  past its two writes the event has a line of its own in the file, before the ring and the
  broadcast, or its append met another and `alone` says so (`Filed`, `FileFirst`); between
  them it is the unfinished line, which while nothing failed belongs to an append in
  progress (`LinesEnd`). What a reader makes of the file (`ReadableLines`) only grows, but
  for a line that another append spoils.
- `SnapshotIsWhole`: `Spec => []SnapshotIsOutput`. handle_agent_event takes the snapshot's
  mutex twice for one event; `SnapshotInv` says that between the two the snapshot lacks
  what the event in progress brings (`Produced`) and nothing else, that its id covers every
  piece it has (`Covered`), that a snapshot that was dropped left no output behind, and that
  `assistant_started` is true exactly when there is text, which decides whether a late thinking delta counts. It assumes that `None` is
  neither a snapshot nor an emission (`NothingIsNull`).
- `LossIsExplained`: `Spec => []LossOnlyInWindow`. `PushInv` relates the ring to the order
  of the pushes: every event is pushed once, before it is sent (`PushedOnce`,
  `SentIsPushed`), an id is one event (`OneEventPerId`), and the ring is what was pushed
  last while it was on, in that order (`RingOfPushes`), which a cut, a push and a push past
  the ring keep. A ring that begins early enough for a client then has every event the
  client lacks, except one that its first event overtook or that was pushed while the ring
  was off (`BacklogCovers`); the file has every other, but for those that share a line; and what was lost stays lost (`ClientsKeep`).
- `StreamsHaveNoGap`: `Spec => []NoSilentGap`, from `ClientInv`: the backlog has every
  event once (`RingDistinct`, `LogDistinct`), and after it comes what was sent since the
  client subscribed (`Continues`). What both need of the reading of the file and the ring
  (`After`, a recursive function, whose existence `AfterFunction` proves) is proved by
  induction over the sequence, with the property given as a set (`AfterProperties`).

`MultiAgentProofs` proves, for any finite set of concurrent tool calls (`CallsFinite`),
any names, depth, limit and number of sessions, restarts and resumes:

- `NoWakeupIsLost`: `Spec => []NoLostWakeup`. Its invariant `WaitInv` adds that only
  wait_agent sleeps, and for a session of the tree; a message and the notification of
  everyone who waits are one step, and subscribing comes before draining, so that a call
  can only fall asleep over an empty mailbox.
- `SpawnLimit`: `Spec => []LimitHeld`. The number of agents alone is not inductive: an
  agent that is being spawned is not counted, and a registration needs no place. `LimitInv`
  bounds the agents that count and the spawns on their way to registration together:
  reserve_spawn has seen fewer agents than the limit, and the spawns then in progress are
  what `overlap` records; a registration turns a spawn into an agent; everything else, a
  dropped spawn included, only lowers the sum.

- `CloseIsComplete`: `Spec => []CloseComplete`. Neither half is inductive. For the subtree,
  `CloseInv` adds that a spawn under a closed agent is known to race from reserve_spawn on
  (`SpawnsRaced`), that a child's path is its call's once it is on disk, and that nobody
  registers it meanwhile but a resume (`ChildrenHidden`); prefixes are transitive. For the
  copies: who was not resumed has one copy (`OneCopy`), the registered one while it is open
  (`OpenHasCopy`), so that marking the subtree puts it on a call's list, where only the last
  step of close_for_multi_agent takes it off. Between its steps, `ClosesGoOn` says what has
  been done to the copy: once `closing` is stored nobody passes its check, and once the queue
  is cleared it stays empty unless a push is known to be late (`Cleared`). The proof failed at ResumeOverHttp for a reason: a
  session resumed before its spawn registers it is open again with the closed mark of an
  earlier close in its file, and a second resume closes it alone, over open children; it
  takes two resumes, one more than the instance had. The property now names that case.

`ProcessProofs` proves, about the three tools with processes, the patch tool, the background
server and the calls of a model, each from its own specification:

- `OutputIsAccounted`: `ShellSpec => []SilentLossOnlyLate`. The property speaks of the
  results of a command that ended; `ShellInv` follows its output before that: what was
  taken from a buffer is in the results, unless one of them said `truncated` or the buffer
  remembers (`cut`) that it dropped something, which the next result will say
  (`Accounted`). It holds of aborted calls as well, of which the property says nothing.
- `AnswersAreOwn`: `CustomSpec => []AnswerIsOwn`, for any calls and ids. Were ids distinct,
  the check of the id would give it at once; as they repeat, it takes `CustomInv`: a request
  is with the child, or answered, once (`RequestsAreOnce`), and its call is then the one that
  holds the lock, or a call with that id was aborted (`RequestsAreAsked`): a call that failed
  or timed out stopped the child and took its lines with it.
- `EngineKnowsTheHub`: `McpSpec => []StateMatchesHub`, for any finite set of requests
  (`McpAssumption`), overlapping in any way. `HubFits` says what holds of engine and hub in
  every state until somebody takes away what another has just connected: a connection that is
  to be stored is the hub's (`HeldSigs`), the engine is connected to no server while the hub
  has none, and what else parts them is somebody's to stop or was left behind by a dropped
  request. Every step has one of seven effects on what this speaks of (`Effect`).
- `OneServerRuns` and `ServersAreOnRecord`: `DaemonSpec => []OneServer` and `DaemonSpec =>
  []ServerOnRecord`, for any commands, workspaces, settings and ports, without the bound on
  faults. `DaemonInv` has one part for each of OneServer's cases. `OneByOne`: at most one
  command runs and at most one server is not gone; the server is on record, or about to be, or
  a command is at a place where it will ask the wanted port and find it; and `Coherent` says
  what a command may count on at each place, that its record is still the one it read, that
  the server it told to stop is stopping, that nothing is left when it spawns. `SideBySide`:
  every server takes the configured token at the wanted port for the one workspace, and a
  command that looks further than its own check of the port has found one up.

- `PatchIsWhole`: `FileSpec => []PatchAllOrNothing`, for any calls, paths and patches that
  satisfy `FileAssumption`. The property compares the files with those before the patch once
  it has ended; `FilesInv` says what holds on the way, as long as nobody else wrote: while
  `apply_patch` plans, the files are as they were, and the plan so far has read from them
  what it will write over (`Reads`) and holds what the operations so far make of them
  (`Shows`); while it writes, paths other than those already written are as they were
  (`Elsewhere`), those have their new text, and the undo list has their old one; and a
  restore brings back one path after another. That a patch's text parses back to its
  operations, and not without its last line, is an assumption that TLC evaluates on the
  instance's patches; the parser recurses over lines.
- `ReasoningIsSupplied`: `Spec => []ReasoningSupplied` (Providers), for any conversations and
  replies. `PatchInv` adds that a body sent again was patched; `PatchedHasReasoning`, that
  no message with calls of a patched body lacks reasoning, whatever the repair of the
  history made of it and however blank the recorded reasoning was. It says nothing of a
  server that refuses every body (`demanding = "always"`).

It also proves, for any administrators, texts and patches, from `AdminSpec`:

- `RestartIsSafe`: `AdminSpec => []RestartAgrees`. The file is compared with memory only
  between requests; `AdminInv` says what a request carries while it is under way: the text
  it goes on with loads, and loads as its `next`; as long as nothing was disturbed there is
  at most one such request, the file has its text once it has written it, and agrees with
  memory before. It rests on the round trip `LoadedIsWhole`: what `Load` rewrites
  (`normalized`), written out and loaded again, is the same configuration, because a
  resolved default model and resolved model lists resolve to themselves
  (`ResolveSerialized`). It uses that `None` is no value that keeps a field (`None # Keep`).

`SessionSettingsProofs` proves, for any handlers, patches, overrides and configurations
(`ConfigsResolve`: the default model of a configuration is one of its models, as loading
and patching see to; `SettingsBounds`):

- `SettingsAgreeAtRest`: `Spec => []SettledAtRest`
- `RunToolsAreBounded`: `Spec => []RunToolsBounded`

Both rest on `SettingsInv`. As long as no two changes were in progress at once, one handler
works, or the worker applies settings, or neither (`OneAtWork`); `Applies` and `Carries`
say what who works has read and written so far, and `Agreed` what holds whenever nothing
waits to be applied, so that `settings_dirty` covers every disagreement. The delicate part
is a run that begins while a handler applies: it puts its own tools in the place of the
handler's and restores them on the configuration of its start, which is still the current
one unless a change fell between the run's reading of it and its status (`Current`);
`straddled` and `slipped` record the two. Tools are compared only while they are the
session's (`Fitted`): not during a run, nor after one that returned by an error. The attempt corrected two properties, which held
only because every configuration of the instance accepted every patch and named the same
servers. A first patch that is refused leaves `meta.json` without settings: SettledAtRest
now excepts a meta that holds none. A run that began before its server was removed from the
configuration keeps it: RunToolsBounded now speaks of servers that the settings disable,
not of those they do not name.

Model-checked only, and why:

- liveness (EveryRunEnds, DeferredApplied, CancelEnds, ConnectingSettles): it rests on
  fairness, which the prover has no rules for;
- DiffExact and EditExact: what recursive functions over lines compute, for every text of a
  bounded length;
- HistoryAgrees and CompactionCovers: what `Sanitize` makes of a history of any length is
  induction over that history, interleaved with the agent's loop; not attempted yet;
- StreamIsWhole and NextSaysAll: the same for the provider's chunks and requests.

Worth proving next: CompactionCovers, by one recursive pass over the messages.

## Not modelled

- HTTP routing and DTO mapping: requests are handled without state of their own; what a
  handler does to the server is an action of the module it does it to.
- Telemetry: the program does not depend on it.
- Prompt assembly, agent profiles, skill discovery: text without shared state. A preamble
  is a value here; that it is replaced correctly is SessionLog's.
- Listing, searching and reading sessions and files; the read, grep, web and plan tools:
  queries without state.
- `AgentRuntime::run`, the variant without a stream: the same loop without a reader.
- The MCP protocol and the models themselves are external; what the code sees of them is
  a choice. Token counts are a choice as well; usage and request headers are left out.
- Windows service details, opening the browser, terminal output, and the web front end.
