# TLA+ models of koi-rust-rv

Koi is an agent server. People talk to it through a web page and QQ; a main
conversation plans and hands work to child tasks; an agent loop calls a model and runs
the operations tools the model asks for, after a permission check and, where the
permission is not enough, after somebody has approved. Everything that happens to a task
is an event in that task's append-only stream. Nearly every hard question about the
program is therefore a question about **several actors appending to one stream from
stale readings of it**, and about what a reader of the stream concludes.

The modules are read in the order of the section [Modules](#modules). Paths are those of
the repository.

## Inventory

| Component | State it keeps | Operations | Interacts with |
|---|---|---|---|
| Task projection (`koi-core/domain/task.rs`, `event.rs`) | status, sequence, usage of one task, all computed from its events | `apply`, `apply_payload`, `transition` | every writer validates with it, every reader replays with it |
| Event store (`koi-infra/event_store.rs`) | one JSONL file per task, a mutex over writes, a broadcast channel | `append` (sequence check, write, sync, broadcast), `load_task`, `list_tasks`, `delete_task` | task runtimes, supervisor and SSE subscribers |
| Task runtime (`koi-core/agent/runtime.rs`) | a cached projection of one task | `new`, `recover`, `record`, `refresh_projection`, `start_new_cycle_if_terminal` | one is made per call by each source, per run by the loop, per tick by the supervisor |
| Agent loop (`koi-core/agent/loop.rs`) | a runtime, the model's context, the turn and attempt counts | `run`, `resume_after_approval`: turns, `call_model`, `handle_tool_call`, `execute_tool`, `record_cancelled`, `record_failed` | model provider, tools, approval sources; writes most events |
| Agent supervisor (`koi-server/agent_runtime.rs`) | the map of active runs with their cancellation tokens, a wake | `run`/`tick`, `try_start`, `finish`, `finish_pausing`, `finish_cancelling`, `fail_task_if_needed`, delivery of child results | starts and cancels loops, reads every stream |
| Ingress registrar (`koi-core/ports/ingress.rs`) | none | `register`: permission check, new cycle, input or refusal | sources, streams |
| Control executor (`koi-core/agent/control.rs`) | none | pause, resume, cancel, change of minimum permission | sources, task tools, streams |
| Task manager (`koi-core/agent/task_manager.rs`, `task_tools.rs`) | cancellation tokens of the children it made; else the main and the children's streams | create, feed, name, control and delete a child; deliver its result | two streams per operation |
| Authorization (`koi-core/domain/authorization.rs`, `agent/authorization.rs`) | directory of permissions, chain of who asked for what | resolve, compare with a tool's requirement | loop, ingress |
| Context assembly (`koi-core/agent/context.rs`, `injection.rs`) | none | which events become which messages, compaction checkpoints | loop |
| LLM provider (`koi-infra/llm.rs`), model proxy, model configuration | continuation of a conversation at the provider, fingerprints | a streaming call, retry classification, reset | loop |
| Web source and identity (`koi-infra/web_source.rs`, `web_identity.rs`) | sessions, users file, approval lock | input, control, approval, server-sent events | registrar, streams, API |
| QQ source (`koi-infra/qq_source.rs`) | gateway session, seen messages, pending confirmations | messages, commands, confirmations, replies | registrar, streams |
| Service monitor, alerts (`koi-infra/service_monitor.rs`, `alerts.rs`) | failure counts, deduplication window | probes, notices, webhook | registrar |
| Console and administration socket (`koi-server/console.rs`, `admin_socket.rs`, `koi-console`) | none | the control commands, `context clear` | control executor, store |
| Tools (`koi-infra/tools/`) | none | commands on the host | loop |

`PROJECT.json` lists every component with what is modelled of it.

### What is hard here, and what each component has to keep

* **Projection.** A pause outranks the outcome of the turn it interrupts; a terminal
  status accepts only what opens a cycle or configures the conversation.
* **Store and runtimes.** No lock is held from validation to append. Every writer
  validates against a cache, relies on the store's sequence check, and retries once. The
  stream has to stay replayable, an event must not be stored twice, and a late writer
  must not undo a pause or an end it has not seen. Deletion shares no lock with writers.
* **Supervisor.** It is level-triggered: it drains notifications, reads the stream,
  reads the projection, acts. All three may be out of date when it acts. A pause or an
  approval must not be forgotten although the notification was consumed while a run was
  active; `Paused` must not be shown while a run is left; requests of an old cycle must
  not act on a new one.
* **Loop.** Runs end by many paths, at any step, with a stop request, a conflict or a
  failure. A tool must run once and with an approval of its own; the budget is the task's
  and not the run's; results that come in during a call must reach a later call.
* **Sources.** Two of them may answer the same approval request.
* **Task manager.** An operation touches two streams with separate appends.
* **JSONL file.** A crash may leave half a line.
* **Authority.** The model names the event it acts for; nothing it, a tool or a refused
  approval writes may add up to somebody's permission.
* **Context.** What a run works on after compactions is what a restart would read, and
  nothing it knows has gone.
* **Provider.** Half an answer never becomes a call or the continuation of the next
  request; a result goes out under the call it belongs to.
* **Scheduler.** Work that finds all slots taken is found again.
* **QQ.** Messages come in copies and several forms, connections break, answers to
  requests are lost, tokens expire while requests are under way.
* **Monitor and alerts.** Each change of a state is recorded once, also when storing fails.
* **Host commands and files.** A call ends, leaves nothing running, and does not pass a cut
  result off as whole; a transfer that stops has lost nothing.
* **Console.** Its look at the active runs is not one step with the deletion after it.

`PROJECT.json` "hazards" gives each at its line with the properties that cover it.

## Modules

| Module | Models | EXTENDS |
|---|---|---|
| `TaskProjection` | statuses, effect of an event kind, transition relation (pure) | |
| `TaskStream` | the abstract promise: one stream per task, one legal event at a time | `TaskProjection` |
| `EventLog` | runtimes of one task recording concurrently through the store; restart, I/O error; refines `TaskStream` | `TaskProjection` |
| `EventLogProofs` | theorems of `EventLog` and `MainSession` | `EventLog`, `TLAPS` |
| `JsonlStore` | the file of a task piece by piece: appends, loads, I/O errors, crashes, what subscribers are sent | |
| `JsonlStoreProofs` | its theorems | `JsonlStore`, `TLAPS` |
| `TaskCycles` | how the supervisor reads a stream: current cycle, pending inputs and results, stop requests, completed approval (pure) | `TaskProjection` |
| `AgentLoop` | one run of the loop, step by step | `TaskCycles` |
| `AgentSupervisor` | ticks, start and end of runs, sources, crashes; composes with `AgentLoop` | `AgentLoop` |
| `AgentSupervisorProofs` | its theorems | `AgentSupervisor`, `TLAPS` |
| `TaskScheduler` | many tasks, the slots, notifications and wake-ups | |
| `TaskManager` | operations on children over the main stream and the children's streams, delivery of results, deletion | `TaskProjection` |
| `TaskManagerProofs` | its theorems | `TaskManager`, `TLAPS` |
| `MainSession` | start of the server, console commands and deletion of the main stream beside sources and runs | `TaskProjection` |
| `ToolAuthorization` | permissions of inputs, chain of authority of a tool, requests, approvals, grants, minimum permission | |
| `ToolAuthorizationProofs` | its theorems | `ToolAuthorization`, `TLAPS` |
| `ContextAssembly` | items of a context, budget, compaction, what a restart reads | |
| `ModelStream` | decoding of one streamed answer | |
| `ModelCalls` | tool results and the continuation of a conversation, over models, failures and the proxy | |
| `ModelProofs` | theorems of `ModelCalls`, `ModelStream` and `ContextAssembly` | `ModelCalls`, `TLAPS` |
| `QqGateway` | session, heartbeat and resumption of the gateway connection | |
| `QqMessages` | copies and forms of a message, deduplication, commands | |
| `QqDelivery` | tokens, retries, chunks and sequence numbers of what is sent | |
| `Alerts` | monitor thresholds, alert groups, deduplication in the log | |
| `SourceProofs` | theorems of `Alerts`, `QqDelivery` and `QqMessages` | `Alerts`, `TLAPS` |
| `CommandRunner` | a host command: input, output, limits, time limit, the end of its processes | |
| `FileTools` | the `fs.*` tools call by call, beside other processes | |
| `ToolProofs` | theorems of `CommandRunner` and `FileTools` | `CommandRunner`, `TLAPS` |
| `MCEventLog`, `MCJsonlStore`, `MCAgentSupervisor`, `MCTaskManager` | instances for TLC of one component | |
| `MCSupervisor` | the instances of `AgentSupervisor` of the runs `supervisor` and `stop` | `MCAgentSupervisor` |
| `MCComponents` | nine components with safety properties | `MCJsonlStore` |
| `MCProgress` | four components with liveness properties | `CommandRunner` |

`AgentSupervisor` composes with `AgentLoop` and, through the stream, with the sources.
The other components meet where the program makes them meet through data, and each module
says what it takes from the others: `QqMessages` goes on where `QqGateway` hands a dispatch
to a task, `ModelCalls` takes the outcome `ModelStream` decides, `TaskScheduler` leaves to
`AgentSupervisor` what a run does, `MainSession` and `AgentSupervisor` use a record call as
the one step `EventLog` shows it to be.

### `TaskProjection`

An event is its kind; `Target(status, kind)` is what `apply_payload` would set,
`Applies` is `apply(..).is_ok()`. Kinds that never touch the status have one
representative each. A stream is replayed by `Project`, and `Unreadable` is a replay
that returned an error.

### `EventLog`

A record call is the steps `BeginRecord` (validate against the cache) then
`AppendSucceeds`, `AppendFails` (I/O error; the line may or may not be in the file) or
`AppendConflicts`, then `RefreshForRetry` and once more an append or `RetryConflicts`.
`replay[i]` keeps what a replay of the first `i` events gives, so that a bad append shows
at once. `Restart` drops every runtime. An append is one step here; `JsonlStore` opens it
up. `delete_task` is an action of `TaskManager`.

`calls` names events so that a duplicate can be told from two equal events; it is the
only history variable.

### `JsonlStore`

`append` is `CheckSequence` (lock, read, compare), three `Write`s, `SyncData` and
`Publish`. The text of an event has two parts because a write may be cut short, and the
end of its line is a piece of its own because `writeln!` on a `File` issues it as a write
of its own. `ReadTaskFile` is the line reader: an empty line is skipped, anything that is
not the text of one event is an error, and the last line counts without its end.
`LoadTask` takes no lock. `Fail` leaves what has been written; `Crash` keeps at least what
was synced. `acked` and `heard` are history: what callers were told and what subscribers
were sent.

### `AgentLoop` and `AgentSupervisor`

One task, main or child (`IsMain`). The actors are the run (`RunStep`, `RunFails`), the
supervisor (`TickLoad`, `TickRecover`, `TickAct`: three reads that another actor may
separate), the registrar (`ReceiveInput`, `StartNewCycle`, `RecordInput`,
`RefuseInput`), and single-append sources (`Control`, `SubmitApproval`,
`DeliverChildResult`). `Crash` drops every process and applies what
`bootstrap_main_session` does to a main stream that has ended.

`run.pc` names the point in `run_turns` between two awaits; `run.cache` is the prefix the
run's runtime has seen. `EventLog` shows what a record call does step by step, so here
`Record` is one step with the same outcomes: appended and legal, refused, or failed after
two conflicts (`MayConflictTwice`). What the supervisor itself records when a run leaves
(`FailTaskIfNeeded`) and what it confirms of a stop may be lost as well (`Unrecorded`), for it
only logs an error; `MaxUnrecorded` bounds how often.

An event carries the positions it refers to in `about`: a submission its request, a
request its proposal, a model call the context it was given.

Abstractions of these two modules: one tool call per answer; a call costs one token; an
input is always above the minimum permission; permission checks are a free choice among
`Verdicts`; model and tool failures are a free choice when `Failures`.

### `TaskManager`

A manager is the loop of the main conversation or the web source, each in at most one
operation (the web source holds `write_lock`, the loop is sequential). `Request` is
`record_request`. After it, `manager[m].at` names the next append: `MainRecords` says
which event of the main stream it is, `Then` where the operation goes on and `Otherwise`
where it goes on when the record call returns an error: the `?` of the manager becomes a
failed tool, the `?` of the loop ends the run. `Recover`, `Apply`, `OpenCycle`, `Delete`
and `CreateChild` are the steps on the child. `seen` is the projection the manager has
read; a record call fails when the event is illegal there or in the status now
(`FitsChild`), by two conflicts, or by an I/O error before or after the event's line was
written (a "trouble"; `RecordFails`, `FailsAfterStoring`). An event of a child carries whether
its record call succeeded (`known`). `about` and `cause` are the event's
causation, as a position in the main stream.

`Deliver` and `RecordResult` are `deliver_child_result` before and after its reads.
`Run` and `RunEnds` are as much of a child's run as its manager can see, `EndOrReopenMain`
and `Crash` as much of the rest. The check of an input's authority is a free choice
(`Refusable`); the change of the minimum permission that the web source may write between
`TaskCreated` and `TaskQueued` has no effect on the status and is left out.

### `TaskScheduler`

The loop of `agent_runtime.rs` over all tasks. A task has work; a run takes what was loaded
for it. `Woken` and `Notified` start a scan, `Load` and `Try` are the two halves of what the
scan does with a task, `Finish` gives the slot back and leaves the permit of `Notify`. A
full channel loses notifications (`Noted`), and its reader scans all the same.

### `MainSession`

The kinds of the main conversation's events, the server (`boot`, `up`, `failed`), the console
and one source and one run, each with the projection it holds. `ClearAll`, `Delete`, `Create`
and `Queue` are `clear_all_events`; `Check` and `Command` a lifecycle command.
`StreamWith` is a record call with its retry, that is: it succeeds when the event is legal for
the cache and, if the sequence does not match, for the stream. After a deletion a cache may be
as long as the new stream without being its prefix; `overlapped` is history and says that
the last deletion came while the source or the run was at work.

### `ToolAuthorization`

One sequence of events for the main conversation and a child, each with its creator, the
assessment the registrar made, its parent and, for an approval, the request and the grant.
`Register`, `RejectInput` and `ExecuteControl` are the ingress, `ResolveAuthorityChain` and
`EffectivePermission` what the loop asks of a proposal, `AuthorizationSources` whom it can
ask, `MayAnswer` and `MayConfirm` what the adapters check. The minimum permission changes
meanwhile. `Bases` is the definition the chain is held against: the instructions of external
identities, strong enough by the directory, that are ancestors of a proposal or its approval.

### `ContextAssembly`

Events have a size in place of their text. `FromEvents` is the assembler, `Coverage` is
what the checkpoints say, `Plans` the choice of what is compacted, `Compact`
a round of it, which appends its event. A run starts, calls, gets results and
stops anywhere; the next one starts from the stream.

### `ModelStream` and `ModelCalls`

`ModelStream`: the server sends the pieces of an answer in either protocol and may stop, tear
a message or end the body anywhere; messages are decoded, gathered in `acc` and queued as
items; `Drop` is the destructor. `pending` is the continuation of the task.

`ModelCalls`: a turn's calls are executed, refused or wait for approval; the request that
follows pairs results with `pending_tool_calls` by id (`Bound`). Models are switched, the
agent and the proxy are restarted, and the proxy may still be reading the stream of a call
the agent has given up, whose end changes its continuation late. `kept` is history: the last
turn whose calls nothing has taken back since.

### `QqGateway`, `QqMessages`, `QqDelivery`

Three parts of one adapter. The gateway connection with identify, resume, heartbeat and the
close codes that drop a session or stop the adapter; then one task for each dispatch, with the
deduplication cache and its refill after a restart; then what is sent, with the cached token,
retries, and the numbers by which the platform recognises a repeated chunk. Only replies in
private chats and groups have such a number (`Numbered`). The platform is external: it numbers
dispatches, keeps them for a resume, may forget a session, refuses a second reply with the same
number, and shows a repeated request without a number again.

A message that mentions the bot is either "marked" as such by the platform or names it by an id
("plain"), which the adapter recognises only when it has found out its own id in the group; a
message of either form waits for that. The cache drops its oldest key when it is full; `left`
is history, the messages whose keys newer ones have pushed out. A write that fails may have
stored the event.

### `Alerts`

A check probes a service that goes up and down; a sender posts groups of alerts and posts a
group again until it is answered. `Ingest` stores one alert of the request and compares with
the list read at its beginning and with what it has stored; `PutBack` is the state of the
check after a failed write.

### `CommandRunner`

The join of feeding, reading and waiting over two pipes of limited size; `Take` reads to the
limit and closes the pipe after it; `Stop` is the cancellation or the time limit, `Term` and
`Kill` the signals to the group. Programs copy their input, print, flood, hang or leave a
helper that holds the pipes.

### `FileTools`

A small tree with files as sequences of lines, a call of a tool in its steps, and other
processes that change files between them. `Inspect`, `RemoveOld` and `Put` are copy and move,
`Open` and `Fill` write, `Collect`, `Pick` and `SearchFile` the two searches with their
limits. A search passes over files that are too big or are not text, and over one that it
cannot read (`scan.unread`, which is history: the code does not keep it). A directory is removed after what is in it, and its entries are read in any order;
what a search has to find is `Inside` its source, the least set that holds the source and,
of each directory in it, the entries.

## Runs

| Run | What it asks | Bounds and why they are enough |
|---|---|---|
| `turn` | `StreamReplays`, `CacheIsAPrefix`, `OneEventPerCall`, `PauseOutranksOutcome`, `EndedCycleIsSealed`, `Linearizable` | two runtimes with three calls each over the six kinds that meet at a turn's end: a cycle can be created, run, paused or cancelled and reopened, and each call may conflict, retry and conflict again. The proofs remove the bounds. |
| `operations` | `AcceptedMeansDone`, `RejectedMeansNotDone`, `ChildIsAccountedFor`, `OneOutcomePerStart`, `ResultIsDelivered` | one child, three operations by the two managers, two model calls of the child, two troubles (conflict, I/O error before or after the write, crash, end or new cycle of the main conversation), at most four of these together: create, use and delete can overlap, a delivery can be interrupted and the child can be reopened after it |
| `supervisor` | `ToolRunsAgainOnlyUnasked`, `NoToolWithoutApproval`, `ApprovalIsActedOn`, `PausedMeansStopped`, `MainSeesToolResults`, `MainKeepsItsBudget`, `ChildrenAreNotAbandoned` | four instances. *approvals*: a tool that asks, every failure, two submissions, so two sources can answer the same request or an old one, and an input that opens a second cycle. *main*: two inputs, a child's result at any step, a budget of two calls, two turns, a crash. *failures*: one turn, one retry, every verdict and every failure, one pause or cancellation, which reaches every interleaving of a request with a tick and a run, and one end or confirmation that cannot be recorded. *restarts*: a child whose tool needs approval, one approval, one pause or cancellation and a crash between any two events of them. 1.4 million states |
| `stop` | `PauseTakesEffect`, `CancellationTakesEffect`, `QueuedTasksAreStarted` | two instances, under fairness. *child*: two control events of any kind, an input and every failure. *restarted*: a main conversation with one control event, an input, every failure and a crash. In both the supervisor's own records succeed (`MaxUnrecorded` is 0): a confirmation that is lost is not tried again, so that nothing follows it (see Observations) |
| `components` | file: `LoadIsComplete`, `HeardInOrder`, `HeardIsDurable`, `OnlyFailuresDamage` | two callers, four appends, one I/O error, one crash: each of the two before, inside and after another append, and one after the other |
| | authority: `ToolsAreOrdered`, `RequestsCanBeAnswered` | seven inputs of users of the web, of QQ and of a monitor. One of them with two proposals and nine events: an approval, a result and a second proposal after it fit; and two of them with six events: two people talk, or the minimum is raised, an input is refused and a tool is proposed all the same |
| | context: `ContextIsTheStreams` | a window of ten with two for the prompt: two compactions, the second over the first; seven events, one restart |
| | model: `StreamsEndWhole`, `ResultsMeetTheirCalls` | two calls of one piece and a text in both protocols; two models, answers of up to two calls, three requests, one failure, one restart |
| | QQ: `MessagesArriveOnce`, `DeliveriesReadWell` | *mentions*: a message and a command with two forms to a bot that wants mentions, with room for every key; *messages*: two direct messages and a command to a bot that takes all, with room for two keys, so that keys are pushed out before and by a restart; each with four dispatches, a failure and a restart. *group*: a reply of two chunks and a notice to the same message; *channel*: a reply of two chunks without numbers and a notice; each with two faults, one retry, a restart |
| | files: `FilesAreKeptAndFound` | four names, of which one is in a directory and one may be a link; one call and one change by others at any step of it; limits of four scanned paths, two results, two lines, each of which is reached; one line that is not UTF-8, in a file from the start or written by others |
| | console: `CreatedIsServed` | five events, one deletion, one crash: a crash between the appends of a creation and a source that writes between them |
| `progress` | `DispatchesAreTaken` | two sessions of two dispatches, two connections that end |
| | `WorkIsTaken` | two tasks, one slot, one notification that fits, two pieces of work each: all that a slot refused, a notification lost and a run ending can do to each other |
| | `AlertsAreRecordedOnce`, `OutageIsReported` | thresholds of two, groups of up to two, two posts, two changes of the service, one failed write, one restart |
| | `CallEnds`, `CallIsCleanAndWhole` | pipes of one byte, limits of three, five programs |

The violation runs are `torn`, `inputs`, `waiting`, `refused_input`, `dirty_stream` and
`lost_recovery`, each with the smallest instance that shows it.

`components`, `progress`, `supervisor` and `stop` check several instances in one run: the variable
`part` is chosen at the start and says whose behaviour it is. The parts do not interact, so a
state of the run is a state of one of them, and every property says whose it is.

Passing runs exhaust their state graph. Streams of a task are finite because inputs,
controls, submissions, results, operations and crashes are bounded; `MaxCalls` bounds the model calls
and is reached only by the *main* part, where a run is continued for every pending result.

Deadlock is checked in `turn`, where a restart is always possible. In the other runs a
component whose environment has used its bounds rests: the sources ask for nothing more, the
call is done, the answer is complete.

### Fairness

* `AgentSupervisor!Fairness`: weak fairness of the supervisor's tick, of the run and of a
  registration that has begun; in `TaskManager` of the delivery to each child's start and of
  the end of a run that can no longer record. The supervisor ticks after every event and at
  the end of every run, and a tick looks at every task. Tokio keeps polling spawned tasks; a
  model call or a tool returns, or its token is noticed (`loop.rs` selects on the token).
* `TaskScheduler`: weak fairness of the loop's steps and of each run.
* `QqGateway`: weak fairness of connecting, of the heartbeat's timer and of reading, and of
  what the platform owes (Hello, the answer to a heartbeat); strong fairness of reading a
  dispatch, because a heartbeat is due after many seconds and cannot come first for ever.
* `Alerts`: weak fairness of storing and of the answer; strong fairness of the monitor's
  cycle, which shares the write lock with the sender: Tokio's mutex is first in, first out.
* `CommandRunner`: weak fairness of the joined futures, of the program and of the signals.
  The time limit is counted on only for programs that do not end by themselves or that leave a
  helper; for the others the join alone must end.

Inputs, controls, submissions, failures, crashes, changes of a service and broken connections
are never owed. In `MCProgress` and `MCSupervisor` the fairness of a component is owed while `part` names it.

### Disagreements between the code and what the repository says of it

Each is a run that expects a violation, listed with its quotation under "findings".

* `torn`: when the end of a line is lost (I/O error or crash between the two writes of
  `writeln!`), the reader still accepts the last line, so the next append passes its
  check, is written on the same line and returns `Ok`; from then on the task cannot be
  read (`ports/event_store.rs:27-31`).
* `inputs`: the main conversation takes up inputs by the sequence of the last answer, so
  an input that arrives between `CallStarted` and `Completed` is never shown to the model
  unless something else starts another call (`agent_runtime.rs:577-578`). Tool results
  were cured of this (`PendingToolResults` looks at what calls were given), inputs were
  not.
* `waiting`: a crash between `RequireApproval` and `ApprovalRequested` of a second tool
  leaves the first, answered, request as the latest one; it is used again and the first
  tool runs a second time (`loop.rs:1890-1893`).
* `refused_input`: an input below the minimum permission and its rejection are two appends.
  A run that is started between them takes the input up (`ingress.rs:195-197`).
* `dirty_stream`: the console deletes the main stream after it saw no active run. A run that
  starts in between goes on with its projection of the deleted stream; when the new stream has
  the same length its event passes the sequence check unvalidated and the main conversation
  cannot be recovered, so that the server does not start (`runtime.rs:131-132`).
* `lost_recovery`: a monitor's states are in memory. After a restart during an outage the
  service counts as healthy from the first probe and `resolved` is never recorded
  (`README.md:207`).

### Observations

Behaviours met while modelling that no document contradicts, that contradict one in a way no
passing property needs to exclude, or that no model covers:

* A run whose token was cancelled in the previous cycle writes `TaskCancelled` into the next
  one (`agent_runtime.rs:847-848` says that requests of an old cycle cannot affect a new one);
  and a `TaskQueued` before the tick hides the request, so that the old run goes on.
* `BudgetExceeded` and `TaskFailed` are not legal in `Queued`. A task that used its budget up
  and gets a new input is started, refused and started again without end (README.md:72-74,
  token budget).
* A child that was running when the process died is not resumed.
* A source that denies on the last turn leaves `WaitingApproval`, from which `TaskFailed`
  is illegal, so the task waits with nothing to answer.
* When one call of an answer needs approval, the calls after it are dropped without an event.
* `request_delete_child` checks the status and removes the file without excluding the
  runtimes that hold the task. One that appends later finds an empty stream: it either
  conflicts, or, after its refresh, recreates the deleted task with an event that is legal
  in a new one (an input on its way, the first call of a run that had just started). If
  the new stream reaches the length the old one had, the sequence check cannot tell the
  two apart. `TaskManager` has these behaviours; the properties of `operations` are those
  that hold in spite of them.
* An operation can be left without an answer: when the child ends between its recovery
  and the `TaskNamed` or the input, the error is returned without a
  `TaskOperationRejected` (`task_manager.rs:400-407`, `:323-350`), although
  `loop.rs:1341-1342` says that every operation leaves an answer.
* A record call may return an I/O error after the event's line was written. For a control of a
  child `request_control_child` takes every error for a refusal (`task_manager.rs:505-516`), so
  that a pause or cancellation that is in the child's stream, and works there, is called
  rejected in the audit. `RejectedMeansNotDone` is therefore about effects whose record call
  succeeded.
* `fail_task_if_needed`, `finish_pausing` and `finish_cancelling` only log an error of their
  record call (`agent_runtime.rs:495-516`). The task stays `Running`, `Pausing` or `Cancelling`
  with no run; a stop is confirmed only when another event of the task brings a tick, and a
  `Running` child is not tried again. This and a crash
  are the exceptions of `ChildrenAreNotAbandoned`, which says that there are no others.
* An acceptance that cannot be written after two conflicts is reported to the model as a
  failed tool although the effect is in the child's stream. What `AcceptedMeansDone` and
  `RejectedMeansNotDone` say is about the audit, which stays without an answer.
* A cancellation of a child between its `TaskCreated` and its `TaskQueued` is followed by
  that `TaskQueued`, which opens a cycle again.
* A child that ends by `BudgetExceeded` has no result to deliver
  (`child_outcome_summary` knows four kinds of end), and the results of a second cycle
  are never delivered, because the first delivery names the same start.
* A crash between `TaskCreated` and `TaskQueued` of the main conversation leaves it
  `Created`: the next start finds a stream that is neither empty nor ended.
* A QQ message whose write failed is not taken up from a later copy, because its key is in
  the cache; a command is forgotten by a restart and a copy of it runs again, and any message
  is taken again after 2048 newer keys.
* A command in a private chat is told to the model. With `mention_only` off so is one of a
  group when the bot's own id cannot be found out, although the same text is executed when
  it can.
* Replies in a channel or a direct message and texts that answer no message carry no `msg_seq`
  (`qq_source.rs:487-493`): when the answer to a request is lost, its retry shows the
  chunk a second time. `DeliveriesReadWell` allows this, once for each try, and nothing more.
* The numbers of QQ replies start again after a restart, so the platform refuses the first
  replies to a message that was answered before it. Nothing ends the wait for the gateway's
  Hello. `/confirm all` stops at the first submission that fails, after earlier ones took
  effect.
* `fs.copy` of a file onto itself with overwrite removes it. `fs.search` passes over files
  that are too big, not text or not readable without saying so (`filesystem.rs:424`);
  `FilesAreKeptAndFound` is about the others.
* Processes of a command run through `sudo` are not reached by the signals of a time limit.
* A registration whose file cannot be written leaves a user who exists until the restart;
  `fs::write` truncates first, so a crash inside it leaves a file the server does not start
  with.

## Proofs

Eight modules `…Proofs` hold the theorems of fourteen components (`AgentLoop` counted with
`AgentSupervisor`). A module EXTENDS the first component it is about and takes the others as
instances: `Main`, `Stream`, `Assembly`,
`Delivery`, `Inbox` and `Files`. For each component there is an inductive invariant, a
conjunction of named parts; the module proves that the initial state has it and that every
step keeps it, and cites the properties from it. Each of these invariants, and what the
theorems without a property of a run state, was checked by TLC before it was proved. The
theorems hold for every value of the constants that the assumptions below allow: any number of children, callers, models,
users, inputs, messages, failures and crashes.

| Module | Component | What is proved | Inductive invariant |
|---|---|---|---|
| `EventLogProofs` | `EventLog` | `TypeCorrectness`, `StreamsReplay`, `CachesArePrefixes`, `CallsStoreOnce`; the action properties `PauseIsKept`, `EndedCyclesStaySealed`; `RecordIsLinearizable`, the refinement of `TaskStream` | `IInv`: `TypeOK`, `StreamReplays`, `CacheIsAPrefix`, `PendingApplies` |
| | `MainSession` | `CreatedStaysServed` | `MainIInv`: `WritersKnow`, and the stream has a status or is unreadable, and is served while the last creation counts as done |
| `JsonlStoreProofs` | `JsonlStore` | `TypeCorrectness`, `LoadsAreComplete`, `EventsAreSentInOrder`, `HeardSurvives`, `AppendsDoNoDamage` | `IInv`: `Shapes`, `Bounded`, `OneAppend`, `LineInPlace`, `AckedAreKept`, `HeardAreAcked`, `ReadsInOrder`, `NextIsAppended`, `CleanLines`, `HeardInOrder` |
| `AgentSupervisorProofs` | `AgentSupervisor` with `AgentLoop` | `TypeCorrectness`, `PausedTasksAreStopped`, `ToolsAreApproved`, `ToolsRunOnce`, `ApprovalsAreActedOn`, `ChildrenMoveOn`, `ResultsReachTheModel`, `BudgetIsKept`, `StreamsStayReadable`; `StreamIsAsPromised`, the steps of `TaskStream` | `IInv`: `Shapes`, `TypeOK`, `RetriesAreLeft`, `Chained`, `WaitingWasAsked`, `PausingWasRequested`, `PausedWasSeen`, `PausedMeansStopped`, `LevelTriggered`, `RunningIsWorkedOn`, `OwnEventsAreSeen`, `BudgetIsChecked`, `BudgetIsForTheTask`, `ToolEventsInOrder`, `ToolInHand`, `NoToolWithoutApproval`, `ToolRunsAgainOnlyUnasked` |
| `TaskManagerProofs` | `TaskManager` | `TypeCorrectness`, `AcceptedIsDone`, `RejectedIsNotDone`, `ChildrenAreAccountedFor`, `OutcomesAreUnique` | `IInv`: `Shapes`, `RefersBack`, `AnswersAreToRequests`, `OutcomesAreOfStarts`, `CreationsWereAccepted`, `InHand`, `DeliveryInHand` and the four properties |
| `ToolAuthorizationProofs` | `ToolAuthorization` | `ToolsHaveABasis`, `GrantsStayWithTheirOperation`, and both as `ToolsStayOrdered` | `IInv`: `Shapes`, `EventsArePlaced`, `StartsHaveBases`, `RunsHoldTheirTools`, `AskedForMore` |
| `ModelProofs` | `ModelCalls` | `BoundResultsStayCurrent`, `ResultsStayBound`, and both as `ResultsAndCallsMeet` | `IInv`: `Shapes`, `RunsAreInOrder`, `HeldAreRecorded`, `OldAreLost`, `ProviderIsCurrent`, `KeptIsThere` and the two properties |
| | `ModelStream` | `OutcomesDecide`, `CallsStayWhole`, `TextIsShown`, and all as `AnswersEndWhole` | `StreamIInv`: `Types`, `Follows`, `Pieces`, `TurnFits`, `OutcomeDecidesContinuation` |
| | `ContextAssembly` | `RunsWorkOnTheStream`; the action property `OneRoundSuffices` | `ContextIInv`: `ContextTypes`, `Checkpoints`, `WorksOn` |
| `SourceProofs` | `Alerts` | `ChangesAreRecordedOnce`; `AnswersMeanRecorded`, an action property | `IInv`: `TypeOK`, `ComparedWithTheLog`, `HandledIsRecorded`, `EachChangeOnce` |
| | `QqDelivery` | `DeliveriesAreTyped`, `RepliesAreReadWell`, `RefusalsAreRight`; `GoodTokensAreKept`, an action property | `DeliveryIInv`: `Types`, `Bounds`, `Refusals`, `TokensAreOld`, `NumbersAreApart`, `InOrder`, `Progress`, `RefusedAsShown` |
| | `QqMessages` | `InboxIsTyped`, `RefusedCopiesStay`, `MessagesAreStoredOnce`, `CommandsStayCommands`, and the four as `MessagesStayOnce` | `KeptIInv`: `InboxTypes`, `SeenAreKept`; `OnceIInv`: with it `WritesAreHeld`, `RecordsAreHeld`, `HandlersAreAddressed`, `InputsAreUnaddressed`, `StoredOnce` |
| `ToolProofs` | `CommandRunner` | `CallsAreCleanAndWhole` | `IInv`: `TypeOK`, `PhasesAreInOrder`, `OutputIsConserved`, `ReaderSeesTheEnd`, `LeaderTakesItsInput`, `WaitedForTheEnd`, `AnswersAreFinal`, `NothingIsLeftRunning` |
| | `FileTools` | `TransfersLoseNothing`, `ResultsAreComplete`, and both as `FilesStaySafe` | `FilesIInv`: `Shapes`, `PhasesBelong`, `TreeIsRooted`, `CallHasItsPlace`, `TransferInHand`, `ScanIsOnItsWay`, `OthersTouchFiles` and the two properties |

### The arguments

* **EventLog.** `StreamReplays` alone is not inductive: an append is safe only because the
  event was validated in the status the stream has *now*. That follows from `CacheIsAPrefix`
  (the cache is the replay of a prefix), the store's check (the prefix is the whole stream) and
  `PendingApplies` (what a writer is about to append applies to its cache). `ProjectApplies`
  and `AcceptedAppend` carry that argument. The two status properties follow because every
  step of the stream is legal (`StreamStepIsLegal`) and the transition relation says the rest.
  `CallsStoreOnce` needs `CallsNameEvents` beside it: a call that may still store its event
  has not stored it yet. It says at most once; a call that returned an error may have stored it.
* **MainSession.** A conversation that was queued is one the scheduler serves, and no event
  leads from there to one it does not serve; the report that a creation is done stands only from
  there on, and a deletion takes it back before it removes the stream. That the stream can also
  be read rests on `WritersKnow`: a cache that was read from this stream has at most as many
  events and with as many shows the same status, so that what it lets through, at once or after
  the refresh, is legal. A cache of the stream before it is held only by a writer that was at
  work during the deletion; that exception is in the property, and `dirty_stream` shows that it
  is needed.
* **JsonlStore.** `OneAppend` (whoever is past the check holds the lock) and `LineInPlace` say
  what stands at the end of the file in the middle of an append; a line that was acknowledged
  lies whole before `synced` (`AckedAreKept`), so neither a failure nor a crash takes it away.
  `ReadTaskFile` reads piece by piece; that a reading which succeeds contains every whole line
  and has its events in order is shown along its recursive function.
* **AgentSupervisor.** Its actions are sorted into a few kinds of steps (`StepIsOneOf`: the
  stream grows by one legal event, the run, the tick or the source moves, or the process
  restarts), and each
  conjunct has a lemma that every kind keeps it. `ChildrenMoveOn` follows from `RunningIsWorkedOn`
  and parts of `LevelTriggered`, which hold for as long as no end or confirmation was lost
  (`used.unrecorded = 0`); nothing else depends on that. Three conjuncts are what the code relies on
  without saying so. `LevelTriggered`: without a notification the tick has read, or is
  reading, the whole stream and has nothing left to do; this makes `tick` safe against stale
  reads. `OwnEventsAreSeen`: what only the loop writes its run has seen, so it counts every
  call against the budget. `ToolInHand`: what a run holds of a tool, wherever it came from, has
  not been asked for or started yet. `StreamIsAsPromised` joins the two halves of the project:
  `AgentSupervisor` takes a record call as one step, and each of its steps extends the stream
  as `TaskStream` does, which is what `RecordIsLinearizable` shows the calls of `EventLog` to
  do. It is the step only: the stream of `AgentSupervisor` begins with the two events of
  a created task.
* **TaskManager.** `InHand` says of every manager what stands at the positions of the events
  it has recorded for its operation, and that nothing has answered them; `DeliveryInHand`
  the same of the supervisor's delivery. A manager that goes on to reject has no effect of
  its request in the child's stream whose record it knows to have succeeded. Crashes drop managers, so nothing is left to keep.
* **ToolAuthorization.** Every event is recorded after the one it acts for (`EventsArePlaced`),
  so the way `resolve_authority_chain` goes up is finite and ends at an ancestor of the
  proposal; what the model, a tool or the core wrote is worth nothing there; what is worth
  something is worth no more than the directory and the source's maximum allow. A step that
  appends keeps the bases of earlier tools (`SamePath`, `BasisStays`).
* **ModelCalls.** What the agent holds is of turns it has recorded (`HeldAreRecorded`); what a
  provider keeps for the model of a run is of the last one or of a turn nobody recorded
  (`ProviderIsCurrent`, `OldAreLost`). That includes the stream the proxy still reads for
  an agent that gave up.
* **ModelStream.** The buffer is what the server sent between what the adapter has seen and
  what there is now (`Follows`: each message belongs to one step of the server on that path),
  so the pieces gathered are those of the answer up to there, and the outcome that decides
  what is kept for the next request is handled only when all of them are.
* **ContextAssembly.** A checkpoint names whatever the checkpoints before it name, and its
  summary is made from all of that (`Checkpoints`), so the latest one says what is covered.
  In a run that summary comes before everything else that may be compacted
  (`SummaryIsFirst`), so that a round takes it up, and what the round leaves with the
  new summary is again what the grown stream shows (`WorksOn`). That the plan fits is
  by its choice; that the context made from it does is an argument about sums of items.
* **CommandRunner.** The reader stops only at the limit or when nobody is left who could write
  (`ReaderSeesTheEnd`); a leader that ended before the limit had all its input; what was taken
  and what is in the pipe is what was written.
* **Alerts.** While a request is looked at nobody else writes alerts, so what is compared with
  is the log (`ComparedWithTheLog`); what of a posted group is through has its last state in
  the log (`HandledIsRecorded`).

* **QqDelivery.** Two requests to one message never carry the same number at the same time, and
  a number that was given out is not given out again in the life of the process
  (`NumbersAreApart`), so a refusal as repeated can only mean that this chunk was shown; the
  chunks shown of a reply are those up to the one on its way (`InOrder`, `Progress`). A chunk
  with a number is shown only when that number is new to the platform; one without is shown
  at most as often as it was tried.
* **QqMessages.** A key in the cache is of a message that is recorded or being written, as long
  as no write failed (`SeenAreKept`). What was recorded, but for the commands of an earlier life,
  and what is being written has its key in the cache or among those that were pushed out
  (`RecordsAreHeld`, `WritesAreHeld`), so a copy finds it until then. The refill after a restart
  is followed event by event: each key in the cache has an occurrence in the stream before those
  of all that come after it, so the one that leaves a full cache has as many other inputs
  after it as the cache has room for.
* **FileTools.** What exists lies in a directory. A transfer that has looked at its source holds
  what is still there, unless others touched it (`TransferInHand`). A scan has seen, of each
  directory it has handled, every entry that nobody touched, so that with nothing pending what
  it has seen is closed; `Inside` is the least closed set (`ScanIsOnItsWay`). Of a file it
  has matched every line, unless it passed the file over.

Recursive functions (the reading of a file, the way up of a chain, the sum of a context, what
checkpoints cover) are unfolded
in the proofs by an argument over the smallest argument at which the unfolding could fail,
from `WellFoundedInduction`: the theorems for induction take an operator, which no installed
prover instantiates. No proof module reaches a `RECURSIVE` operator.

### Assumptions

On constants, each named where the constants are declared and evaluated by TLC in every run of
an instance:

| Module | Assumption | Why the code has it |
|---|---|---|
| `EventLog` | `IsMainIsBoolean`, `KindsAreEvents`, `MaxCallsIsNat` | types |
| `JsonlStore` | `BoundsAreNat`, `NobodyIsNoCaller` | bounds; the mark of a free lock |
| `AgentLoop`, `AgentSupervisor` | `RunBounds`, `VerdictsAreDecisions`, `SwitchesAreBoolean`, `ControlsAreRequests`, `BoundsAreNat` | types and bounds; what a permission check can answer; the requests of `Controls` are those of the control commands |
| `TaskManager` | `ChildrenAssumption`, `OperationsAssumption`, `ControlsAssumption` | a child is not the main conversation; types |
| `CommandRunner` | `ProgramsAreKnown`, `LimitsAreNat` | types |

Components that are instantiated, several times or beside others, state theirs as a definition,
which is a hypothesis of their theorems:

| Component | Hypothesis | What it says, and why the code has it |
|---|---|---|
| `ToolAuthorization` | `ConstantsFit` | levels are levels; no source is called model, tool or system; only the tools of the task manager require no permission (`task_tools.rs`); no adapter submits a system event (`injection.rs:216-227`) |
| `ModelCalls` | `ModelsAreNamed` | the mark of no model is the name of none |
| `ContextAssembly` | `ConstantsFit` | sizes, the window and what is reserved of it are natural numbers |
| `QqDelivery` | `ConstantsFit` | the same of chunks and retries; what has a number is a delivery |
| `QqMessages` | `DedupSize \in Nat` | type of a constant of the code |
| `FileTools` | `ConstantsFit` | a finite set of names, what exists at first lies in directories, texts are sequences of lines, limits are natural numbers |

TLC evaluates them as the assumptions `AuthorizationIsConfigured`, `ContextFits`,
`ModelsAreNamedApart`, `DeliveriesFit` and `FilesFit` of `MCComponents`. The
theorems of `Alerts`, `ModelStream` and `MainSession` assume nothing.

### Model-checked only

* Liveness and whatever rests on fairness, which the prover cannot treat: `ResultIsDelivered`,
  `PauseTakesEffect`, `CancellationTakesEffect`, `QueuedTasksAreStarted`, `DispatchesAreTaken`,
  `WorkIsTaken`, `OutageIsReported`, `CallEnds`.
* `RequestsCanBeAnswered`: it depends on the directory; where every user of it is below `Operator`,
  nobody can confirm what one of them asked for.

Every other invariant and every other property of steps of a passing run is proved. Some
properties of the runs carry the name of the part they are about; what is proved is their
general form:

| Property of a run | Theorems |
|---|---|
| `MainSeesToolResults` | `ResultsReachTheModel`, `TypeCorrectness` |
| `MainKeepsItsBudget` | `BudgetIsKept` |
| `ChildrenAreNotAbandoned` | `ChildrenMoveOn` |
| `ToolsAreOrdered` | `ToolsStayOrdered` |
| `ContextIsTheStreams` | `RunsWorkOnTheStream`, `OneRoundSuffices` |
| `StreamsEndWhole` | `AnswersEndWhole` |
| `ResultsMeetTheirCalls` | `ResultsAndCallsMeet` |
| `MessagesArriveOnce` | `MessagesStayOnce` |
| `DeliveriesReadWell` | `DeliveriesAreTyped`, `RepliesAreReadWell`, `RefusalsAreRight`, `GoodTokensAreKept` |
| `FilesAreKeptAndFound` | `FilesStaySafe` |
| `CreatedIsServed` | `CreatedStaysServed` |
| `AlertsAreRecordedOnce` | `ChangesAreRecordedOnce`, `AnswersMeanRecorded` |

## Plan

All modules of the plan are written, and every safety property a passing run checks is proved
but `RequestsCanBeAnswered`, under the assumptions above. What is left, in this order:

1. That the children's streams of `TaskManager` grow as `TaskStream` does until they are
   deleted, and the slots of `TaskScheduler` beside the runs of `AgentSupervisor`.
2. `AgentLoop` with several calls per answer.

## Not modelled

* Web identity: one map behind one lock and one call of `fs::write`; see Observations.
* HTTP API and server-sent events: routes, serialisation and a broadcast channel whose slow
  readers miss events, which no decision of the program reads.
* Memory: types and a port that nothing in the server calls.
* Billing, logging and tracing, the web frontend, prompts' wording: computations for display,
  and output.
* Validation of configurations, HTTP requests to model providers, the text of requests.
* What a tool's command does to the host, and how the arguments of each tool become a command
  line: the tools differ in it, their run is `CommandRunner`.
