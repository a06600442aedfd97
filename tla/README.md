# A formal model of etask

etask schedules tasks: scheduler nodes share a MySQL database, find the tasks
that are due, create an execution for each and hand it to an executor, by gRPC,
HTTP or Kafka (PUSH) or by letting an agent fetch it (PULL). Executors report;
a consumer of completion events closes the execution and frees the task;
compensating loops deal with what went wrong in between. This directory holds
TLA+ specifications of that core, the TLC runs that check them and TLAPS proofs
about them.

Paths below are relative to `src/`. `PROJECT.json` maps every definition to the
lines it stands for, lists the runs, a faulty variant of the code for each
property (the operators whose comment says "Faulty variant"; no specification
uses them), the hazards and the theorems.

## 1. The system

| Component | State | Operations | Modelled |
|---|---|---|---|
| Execution lifecycle: `internal/service/task/execution_service.go`, `internal/repository/dao/task_execution.go`, `internal/compensator/{retry,reschedule,interrupt}.go` | a row of `task_executions`: status, retry count, deadline | create, report (`UpdateState`), requeue, claim for dispatch, pull claim, time out | `ExecutionLifecycle` |
| Scheduling: `internal/service/scheduler`, `service/dispatcher`, `service/acquirer`, `service/task/service.go`, `internal/repository/dao/task.go` | a row of `tasks`: status, `schedule_node_id`, version, utime, next_time | list, acquire, renew, release, dispatch, advance next_time, stop, start, retry, edit | `Scheduling` |
| Completion consumer: `internal/event/complete/consumer.go` | none of its own | settle the execution, then advance and release the task | in both modules above |
| Submission: `internal/service/submission/service.go` | `task_executions`, unique on the request id | `RunRunner` | `Cancellation` |
| Cancellation: `internal/repository/dao/execution_cancellation.go`, `internal/service/termination`, `internal/compensator/termination.go` | a row of `execution_cancellations` | `Request`, `Attach`, `ListPending`, `MarkSent`, `MarkFailed` | `Cancellation` |
| Executor SDK: `sdk/executor` | the store of running executions | start, interrupt, terminate, report, drain | `ExecutorNode` |
| Agent: `internal/agent`, `internal/service/invoker/mq.go` | tables of dispatches, active handlers and terminations | receive, terminate, look up, finish, publish | `AgentNode` |
| Agent pull service: `internal/grpc/agent.go` | none of its own | claim an execution | the claim, in `ExecutionLifecycle` and `Cancellation` |
| Agent events: `internal/event/execution`, `internal/agent/event` | the logger's buffer, the topic, tables of processed events | log, flush, report, consume once | `ResultEvents` |
| Queue adapter: `pkg/mpx` | the connection | consume, reconnect, close | as `ResultEvents` and `AgentNode` use it |
| Pool syncer: `internal/service/pool/syncer` | `execution_pools`, instances in etcd | align, look twice, disable, watch | `PoolSync` |
| Pool bindings, registry, balancer: `pkg/grpc/registry`, `pkg/grpc/balancer` | bindings, leases, connections | bind, pick a node | no |
| Artifact cache: `internal/execution/artifact` | layers on disk | download, commit, prune | `ArtifactCache` |
| Retry strategy: `pkg/retry/strategy` | none | next interval | `MayRetry` in `ExecutionRow` |
| Calendar: `internal/domain/calendar` | holidays | next occurrence | planned |
| Codebook: `internal/service/codebook`, `internal/repository/dao/codebook*.go` | a project's tree, versions, source revision | create, update, move, rename, delete, import, change sets | `Codebook` |
| Snapshots and releases: `internal/repository/artifact*.go`, `internal/service/artifact` | releases, sources of executions | snapshot, pack, record | `Codebook` |
| Code assistant: `internal/service/codeassist` | conversations, change sets | prepare a change set | the preparation, in `Codebook` |
| Projects, manual parameters: `internal/repository/dao/{project_*,task_param_override}.go` | projects, overrides | archive, delete; consume | no |
| Runners, variables, programs, notifications, SSE, script handlers, security, wiring | | | no, see section 8 |

How they interact. The tables are the only state the scheduling core shares: no
component calls another while holding anything but a row lock. A scheduler node lists
tasks, locks one with an optimistic write, inserts an execution and calls the
executor in a goroutine. Reports come back by gRPC or Kafka into `UpdateState`,
which writes what is not final itself, and for what is final sends a completion
event to a topic. The consumer of that topic, in any node, makes the execution
final and then moves the task on. A cancellation makes the execution final and
frees the task in one transaction, and leaves a row from which a compensator
later sends the signal to the executor. Every node runs every compensator.

Around this core: an agent takes commands from a topic, looks up whether the
execution is still wanted, materializes its code from the artifact cache (one
directory shared by the processes of a machine) and sends log lines and the
final state through another topic. What it materializes was packed from a
project of the codebook. Which pools a task can be sent to is kept in step with
etcd by the pool syncer.

What is hard about it:

* Every decision is taken on a row that was read earlier. Conditional writes
  (`WHERE status IN ...`, `WHERE version = ...`) are the only protection, and
  several writes lack the condition.
* Two roads end an execution (completion event, cancellation), and each must
  free the task. Events are repeated, reordered and, when a handler fails,
  lost.
* A node may die, or lose the database, between any two statements: between
  lock and insert, claim and call, settle and release.
* Leases and deadlines race with late answers.
* Users stop, restart and edit a task while all this is under way, and cancel
  executions that do not exist yet.
* Kafka repeats what it delivers, and an answer that is lost makes the sender
  repeat something else than it sent. Tables against repetition live in memory.
* Alignments with etcd, snapshots of a project and plans of an edit are each
  several statements, and others write in between.
* Processes that share a disk directory have only `rename` to agree with.

## 2. Modules

| Module | What it is |
|---|---|
| `ExecutionRow` | the states of an execution and the DAO's conditional UPDATEs, as functions of the status |
| `ExecutionOutcome` | the abstract promise: an execution is decided once, and its task given back once: with the decision, or later by whoever decided, or dropped by him |
| `ExecutionLifecycle` | one execution with concurrent reports, consumer, compensators, cancellation; implements `ExecutionOutcome` |
| `Scheduling` | one task, the nodes' loops, lock, lease, consumer and users |
| `Cancellation` | one request id: submissions, cancellations, executor and delivery of the signal |
| `HandlerSlot` | the abstract promise of a process that executes: one handler at a time, a termination is a barrier, a verdict is final |
| `ExecutorNode` | one process of the executor SDK and one execution: store, handlers, termination, shutdown; implements `HandlerSlot` |
| `AgentNode` | one process of the Kafka agent and one execution: workers, tables, control messages; implements `HandlerSlot` |
| `ResultEvents` | log lines and the final report from the agent's buffer into the database |
| `PoolRows` | the registry, the rows of the pools, and when they agree |
| `PoolSync` | one source of the registry and how its pools get into their rows |
| `ArtifactCache` | one layer on a disk that several processes share |
| `Codebook` | one project: tree, versions, change sets, snapshot and archive |
| `MCExecutionLifecycle`, `MCScheduling`, `MCCodebook` | the symmetry sets for TLC |
| `ExecutionLifecycleProofs`, `SchedulingProofs`, `CancellationProofs`, `ExecutorProofs`, `AgentNodeProofs`, `ResultEventsProofs`, `ArtifactCacheProofs`, `CodebookProofs` | theorems |

One SQL statement or transaction is one step; what a caller remembers between
two of them is a variable. Details a property cannot tell apart (times,
progress, names, routes, texts) are left out.

### ExecutionLifecycle

`status`, `retryCount` are the row; `source` and `mode` are fixed when it is
created. `calls[w]` is a call of `UpdateState` between its read and its write,
with the report and what it read. `Receive` is the read (a final row ends the
call at once); `ReportRunning`, `RecordRetry`, `ExhaustRetries`,
`RecordReschedule`, `SendCompletedEvent` and `FinishPreview` are the branches of
`UpdateState`, `updateWorkflowState` and the preview's; `Drop` is an error or
a crash. `scans[c]` is what a compensator holds: `Find` the query, then
`Requeue`, `ClaimForDispatch` followed by `Invoke`, or `Interrupt`.
`dispatched` says whether an executor was ever given the execution.

`topic` is the set of completion events; it never shrinks, which covers
duplicates and any order, and nobody is obliged to `Settle`, which covers loss.
The handler of an event is in two parts, as in the code: `Settle` makes the
execution final, and only for a task's execution and only if it did so, leaves
`handback` due. After that come the notifications, `UpdateNextTime` and
`Release`; they get to the task (`GiveBack`) or fail or die before
(`GiveUp`), and then nobody does it in their place. A cancellation releases the
task in its own transaction. What the two parts do to the task's row is in
`Scheduling`.

The executor is the environment: once something was dispatched any state may be
reported at any time. Nothing limits how often it asks for a reschedule.

Two counters are ghosts: `releases`, and `unanswered`, the dispatches less the
failures that were recorded. Failures beyond `Surplus` are not subtracted, which
keeps the states finite and can only make the bound on it harder to keep.

### Scheduling

`status`, `owner`, `due`, `expired` and `fresh` are the task's row: `due` says
whether next_time has come, `expired` whether utime is older than the lease. A
version is only ever compared for equality with an earlier reading, so it is
represented by `fresh`, the readers that have read the row since its last
write; every write empties it (`Touched`). `pc[n]` is where a node is between
`FindScheduleTasks` and the end of `Run`, `snapshot[n]` the node id in the
snapshot it will store with the execution. `Renew` may come at any time; it
raises the version, and so uses up tries of an `UpdateNextTime` under way.
`exec`, `lock` are the executions and the node id each carries; `done[e]`, `tries[e]` the consumer's handler for its
completion event. `stopper`, `targets` are the handler of Stop, `editor` an
`Update` between its read and its write, with what became of the next_time it
read.

The constant `Disturbances` says what may happen besides normal work: `crash`
(a node dies, and any of the handlers of completion events with it), `stall` (a
process sleeps longer than its lease), `outage` (a statement of the dispatch
fails), `release` (the dispatch's attempt to give the lock back fails),
`consumer` (the handler of the completion event fails half way), `cancel`,
`stop`, `start`, `edit`. A ghost, `forsaken`, says that whoever was to give the
present lock back failed to.

### Cancellation

`exec` is the execution under the request id, reduced to none, open, cancelled,
ended. A submission goes idle, create (it found nothing), created or found,
then through `Attach` to invoke or done. `RequestEarly` and `KeepWaiting` are
two steps of a transaction that holds the lock of the cancellation's row
(`lockedBy`); every other transaction locks that row first, so it is one step.
`List`, `Deliver`, `DeliverFails` and `DelivererDies` are the compensator. The
executor is `LookUp` (the SDK's question whether the execution is still
wanted), `Begin` and `Finish`.

### ExecutorNode

What `Cancellation` reduces to three actions, in detail, for one process.
`entry` is the execution's entry in `Store`: its status, whether completedAt is
set, and whose cancel function it holds. `call[c]` follows a call of `Execute`
through `LookUp` and `Begin` and then the goroutine it started: the handler,
`Finish`, `Report`. The store's methods are atomic (its mutex), but what they
hand out is not: `held` are cancel functions taken from the store and not yet
called, and a handler's `outcome` is decided from the `cause` of its context
before `Finish` enters it. `phase` is the process: `StopAccepting`, `CancelAll`,
then `Close` after the handlers, or `Abort` without them. `wanted` is what the
scheduler would answer. `terminated` is a ghost: a termination was accepted and
is still in the store; `CleanUp`, the thirty minutes' retention, ends that.

`HandlerSlot` says the same of any process, in three variables: who is `working`,
whether a termination is remembered (`barred`), and which `verdict` is entered.
`ExecutorNode` implements it with the calls at work and the entry's status.

### AgentNode

The agent's counterpart of `ExecutorNode`. `entry` is `executions[dispatchID]`
with its owner, the `terminated` flag and the outcome; `Active` says that
`active[executionID]` names it; `tomb` is `terminated[executionID]`. `Begin` is
one of `JoinEntry` (a repeated command waits for the first, or reads its
outcome), `RefuseEntry` (a termination came first) and `OwnEntry`. The owner
goes through `LookUp` (`ensureNotCancelled`, which terminates on its own
account), `HandlerEnds`, `Finish` and `Publish`; those who waited publish too.
An owner whose command cannot be converted is `unfit`: `Finish` enters the
verdict, and the owner answers with its own error. `ShutDown` cancels the
context of the loops: handlers are told to stop, and who waits may `Leave`
without the outcome and report a failure of its own. A ghost in each result
(`by`) tells these answers from those given for the entry.
`TerminateBySignal` is the control loop under the mutex, `CallCancel` the cancel
function called after the unlock (`held` in between). `CleanUp` is the half
hour after which entries that are done and terminations are dropped, each by
its own age. `Restart` loses all tables, not the topic. An agent reports only
final states, so an execution is published to it under one dispatch id. It
implements `HandlerSlot` too: the barrier is the table of terminations together
with the mark of the entry, which are forgotten at different times, and a
restart is the slot's crash.

### ResultEvents

`buffer`, `batch`, `sequence` are the logger and its sink; `TakeBatch`,
`SendBatch`, `Close`, `LastFlush` its flushing goroutine. A batch is
acknowledged, refused (`PutBack`) or stored without an answer; the broker may
store a message twice. `Finish` is the final report with the lines left over; a
repeated command (`who = "repeat"`) reports too, without lines. `topic` and
`offset` are one partition, `reader` the node it is assigned to, `processed[n]`
its table of events, `doing[n]` the message at work: `AppendExecutionLogs`,
`FindByID`, `UpdateState`, any of which may `Fail`, before or after it took
effect; the loop then reads on. `UpdateState` decides a preview; for any other
execution it only produces the `completion` event, which `Complete` (the
consumer of completion events, that is `Settle` of `ExecutionLifecycle`) turns
into a decision, later or never.
`Reassign` moves the partition to a node that starts at or behind the offset.
`mishaps` is a ghost: which of these went wrong so far; each property says which
of them it survives.

### PoolRows and PoolSync

`reg` is etcd, `stream` the events the watch has yet to deliver, `channel` the
loop's queue. `run[x]` is a goroutine: the loop, the watcher, a timer. An
alignment (`Align`) is `Read`, then one `Upsert` per pool, `ListMissing`, one
`DisablePool` per pool that is no more, each a statement of its own, working
from the one reading. `FirstLook` and `SecondLook` are the two looks at a pool
whose last instance left. `WatchBreaks` makes the watcher align by itself;
without a revision it watches from now (`WatchFromNow`). Two ghosts: `missed`, a
failure that no later reading has made good, and `mixed`, the last reading was
taken while another alignment was still writing.

### ArtifactCache

`layer` is the directory of one digest: whether it is there, its `.ready`
marker, how many of its files. Renaming is one step (`Commit`); removing a tree
is `OpenDir`, one `RemoveEntry` after another in any order, `RemoveDir`. A
process prunes when it starts (`Inspect`, `Evict`), which may fail, and then serves. `flight[p]` is
the singleflight call of the process: `LookUp`, `Fetch` (download, checks and
extraction in a private directory), `Rename`, `Check`, `Remove`, `RenameAgain`,
`LastCheck`. Callers join it (`Ensure`), leave it without ending it (`Leave`)
and use what it delivers. Ghosts: `torn`, files were removed from a marked
layer, and `removers`, who has begun to remove.

### Codebook

`node` holds the rows, each with its parent, the redundant path of ids and the
name; `versions` those of each file, each with the source key that names the
change set it comes from; `revision` the project's source revision. `Bumped` is
the end of every transaction that changes what the project contains: it raises
the revision, and the unique index on names may refuse the edit
(`NoNameTwice`).

A user's edit is `Decide` (what it reads), for a move and an update a second
reading (`Reread`), and `Commit` (what it writes), or `GiveUp`. The readings take
no lock, also those of a deletion and an import, which are inside the
transaction: other edits may commit between them and the write. `fresh` are the
editors whose reading of the tree is still true, `stale` a ghost: some creation,
move, deletion or import was decided on an older tree. `Rename`, `UseVersion`,
`CreateVersion` lock or write a single row and are one step.

A user may type (`Typed`) something new, or by chance the very name or content a
change set asks for (`Own`). The assistant prepares a change set in several
readings, too: `PrepareProject` (the project with its revision), `PrepareItem`
(the tree it shows the model, and what the model proposes), `PrepareFile` and
`PrepareVersion` (the file it is based on). `Apply` carries the change set out
on the revision it was made for and with its checks on the file, or `Repeat`
answers that this was done before. It goes by what it finds (`InPlace`): nothing
left to delete, the file under the name asked for and with the version expected, or
a current version with this change set's source key.

`packer` is `SnapshotFiles` in its three reads and the comparison after them,
then the transaction that records the archive. Contents are stamps of the edit
that made them.

## 3. Runs

All bounds are constants in the `.cfg` files. Deadlock checking is off in all of
them: with users and executors free to do nothing, and with the bounds on
failures reached, each of these systems may rightly come to rest.

| Run | Question | Bounds |
|---|---|---|
| `lifecycle` | Do concurrent reports, events, compensators and cancellations ever undo a final state, free the task twice or not at all, or dispatch one failure twice? Is it an `ExecutionOutcome`? | two reports at once, two nodes, limit of one retry; failures, reschedules and dispatches without bound |
| `lifecycle_liveness` | Does a pushed execution always end, whatever stale reports do to its retry count? | two reports at once, one node, limit of two retries |
| `scheduling` | Can a task be run twice at a time, or twice for one occurrence, when nodes die, statements and handlers fail and executions are cancelled? | three nodes, three execution records, four tries |
| `scheduling_liveness` | Is the lock always given back and a due task run, with crashes, failing handlers and releases, cancellations and a user's request? Can a stopped task come back by itself? | two nodes, two records, two tries, one request |
| `cancellation` | Submissions, early cancellations, crashes and failed deliveries, pushed and pulled | three submissions, two requests, two compensators, one crash, two failures |
| `signal_never_sent` | Does a termination reach the handler? (It does not, see section 6.) | one of each |
| `executor` | Can one process run two handlers of an execution, lose a termination, or leave a handler out of its shutdown? | three calls of Execute |
| `agent` | The same for the agent, with commands that Kafka repeats or that cannot be converted, tables that are cleaned, and shutdowns: one handler, one answer, no handler that misses its termination, no worker that waits for ever? | three workers, the dispatch entered twice |
| `results` | Are lines stored in order, each once, and all before the execution counts as decided by its agent? Is a message ever taken for processed that was not? | two nodes, three lines, four messages, two mishaps |
| `pool` | When etcd comes to rest, does the table agree with it? | one pool, two instances, two configurations, one timer, three changes, one failure |
| `artifact_cache` | Does a task ever get an incomplete layer, or an error because another task left? Does it always get an answer? | two processes with two callers each, two files, one failure, one crash |
| `codebook` | Does the tree keep together? Is a snapshot what the project was, a recorded archive what it is, a repetition a repetition? | two directories and a file, at the start none, the directories or all; two users, one change set, two undertakings at a time, two edits, two versions |

Why these are enough to be of interest: two concurrent reports are what the
read-then-write of `UpdateState` needs to go wrong; a second failure after the
only retry meets the limit; with a limit of two, the count can be set back once
by a stale report; the third node takes over from a node that took
over; three records let an old completion event arrive while a newer execution
runs and another is created; with three submissions one creates, one loses the
INSERT and one finds the row; with three calls of `Execute` one is repeated while
the first runs and one follows after the attempt was interrupted. An execution
record that is over is reused in `Scheduling`, so the length of the history is
not bounded, only how many records matter at a time.

Three agent workers are an owner, one that waits for it and one that comes when
the entry is done; two entries are one before and one after the cleaning. Three
lines and four messages hold a refused batch that returns before newer lines, a
repeated message and the report with the rest; two mishaps combine a failure
with a reassignment. In `pool`, three changes make an instance leave, return and
disagree with the other one while a timer and the loop align; the loop, the
watcher and one timer are three alignments at once. In `artifact_cache` two
processes race to commit, each may find what the other one's crash has left,
and a caller leaves while another waits.

In `codebook`, two directories make a path whose lower part must follow a move
of the upper, and two edits are one between any two readings of somebody else
and one after it. Two undertakings at a time (`MaxAtWork`: edits between their
reading and their writing, change sets, an archive) are all pairs: two users,
a user and a change set, a user and the packer, a change set and the packer.
Renames and choices of a version come in between without being counted.

What the properties say:

* `TerminalStable`, `ReleasedOnce`, `ImplementsOutcome`: the first decision
  wins, and it alone leads to the task: given back at most once, never before
  the decision, and not at all only where the handler that decided gave up.
* `DispatchPerFailure`, `SingleAttemptSources`, `RetryLimit`: attempts are paid
  for by failures, the limit holds for the stored count, workflows get one
  attempt.
* `EventuallyFinal`: silent executors, lost events and dying nodes only delay
  the end of a pushed execution. Two things can prevent it, both by design:
  unlimited retries (`MaxRetries` 0), and an executor that asks for a reschedule
  again and again, each of which refreshes the deadline.
* `OneOpenExecution`, `ActiveMeansFree`, `OneRunPerOccurrence`: no double run.
* `StoppedStaysStopped`: no stale list and no late release wakes a task.
* `LockIsReleased`, `DueTaskRuns`: no task is lost, unless whoever was to give
  its lock back failed and the owner of the lock lives on and renews it.
* `OneStart`, `EarlyCancelPreventsStart`, `WaitingIsApplied`: a request id
  starts one handler, and a cancellation that came first is effective.
* `ScheduledMeansCancelled`, `SentStays`, `SignalIsSent`: the signal follows
  the cancellation, once.
* `ImplementsSlot`, `TerminateWins`, `ShutdownReachesAll`, `ShutdownEnds`: one
  handler at a time, none after a verdict; a termination is final also for a
  call already let through and for a handler already through, and the shutdown
  misses nobody.
* `ImplementsSlot`, `OneAnswer`, `NoDeafHandler`, `TerminatedEnds` (agent): one
  handler however often the command comes; all who answer with the entry's
  outcome say the same, and only a failure of a worker's own differs from it; a
  termination that is remembered reaches the handler whether it came before,
  during or after its start; everybody who waited gets on.
* `InOrderOnce`, `DecidedAfterLines`, `RememberedIsDone`: lines in order and
  once; all of them stored when the agent's report decides; the table of
  processed events never swallows a message that had no effect, where the
  effect of a final report is its completion event, not yet the decision.
* `QuietAgrees`, `Converges`: when nothing changes any more the table shows the
  instances that are there, in every moment of rest and in the end.
* `UsedIsComplete`, `FailureHasCause`, `EveryCallEnds`: the marker means
  complete; a caller that leaves does not spoil the others' download, and an
  error has a cause (a failed download or rename, or somebody else's removal); a
  flight ends for everybody who waits for it.
* `TreeIsSound`, `SnapshotIsRevision`, `RecordedIsCurrent`, `RepeatIsTrue`: no
  orphan and no cycle unless an edit was decided on an older tree; several reads
  make one snapshot; nothing outdated is published unawares; content is called
  written only by the change set that wrote it.

## 4. Fairness

* `ExecutionLifecycle`: the compensators are endless loops with a pause. Finding
  work is weakly fair; acting on it is strongly fair, because a node may die
  each time after it has found something, but not for ever. Nothing is assumed
  of executors, users or the consumer.
* `Scheduling`: the loops of living nodes, the consumer and the clock are weakly
  fair, but a handler of the consumer may fail at any of its steps, and so may
  the dispatch's attempt to release, and both die with their node; an execution
  ends, which is `EventuallyFinal` of the other module (an
  assumption for pulled ones); a request's handler, once begun, ends.
* `Cancellation`: transactions commit, compensators list and deliver, the
  back-off passes. Deliveries fail at most `MaxFailures` times.
* `ExecutorNode`: a handler whose context was cancelled returns (the SDK's
  contract with handlers; one that was not may run for ever), and goroutines
  and the shutdown are scheduled. Nothing is assumed of callers, the scheduler
  or the cancel functions others still hold.
* `AgentNode`: goroutines are scheduled (the lookup, the end of an owner, the
  publishing, the call of a cancel function already taken), and a handler whose
  context was cancelled returns. Nobody is obliged to cancel, to repeat a
  message, to shut down, to restart or not to.
* `PoolSync`: the loop, the watcher and the timers go on, the watch delivers and
  is set up again. The registry need not change and nothing need fail.
* `ArtifactCache`: a flight goes on; the download has a deadline of its own
  (`internal/execution/artifact/cache.go:113`). Nobody need call, leave, prune or
  crash.
* `ResultEvents` and `Codebook` have safety properties only.

## 5. Proofs

TLAPS proves the following for every value of the constants. They rest on the
named assumptions of the modules (finite sets of workers, compensators and
tree nodes, natural bounds, ids that are distinct) and on the hypothesis of the
theorem where this section names one, nothing else. All safety properties of
the passing runs are among them. TLC checked the inductive invariants on small
instances before they were proved.

* `ExecutionLifecycleProofs`: type correctness, `TerminalStable`,
  `ReleasedOnce`, `DispatchPerFailure`, `SingleAttemptSources`, `RetryLimit`,
  and that the lifecycle implements `ExecutionOutcome`. The last and
  `ReleasedOnce` rest on `Move`: a step leaves the row alone, moves it among the
  open states, ends the execution with its task given back or owed, or pays or
  drops what is owed. The bound on dispatches is not inductive: a claim that was
  won and not yet carried out, and a row that waits for its retry, are dispatches
  to come. `DispatchBudget` counts them: dispatches, claims and what the row owes
  never exceed the failures plus one. Lemma `ClaimCount` gives the change of the
  number of claims.
* `SchedulingProofs`: type correctness and `StoppedStaysStopped` whatever
  happens; `OneOpenExecution` and `ActiveMeansFree` under `Unattended`: no
  process outlives its lease and no user stops, starts or edits the task (nodes
  may die, statements and handlers fail, executions be cancelled). The inductive
  invariant `Locking` says that whoever has work in hand under a node's lock (an
  open execution, a node about to insert, the consumer of the node's event)
  finds that lock in the row, that only one of them has it, and that a list
  which is still fresh shows a task that may be taken. `StoppedStaysStopped`
  rests on `ListedIsLive`. `OneRunPerOccurrence`, under `Unattended` too, follows
  from `OneRun`: whoever can bring about a run, by having one under way, by being
  about to insert one or by giving the lock back while next_time has come, does
  so before a run of this occurrence has ended; after that the lock stays until
  next_time is a later one.
* `CancellationProofs`: type correctness, `ScheduledMeansCancelled`,
  `SentStays`, `OneStart`, `EarlyCancelPreventsStart`, `WaitingIsApplied`. The
  invariants are `Unborn` (nothing has happened to an execution that does not
  exist), `LockIsEarly` (while an early request holds the row nobody has passed
  `Attach`), `OneCreator` and `EarlyBlocks`.
* `ExecutorProofs`, on the process: type correctness, `OneHandler`,
  `ShutdownReachesAll`, `TerminateWins`, and that it implements `HandlerSlot`. The
  invariants are `EntryIsRun` (the handler at work is the one the entry speaks
  of, so `Begin`, which replaces only completed entries, finds nobody),
  `Remembered` (an accepted termination is in the store) and, for the
  refinement, `Marked`: whoever was told of a termination, is about to be told or
  has ended on its account works under an entry that says CANCELLED.
* `ExecutorProofs`, on the pools executors register in: `QuietAgrees`. There is a
  `base`, the last reading of the registry, of which two things always hold.
  `Noticed`: a pool that has changed since is in somebody's hand (`Ticket`: an
  event not yet handled, a second look to come, an alignment about to read),
  unless a failure was not made good. `Carried`: the alignment that made this
  reading is the only one at work, and the rows agree with the reading but for
  what it has left to do, unless alignments overlapped. When nobody has anything
  to do there is no ticket and nothing left, and registry, reading and rows
  agree.
* `AgentNodeProofs`: type correctness, `OneHandler`, `NoDeafHandler`, `OneAnswer`,
  and that the agent implements `HandlerSlot`, by `EntryIsOwned` (an open entry has
  its owner at work, and one that is done is marked exactly when its outcome is a
  cancellation). `NoDeafHandler` is strengthened to `ToldToStop`, which speaks of
  workers that have not begun their handler, too: otherwise the lookup could let
  one through that was told before. `OneAnswer` rests on `OfThisEntry` (who works
  or waits does so for the entry in the table) and `AnswersAgree` (what was
  published for an entry and what is about to be agree with it and with each
  other), and `OwnFailures` (who answers on its own reports a failure).
* `ArtifactCacheProofs`: type correctness, `UsedIsComplete`, `FailureHasCause`.
  `MarkedIsFull` says the marker means complete or torn, `Extracted` that what
  is renamed was extracted to the end. A failure without cause is excluded by
  `AloneFindsItsOwn`: a flight that is the only one to remove finds the
  directory it opened, and afterwards none, or one that somebody has committed.
* `ResultEventsProofs`: type correctness, `RememberedIsDone` whatever goes wrong
  (through `DoingIsRead`: what a node works on is in the topic, and after the
  lines it is at the final report, whose update produces the completion event),
  `DecidedAfterLines` and `InOrderOnce`. The last two hold under the absence of
  certain mishaps, so their invariants are implications: `CalmInv` says where
  each line is (sent, kept or stored) until the report is read; `SteadyInv` that
  the batches in the topic, what is being sent and the buffer are in order, that
  every stored line comes from a message still remembered, and that therefore
  what comes next lies above all that is stored.
* `CodebookProofs`: `TreeIsSound`, `SnapshotIsRevision`, `RecordedIsCurrent`,
  `RepeatIsTrue`, and that a change set is carried out only on the contents it
  was made for, even where its own checks do not look. Every step either leaves
  the contents alone or raises the revision (`StepOutcome`; lemma `Kinds` says
  which steps write what), so equal revisions mean equal contents (`PackerInv`;
  `ItemInv`, for each of the readings a change set is prepared in).
  `RepeatIsTrue` rests on `Keyed`, which speaks of source keys and of no name: a
  version bears the key of a change set only when that was carried out, since a
  transaction gives versions no key but its own (`Follows`) and users' have none.
  `TreeIsSound` needs `TreeInv`: paths are paths of nodes, and what an editor whose
  reading is still true has decided fits the tree (`Fits`). A creation or an
  import has the path of the parent it read; a deletion takes everything that
  has its parent in it; of the nodes a move takes only one is not yet in the new
  parent, and that one is not above it; and once the rows were read again, the
  paths to be written are those of a sound tree. So the fold over the nodes moved
  is the move of that one (`FoldIsOneMove`, by well-founded recursion on the
  finite set moved), and what hangs below it is rewritten as a whole:
  `RepathAppend` says that rewriting a path and going one level down commute,
  which is what a child needs to agree with its parent afterwards.

Only model-checked: everything about liveness (`EventuallyFinal`,
`LockIsReleased`, `DueTaskRuns`, `SignalIsSent`, `ShutdownEnds`,
`TerminatedEnds`, `Converges`, `EveryCallEnds`), which TLAPS cannot do with
fairness. There is no recursive operator in the project.

## 6. Where the code does not do what it says

The run `signal_never_sent` expects TLC to find a counterexample; `PROJECT.json`
quotes the comment that is contradicted. The execution is made CANCELLED in the
transaction that schedules the signal, and `deliver` skips executions that are
final: the handler is never told.

Other counterexamples are easy to reproduce by changing constants or dropping
the exclusion a property names. They explain how the properties are stated, and
what they do not say.

Scheduling (one node and one record, `Disturbances = {}` and `MaxOps = 0`, where
nothing else is said):

* `StopReachesExecutions` with `{"stop"}` and `MaxOps = 1`: Stop writes INACTIVE,
  then cancels the executions it finds. A node that has locked the task and not
  yet inserted its execution inserts it afterwards, and it runs.
* `BrokenTaskIsStopped` under `FairSpec`: `stopTaskWithFatalConfig` gives up when
  the version differs from the one listed, and this node's own Acquire and
  Release have raised it: the task is never stopped.
* `SpentTaskStaysDown`: a cron expression with no further occurrence leaves the
  old next_time in the row; the task is released and found due again.
* `OneRunPerOccurrence` with `{"edit"}` and `MaxOps = 1`: `Update` writes back the
  next_time it read, without comparing the version; a completed occurrence
  comes back. When a node dies after its execution has ended and before the
  event is handled, the takeover may run the occurrence again; the code accepts
  that, and the property is stated while every node is up.
* `OneOpenExecution` with `"stall"`, two nodes and two records: a node that sleeps between
  Acquire and the INSERT past its lease inserts a second execution.
* `status = "PREEMPTED" ~> status # "PREEMPTED"`, that is `LockIsReleased` without
  what it excepts (`forsaken`), with `"consumer"`: the consumer settles the
  execution and then fails, for instance in `UpdateNextTime`
  (`internal/event/complete/consumer.go:95`), before it releases the task; the
  repeated event is ignored (line 72), and the living owner renews the lock for
  ever. Renewals alone can bring this about: each raises the version, and four of
  them between the reads and the writes of `UpdateNextTime` use up its tries.

Executions and cancellation:

* The stored retry count may fall behind: of two reports that read the same
  failure, the slower writes the count it read plus one when a whole attempt has
  passed (`internal/service/task/execution_service.go:523`; the write compares the
  status only). No property says that every retry is counted; `RetryLimit` and
  `EventuallyFinal` say what is left of the count.
* An executor that answers every dispatch with FAILED_RESCHEDULED keeps its
  execution open for ever
  (`internal/service/task/execution_service.go:551-577`), as `EventuallyFinal`
  without its second alternative shows.
* `EarlyCancelPreventsStart` without `mode = "PUSH"`: an agent can claim a pulled
  execution between its INSERT and `Attach`.

Results (each of the mishaps a property excludes breaks it when it is not):

* a batch that was stored but not acknowledged is sent again, with newer lines,
  under the same sequence number; the consumer takes it for a repetition and
  these lines are lost;
* a report repeated for a repeated command carries no lines; when it is the one
  that arrives, the execution is decided without the last lines;
* an append that fails after the event was entered and forgotten again is not
  read again: the lines are missing; one that took effect and reported an error
  is forgotten, too, and a repetition of the message appends its lines again;
* an id that is remembered stands for a completion event, not for a decision: if
  that event is lost, or its consumer fails, the row stays open until its
  deadline, and the node ignores the agent's repetitions;
* an update that fails forgets the report, whose repetition appends its lines
  again; so does the node to which the partition moves, since the table of
  processed events lives in memory.

Agent: a worker that waits for another one's outcome and leaves at a shutdown
reports FAILED (`internal/agent/service/service.go:107-108`), and so does an owner whose
command cannot be converted (lines 121-132), also when the entry was terminated.
The scheduler takes whatever comes first: such a failure may decide an execution
whose handler goes on, and succeeds. `OneAnswer` without its exception shows both.

Pools (`mixed`, `missed`): two alignments that overlap each write what they
read; the older one may disable a pool that has just come back, and nothing
looks again. Events between a lost watch, or a first alignment that failed, and
the new watch are not made up for.

Artifact cache (`torn`): `RemoveAll` takes a layer's entries in no particular
order (`internal/execution/artifact/cleaner.go:51`); a process that dies, or a
user that comes, in between finds `.ready` with files missing.

A process that removes what is in its way
(`internal/execution/artifact/materialize.go:73-75`) may remove what another one
has just committed, or is about to check, and make its caller fail:
`FailureHasCause` counts that as a cause.

Codebook (`stale`, `TreeIsSound` without it): what a creation, a move, a deletion
and an import write is decided on rows that were read without a lock, also where
the reading is inside the transaction (`internal/repository/dao/codebook.go:846-860`,
`internal/repository/dao/codebook_import.go:65-76`). Two users who each
move a directory into the other's make a cycle, after which every snapshot is
refused (`internal/repository/artifact_snapshot.go:89`); a creation, or an
import, beside a deletion leaves an orphan, whichever of them commits last; a
rebalanced order pulls back a node that was moved away. An `Update` that was
read before another writes the content into the version that was current then,
and restores the name.

A repeated renaming is answered as carried out when the path, the node and its
version are as they would be (`internal/repository/dao/codebook_changeset.go:191-201`),
also when a user gave the file that name and the change set was refused.
`RepeatIsTrue` therefore says nothing of renamings; without its last disjunct it
fails.

## 7. Plan

Done: `ExecutionLifecycle`, `Scheduling`, `Cancellation`, `ExecutorNode`,
`AgentNode`, `ResultEvents`, `PoolSync`, `ArtifactCache`, `Codebook`, and the
proofs above. In this order, most important first:

1. Abstract specifications that `ArtifactCache` (a layer appears at once) and
   `ResultEvents` (a log that only grows, then a decision) implement, as theorems.
2. Manual parameters (an override is consumed by exactly one execution), task
   creation and deletion.
3. Change sets of several files, and the deletion of projects with what refers
   to them.
4. The resilient queue consumer: reconnection and closing.
5. Pure functions: retry interval at the limits of its width, next occurrence
   on a calendar with holidays.

## 8. Not modelled

* Runners, variables, programs, routes: they compute the data of one dispatch
  and keep no protocol state.
* Notifications and SSE: nothing flows back from them.
* Script handlers: processes, files and sandboxes of the operating system.
* Of the code assistant, conversations and everything but the preparation of a
  change set; cryptography, tokens, object storage, wiring, migrations.
* Most lines of the repository are generated protobuf code, conversions between
  layers, and services and handlers that read or write one row for an
  administrator; they have no order of steps to check, and the specifications
  stand for a small part of the lines on that account.
* In `ExecutorNode`: progress reports, the log stream, the PULL loop (which calls
  `Execute`), and other executions of the process, which share only the
  shutdown.
* In `AgentNode`: other executions of the process, and a second dispatch id for
  one execution, which the states an agent reports do not lead to.
* In `ResultEvents`: the half hour after which processed events are forgotten,
  duplicates that are not next to each other in the topic, a restart of the
  agent (whose buffer is then lost, and whose execution ends by its deadline).
* In `PoolSync`: that `Upsert` is a SELECT and then an INSERT or an UPDATE (what
  is written comes from etcd, and only whether there was a row from the SELECT);
  several nodes that synchronize at once, bindings, and the case
  that an alignment for one pool disables another one whose instances have just
  left without giving it a second look.
* In `ArtifactCache`: which layers are evicted first, and other layers.
* In `Codebook`: sort keys, several changes in a change set and the directories
  it makes on the way, the SYSTEM scope, blobs, which
  release is active and the way back to an older one, whole projects.
* In `Scheduling`: creating and deleting tasks, the limits on concurrent
  goroutines, the batch timeout. In `ExecutionLifecycle`: logs, progress, and
  the invocation slots, whose exhaustion shows as a reported failure.
* Clock skew between nodes: a lease expires for everybody at once.
