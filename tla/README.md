# Verification of the agentai01 runtime

TLA+ models of the parts of agentai01 that carry its own concurrent and
failure-prone logic, the TLC configurations that check them on small instances,
and TLAPS proofs of what matters most for every size. Paths below are relative
to the repository; the TypeScript sources are under `src/src/`.

## 1. The system

agentai01 is a runtime for a "company" of AI agents. Users give directives over
HTTP, a terminal UI or Telegram; agents turn them into projects, tasks and
messages; jobs run in the background; memory is kept per project and shared
with teammates. About 126,000 lines of TypeScript, single-process (Node.js),
with a lot of `await` between reading state and writing it. That is where most
of its hazards are: no threads, but every `await` lets another call chain in.

### Inventory

State, operations, interactions and what makes each component correct. The
last column says where it stands here: M modelled, M/2 modelled in part (section 6
says which), - not modelled (section 6 says why).

| component | state | operations | hard behaviour, and what has to hold | |
|---|---|---|---|---|
| **Durable job queue** `runtime-app/queue/{backend,repository,models}.ts` | job records in a repository | enqueue, claimNext, heartbeat, complete, fail, retryFailedJob, recoverInterruptedJobs | each operation is read, await, save of the whole record; the process may die with jobs running; the retry budget bounds runs, terminal jobs stay terminal, every accepted job settles | M |
| **Worker pool** `runtime-app/workers/pool.ts` | a snapshot per worker, its counters | runCycle, recordHeartbeat, monitorHeartbeats | snapshots are held across awaits; saveWorker may reject inside or outside the handler's try; a busy snapshot is true, the counters account for attempts | M |
| **Team memory sync** `memory/team-sync/index.ts` | lastKnownChecksum, serverChecksums per session; files; the server | pull, push (delta, batches, If-Match, 412, hashes probe) | concurrent teammates, lost answers, partial batches; a reported success is a delivery, cached hashes are never wrong under a valid checksum | M/2 |
| **Team memory watcher** `memory/team-sync/watcher.ts` | debounce timer, pending flag, push in flight, suppression | file events, write hook, push, stop | events during a push, push results overtaken by changes, a stop at any time; no change is forgotten, a permanent failure does not loop | M |
| Synchronous queue and pool `runtime-app/queue/index.ts`, `workers/index.ts` | jobs, dead letters | enqueue, claim, fail, recover, run with a limit per kind | a requeue that ignores the attempt budget; limits at the boundary | - |
| Scheduler registry `runtime-app/scheduler/` | tasks with next run | due, tick, record run | a task due at the instant of a tick | - |
| **Message bus and orchestration** `runtime-app/orchestration/` | stacks of dispatches, pending approvals, blockers | dispatch, retry, escalate, answer an approval, department run | nested dispatch inside the try of the outer message, so that an inner escalation runs the outer handler again; answers resolved before they are dispatched | M/2 |
| **Runtime state** `runtime-app/state.ts`, `server.ts` | the collections of the whole runtime, the tables behind them | submit directive, respond to approval, retry job or message, save all, init from persistence | saves are not awaited and overlap, the load at boot is not awaited either; recovery from a partial save | M/2 |
| Agent registry, sub-agents, domain `registry/`, `domain/` | agents, handoffs, project life cycle, hierarchy | register, route, acknowledge, transition | references between records; who may move a project and when | M/2 |
| Task registry `tasks/` | tasks, dependency graph, results | register, transition, storeResult, listReady | readiness follows dependencies, results that skip the transition table | - |
| **Agents** `agents/` | delegations (CEO), specs (product), deliveries (engineering), proposals (sales) | handle a message, answer of the owner | handlers that run twice, answers to another version than the current one, awaits between reading and moving a project | M/2 |
| **LSP service** `runtime-app/services/lsp/` | server instances, their processes, opened files, manager generation | start, crash, stop, open, change, close | a crash between open and change, a second operation during the start, a stop nobody awaits | M/2 |
| MCP connections `mcp/` | connections per server | connect, reconnect with backoff, close | a reconnect racing a disable or a new configuration | - |
| Provider API `runtime-app/providers/` | none across calls but retry counters | withRetry, streaming | retries and fallbacks under overload | - |
| Channels, Telegram `channels/`, `runtime-app/telegram*` | draft streams, webhook guard | receive, send, edit a draft | overlapping edits of one draft | - |
| HTTP, auth, rate limit `runtime-app/{http,auth,transport}` | windows per client | check, reset | the boundary of a window | - |
| Memory stores, compaction `memory/` | session memory, thresholds | extract, compact | extraction overlapping a compaction | - |
| Secret scanner, logging, prompts, skills, TUI, plugin SDK, generation, speech, adapters | none or local | pure functions, rendering, vendor calls | no protocol of their own | - |

`PROJECT.json` lists the same components with their sources, and the hazards at
their lines.

Some things about the repository shape the models. `src/src/runtime/` and
`src/src/runtime-app/storage/` are imported but not in the repository: what
stands behind their interfaces is modelled from its use (a durable repository;
a `saveWorker` that may reject). And neither the durable queue and its pool nor
`syncTeamMemory` has a caller outside tests, so how calls overlap is not
settled by the code; the queue model makes it a parameter. The `RuntimeAppState`
that serves the operator and the `RuntimeOperationalApp` that drives the agents
each create a shell of their own, so that an approval answered in the one is not
seen by the other: they are two models and no composition.

### How the modelled parts interact

    producers --enqueue--> JobQueue <--claimNext/complete/fail-- WorkerPool
                              ^                                      |
       operator --retry-------+------recoverInterruptedJobs---------+

    file events, hooks --> TeamMemoryWatcher --push--> TeamMemorySync <--HTTP--> server
                                                        (one per teammate)

    owner --answer--> pending approvals --> message bus --> agents --> registry
      lead ------------------------------>  (DeliveryPipeline, one model)

    operator --respond, retry--> RuntimeState --save, load--> tables
    tools --open, change, close--> LspServer --spawn, kill--> child processes

`DeliveryPipeline` composes five components, for their interplay is the point:
the bus runs a handler, the handler moves the registry and sends messages, the
bus dispatches those inside the handler's own dispatch, and the owner's answers
come in beside it.

`WorkerPool` is composed with `JobQueue`: every step of a cycle that calls the
queue is one step of both. `TeamMemoryWatcher` uses of a push only what
`TeamMemorySync` establishes of one (`DeliveredIsThere`: success means that
what it read has been on the server).

## 2. Modules

| module | models | checked by | proved by |
|---|---|---|---|
| `JobRecord` | the record and what each operation makes of it; no state | through `JobQueue` | `JobQueueProofs` |
| `JobQueue` | `RuntimeQueueBackend` over a repository | `MCJobQueue` | `JobQueueProofs` |
| `JobLifecycle` | abstract: what the queue promises of one job | `ImplementsLifecycle` | `LifecycleImplemented` |
| `WorkerPool` | `RuntimeWorkerPool` on top of `JobQueue` | `MCWorkerPool` | `WorkerPoolProofs` |
| `TeamMemorySync` | sync sessions and the server | `MCTeamMemorySync` | `TeamMemorySyncProofs` |
| `TeamMemoryWatcher` | the watcher of one session | itself | `TeamMemoryWatcherProofs` |
| `DeliveryPipeline` | bus, agents, lifecycle and approvals from lead to delivery | `MCDeliveryPipeline` | `DeliveryPipelineProofs`, `DeliveryFlowProofs` |
| `GatedLifecycle` | abstract: phases behind gates only the owner opens | `ImplementsGates` | `PipelineIsGated` |
| `LspServer` | one language server: instance, client, processes, open files | `MCLspServer` | `LspServerProofs` |
| `RuntimeState` | approvals and jobs in memory, their tables, saves and loads | `MCRuntimeState` | `RuntimeStateProofs` |

Definitions next to a modelled one whose comment begins with "Slip" are the
same code with a plausible bug. They belong to no specification; each shows
that a property notices that bug, as "mutants" in `PROJECT.json` lists.

### JobQueue

| code | model |
|---|---|
| the repository | `jobs`: job id -> record, `Absent` for `undefined` |
| an `async` call between its read and its save | `call[p]`: stage, job, worker, the instant passed, the copies read |
| read up to the await / save after it | `BeginX` / `EndX`, one pair per operation |
| `recoverInterruptedJobs`: one listing, a save per stale job with an await each | `BeginRecover`, `RecoverOne` once per job |
| `claimed .. handler .. complete/fail` of `runWorkerCycle` | stages `claimed`, `working`, `complete`/`fail` of one caller |
| the process dies | `Restart`: calls are gone, the records stay |
| `Date` | `now`; it ticks only while a record has an instant ahead that some operation compares with the clock |

`Discipline` says which calls await one another. `serial`: one loop awaits all
its calls, maintenance included, and a producer awaits its enqueues; that is how
the tests use it. `scheduled`: a timer of its own runs recovery, retries and
heartbeats. `free`: anything overlaps. Left out: payloads, metadata, notes, error
texts, metrics. `listJobs` breaks ties by insertion order; the model takes any of
the tied jobs, which includes that one. A job is created with a budget of at
least one (`MaxAttempts[j] > 0`); the code does not check that, its policies and
tests do so.

### WorkerPool

`worker` is `workerState`, `cycle[p]` is where a `runCycle` stands: the worker
whose turn it is, the instant the cycle took at its start (one for all workers),
the job and the snapshot it holds on to across awaits. Every await is a point
between two steps. `saveWorker` stores what `workerState` was just set to, so it
has no state of its own; that it may reject does matter. Outside the handler's
`try` a rejection rejects `runCycle` (`CycleRejects`); inside, after `complete`,
the catch fails the completed job (`FailFinished`). `recordHeartbeat` and
`monitorHeartbeats` interleave with all of it. Left out: a queue call that rejects
because its repository does (`saveJob`, `listJobs`), and the observability snapshot,
which only reads.

### TeamMemorySync

A content is a number standing for a text and its hash, and the checksum of all
entries is the entries themselves (no hash collisions). `tag`, `known` are
`lastKnownChecksum`, `serverChecksums`; `op` is the operation in flight, with the
files a push read (`local`), the keys it still has to send (`todo`) and the
conflict retries it has made. A request and the handling of its answer are one
step: the client does nothing others could see in between. A lost answer is a
step of its own (`PutReplyLost`): the server has stored the batch, the client
fails. Not modelled: a PUT that reaches the server after its client has given
up on it and gone on, files changing while a push reads the directory, the
secret scan, caps on sizes and entries (413), failing file writes, the 304
answer (nobody passes a checksum to a pull), and two operations of one session
at a time.

### TeamMemoryWatcher

A version counts the writes to the directory. `push["timer"]` is
`pushInProgress` with `currentPushPromise`, `push["flush"]` the last push of
`stopTeamMemoryWatcher`. A push reads the directory at one point after it began
and settles at a later one; anything may happen in between. Left out: the
setup of the watch and the test hooks.

### DeliveryPipeline

| code | model |
|---|---|
| a call into `RuntimeOperationalApp` and the dispatches nested in it | `calls[c]`: a stack of frames, newest first |
| `dispatch` of `messageBus.ts`: handler, outgoing messages, catch | `Handle`, `Dispatch` per outgoing message, `Retry` / `Escalate` |
| the handlers in `agentExecution.ts` with the agent code they call | one action per agent and message; no await, so one step |
| engineering, which awaits the workspace | `PlanWritten`, `HandoffLogged`, `ReportWritten`, `AnswerLogged`, or `WriteFails` |
| `transitionProjectLifecycle` and its table | `Edge`, `Try`, `Advance` (the callers differ in what they do with a refusal) |
| `respondToPendingApproval`, `runDepartmentWorkflow` | `Respond`, `DepartmentRun` |

An error that escalates is thrown again inside the try of the message that
caused it (`RethrownTo`), so the outer handler runs again, up to `MaxAttempts`
times at each level. The phases support and closed, which no handler reaches,
timelines, event logs and artifact texts are left out. Where the code takes the
oldest pending request of a gate, `Respond` takes any.

### LspServer

`state`, `crashes`, `starts` are `state`, `crashRecoveryCount` and the calls of
`start` of `LSPServerInstance.ts`; `process`, `connection`, `initialized`,
`startFailed`, `stopping` are the closure variables of `LSPClient.ts`; `opened` is
`openedFiles` of `LSPServerManager.ts`. The variables are shared by all starts and
stops of one client: what resumes after an await finds whatever process and
connection are there by then, and the model numbers the processes to tell. A
child's exit event and its connection's close event are steps of their own, and so
are the error listeners of the process and of the connection (`StreamError`), which
set `startFailed`. A start awaits the spawn, the answer to `initialize` (`Answered`)
and the writing of `initialized` (`Initialized`, `NotifyFails`); on the last it sets
`running` without looking at anything again. A start that failed leaves a stop
that nobody awaits, with two awaits of its own, the answer to `shutdown`
(`StopAnswered`, `StopRejected`) and the writing of `exit` (`ExitSent`).
The events, the jsonrpc connection and the child process are external, modelled
from the listeners that `LSPClient.ts` installs.

### RuntimeState

`decision`, `listed` and `jobs` are `approvalHistory`, `approvalTimeline` and the job
list of the shell; `saves[s]` is one `saveAllToPersistence` with the table and row
it stands at, `boot` is `initPersistence` with what it has read. Every action of the
operator starts a save, those that are refused and those about something else
too (`ActElsewhere`). Each `await` of a repository call ends a step. The tables are
external (`runtime-app/storage/` is not in the repository): a row is replaced by its
key, which is what the callers rely on, and the calls are taken to be carried out
in the order they are made, as over one connection, so that a row is written with
what memory holds at that moment. With several connections the write of an older
save could land after that of a newer one, which the model does not show.

## 3. Runs

A pass run has TLC explore the whole instance. A violation run checks one
statement of the repository's documents or comments that the code breaks; its
counterexample is the finding. `CHECK_DEADLOCK FALSE` is in every configuration
because every instance may really stop: all jobs are settled and nobody
enqueues, the session is over, or a bound is reached.

| run | result | shows |
|---|---|---|
| `queue_serial` | pass | two jobs (budgets 2 and 1), a loop and a producer, one death, one operator retry, recovery, heartbeats by the handler: handler starts stay within the budget, a job in execution is recorded as such, terminal jobs stay terminal, and the queue implements `JobLifecycle` |
| `queue_overlap` | pass | two callers overlapping in any way on one job, all operations: the attempt counter stays within the budget and nothing is dead-lettered early, whatever the races |
| `pool_books` | pass | cycles of two workers over two jobs, one without a handler, with heartbeats, monitoring, recovery, a retry and a rejected save: snapshots tell the truth and the counters account for every attempt |
| `pool_settles` | pass | liveness: every job settles, no worker stays busy, with a death of the process and a rejected save |
| `sync_session` | pass | two teammates, two keys, three edits, two failing requests of any kind, a second session, a blank server and a seeded one: success is delivery, nothing is believed that never was, and a valid checksum comes with no wrong hash |
| `sync_edits` | violation | after a 412 and a probe the push uploads a key that only the teammate changed, undoing that edit |
| `watcher_session` | pass | three writes, two deletions or hook calls, three failing pushes, a stop at any time: no change is lost sight of, a suppressed watcher is quiet, and each write is delivered in the end |
| `pipeline_flow` | pass | one project, two callers at once, three failing writes, every answer at every gate: what is built and delivered is the version that was approved, a request that can be answered is current, an answer that returns took effect, a half-done build is reported, and the pipeline implements `GatedLifecycle` |
| `pipeline_shared` | pass | the same with a department run of sales, product or engineering, which asks for an approval of its own and lets stages be gone through twice: no phase behind a gate without the owner's approval, and (liveness) every call into the runtime ends |
| `lsp_crash` | pass | three operations that need one server at once, three faults of any kind (crash, kill, failing spawn, refused initialize, failing stream) anywhere in its start, use and stop: until a start fails there is one server, a crash does not leave it running on paper unless it is handled during the await of the last notification of a start, restarts are capped, and the first server hears of no change before its open |
| `state_saves` | pass | two approvals, two jobs, two saves under way at once, a rejected write, a crash between any two rows: in a process whose owner does nothing before the load is done an answer in the table stays, and when the saves are over a crash loses nothing |
| `state_boot` | violation | an action before the load at boot is done: after a restart its save writes the seeds over an answer in the table; with `MaxCrashes = 0` instead, the load takes back an answer given while it read |

Type invariants are not only types where the code keeps a bound or a pairing:
`TeamMemorySync!TypeOK` has the conflict retries within `MaxConflictRetries`,
`TeamMemoryWatcher!TypeOK` that stopping waits only for a push that exists.

### Bounds, and why they are enough

- Queue: the races need two callers. A budget of 2 has a first, a last and a
  denied attempt, a budget of 1 has no retry; two jobs make recovery save one
  copy while the other ages. One restart and one operator retry each meet every
  stage of a call. `MaxTime` 2 lets a claim become stale and be retried, and
  with `StaleAfter` and the delays at 1 the comparisons meet both sides of their
  boundary. `MaxRuns` is where the history of handler starts saturates, above
  every budget. `AttemptsWithinBudget` and the serial properties are also proved
  without bounds.
- Pool: two workers so that a cycle's single instant is old at the second turn
  (`MaxLag` 1), two jobs so that one has no handler (the other has a budget of one). One rejected save meets
  each of the four saves. `pool_settles` has one worker and one job with a delay
  and time 6: enough for a claim, staleness, recovery, backoff and a second
  attempt that fails or is cut off as well.
- Sync: batches of one key out of two, so that every push of two keys has a
  middle. Two conflict retries: a first, a last and a denied one; three edits
  by two teammates are needed to exhaust them. The proofs cover any number.
- Watcher: a version before, during and after a push makes three writes.
- Pipeline: one project, for handlers of different projects share nothing but the
  bus; two callers, so that an answer or a second lead runs beside a handler
  that awaits. `MaxAttempts` is the code's 3. Three failing writes let a handoff
  fail for good at any of its awaits and be retried at the next level; with a
  department run in play one is enough to meet each await, and its request at
  each gate lets a stage be repeated. `GatesAreOpened` is also proved for any
  number of each.
- LSP: a cap of one restart, so that a first, a last and a denied one happen with
  three faults; three processes, the third of which the cap is what denies;
  three callers, so that a start has an operation beside it and one after it.
- Runtime state: two rows per table, so that a save has a middle in each; two
  saves at once, the second of which passes the first; one crash, for what a second
  would find in the tables a first can find as well.

Symmetry is used between callers and between teammates, which are
interchangeable, in safety runs only.

### Fairness

`WorkerPool!PoolFairness` is that of an event loop whose program keeps going: a
continuation that can run does, a handler settles one way or the other, a
recovery or an enqueue that began goes on, time passes; and `runCycle` and
`recoverInterruptedJobs` are called again and again (strongly fair, for other
calls of the loop disable them in between). Nothing makes a producer enqueue, an
operator retry, a process die or a save reject. Without recovery being called
the property is false, as it is for the code: a job of a dead process stays
running.

`TeamMemoryWatcher!FairSpec`: a delivered event, an armed timer and a push in
flight proceed (the runtime's event loop; the requests of a push have timeouts).
Failures need not happen, and nothing forces writes or a stop. `DeliveryPipeline!Fairness` has each call go on: the event loop runs every
continuation, and a write to the workspace ends well or badly. No owner has to
answer and no lead to arrive. There is no liveness for the LSP service, where a
request to a dead server waits for ever, nor for the runtime state, whose saves
have no retry. There is no
liveness for the sync protocol: teammates who keep writing can make a push fail
forever, and nothing in the repository calls `syncTeamMemory` again.

## 4. Proofs

All proofs are over the specifications that TLC checks, from the named
assumptions on constants alone (`JobRecordAssumption`, `JobQueueAssumption`,
`WorkerPoolAssumption`, `SyncAssumption`, `WatcherAssumption`, `PipelineAssumption`,
`LspAssumption`, `RuntimeAssumption`), for any number of jobs, workers, callers,
teammates, keys, projects, requests and failures.

**Queue, however calls overlap** (`JobQueueProofs`). `AttemptsWithinBudget` is not
inductive: a stale copy saved later could carry any counter. `BudgetInv` says
that every record, stored or held by a call in flight, is `Sound`: its counter
is within budget plus granted retries, strictly so while it waits, and not below
the budget when dead-lettered; and that a call about to claim holds a waiting
copy. Every operation maps sound copies to sound records, so no interleaving of
saves leaves the set. Theorems `TypeCorrect`, `AttemptsBounded`,
`DeadLettersAreSpent`.

**Queue, when callers await one another** (also `JobQueueProofs`,
under `Discipline = "serial"`). `SerialInv` adds that the calls of a lane exclude one
another, that copies in flight agree with the repository in what the life cycle
sees, that the record of a job in execution is running and owned, and that no
handler start is without a counted attempt. With it each save is a known move of
one job's status and counter (`NextMoves`), from which `RunsBounded`,
`ExecutionOwned`, `TerminalFinal` and the refinement `LifecycleImplemented`
follow.

**Pool** (`WorkerPoolProofs`). `PoolTypeCorrect` holds however cycles overlap.
`BusyHolds` is under `Discipline # "free"`: cycles and maintenance await one
another, a timer's included, while producers, heartbeats and monitoring go on
beside them. `PoolInv` says that at most one caller is in a cycle, a recovery or a
retry and at most one in an enqueue (`Alone`); that the point of a cycle and the
stage of its queue call fit (`Coupled`); that whoever is going to save over a
record has it there, so that an enqueue that found none cannot hit it (`Stored`);
that record and snapshot name each other (`Truthful`); and that a busy snapshot
has a cycle that attends to it (`NoneForgotten`).

`AttemptsHold` is the account of the pool: as long as the process lives and no save
was lost, the attempts the repository counts are those in the workers' books plus
the one under way. It needs finitely many jobs, and laws for the two sums it
relates: these are folds, so a sum is taken as the function on the subsets that
`MapThenSumSet` chooses (`IsSum`), which exists for a finite set and does not
depend on the order the elements are picked in (`SumExists`, `SumsAgree`,
`SumWithout`, each from a smallest counterexample). `BooksInv` then says that a
cycle holds the counts its worker's snapshot has, so that a heartbeat in the middle
of a job loses none (`InBooks`); that a call about to save read the counter still
stored; that a job running is one some cycle attempts, so that recovery and retries
find none (`RunsInCycle`); and a step either changes no term, opens an attempt or
closes one (`AccountKept`, `AccountOpened`, `AccountClosed`). TLC checked
`BooksInv` on the instance of `pool_books` first.

From it also `PoolRunsBounded`: the budget bounds handler starts under the pool,
over restarts, recoveries and rejected saves, the one included that has the catch
fail a job already completed. And `PoolUsesQueue`: a pool whose saves all succeed
makes no step that `JobQueue` does not let its callers make, so `PoolSpec => Spec`
and every theorem on the queue carries over. With a rejected save it does not: a
cycle is given up in the middle of a job, and a completed job may be failed. The
instant a cycle passes may be as old as the cycle, so the bound `MaxLag` must be no
less than `MaxTime` there.

**Sync** (`TeamMemorySyncProofs`). `SyncInvariant`: what the server holds it has
held; what a push read and does not mean to send has been there; only a push at
rest reports; probes are within the retry budget. `HashesAgree`: the hashes a
session keeps beside a checksum are right for that checksum or missing. Theorems
`TypeCorrect`, `SuccessIsDelivery`, `KnownIsPast`, `ChecksumsAreHonest`.

**Watcher** (`TeamMemoryWatcherProofs`). `WatcherInvariant` adds to
`NothingForgotten` that only an armed timer can start a push under suppression.
Theorems `TypeCorrect`, `ChangesAreCarried`, `SuppressionHolds`.

**Pipeline** (`DeliveryPipelineProofs`). A gate could be passed by a message still
on some caller's stack, by a handler that runs once more, or by a decision kept
in a store, so `GateInv` follows the owner's yes through all three: every message
on every stack, sent or still to be sent, that could open a gate is one the
owner's answers allow (`GoodMessage`, `GoodFrame`), a frame awaits the workspace
only for a message of the right kind, and the stores remember an approval only
if there was one (`GoodStores`). Answers are never withdrawn, so all of it is
monotone in `answered`. Theorems `TypeCorrect`, `GatesHold`.

**Pipeline, each project captured once** (`DeliveryFlowProofs`). What `pipeline_flow`
checks is false when a second lead or a department run of sales, product or
engineering repeats a stage (section 5), so its theorems assume `OneLead`: at
most one capture per project, and no such head among `Heads`. Projects, callers,
failing writes, runs of the other heads and the limit on attempts stay
arbitrary, and so do the owner's answers and every overlap. The argument is that a
call then runs one of four errands of a project, the capture of its lead or the
answer to its proposal, spec or delivery, and that no errand is run twice.
`FlowInv` says so (`OneCallPerErrand`), and further:

- `Stacks`: in which shapes the stack of each errand is found, at most three
  frames deep, and what of the stores each shape relies on: `ProductStack`, for
  example, goes from the status notice over `Building` (plan, log, report, or
  failed) to `Reporting`, with `engineering[p] = 0` until the report is written and
  a blocker in place once the handoff was given up;
- `FirstRequests`: a pending request at one of the three gates is the first, of
  version 1, and its gate has not been answered;
- `Progress`: how far a project is, by the gates that were answered;
- `HalfBuild`: a build begun and not reported has a call that goes on, or a blocker.

A step of one errand must leave what the others rely on (`KeepsCapture`,
`KeepsSales`, `KeepsProduct`, `KeepsEngineering`, put together by `OthersKept` and
`Assemble`); that an error thrown through the frames makes a handler run again
shows as a step back to an earlier shape of the same stack, never to another
errand. `FlowInv` needs `GateInv` for the types and was checked by TLC on the
instance of `pipeline_flow` before it was proved. The same lemmas say which phase
each step moves (`Advances`), and the refinement `PipelineIsGated` maps the answer
to a proposal to `Win`, any other approval at a gate to `Grant`, and every other
step to the phase it moves or to a stutter. Theorems `RequestsStayCurrent`,
`HalfBuildsAreReported`, `BuiltAsApproved`, `AnswersTakeEffect`, `PipelineIsGated`.

**Language server** (`LspServerProofs`). Four invariants of increasing strength:
`CapInv` bounds the processes spawned since the last success by the crashes on
record, per state; `ProcessInv` has the live process, or the one exit event due,
be the client's; `ServedInv` has every live process watched or being spawned, no
stop under way, the process of a server that is starting or running alive, about to
have its exit handled, quiet or overtaken, and overtaken for sure when a start still
awaits its last notification in any other state; `SpawnedInv` with
`OpenInv` follows a didOpen from the moment it is posted to the file counting as
open. All but the last hold while no start has failed. Theorems `TypeCorrect`,
`RestartCap`, `NoSecondServer`, `OnlyKnownZombies`, `FirstServerKnowsFiles`.

**Runtime state** (`RuntimeStateProofs`). `TableInv`: project rows come first, and
without them no other row is there. `LoadInv`: while a load is under way and the
owner has not acted, memory holds the seeds, nobody saves, and what was read is
still in the tables. `DurableInv`: memory agrees with every answer in the table.
`SavedInv`: a row that differs from memory is one that some save under way has
still to write. The last three are about a process whose owner does nothing before
the load is done (`~raced`, which a restart sets anew), and so are the properties:
for the others both are false (section 5). Theorems `TypeCorrect`, `AnswersAreDurable`, `TablesFollowMemory`.

Only model-checked: all liveness (`EveryJobSettles`, `BusyEnds`,
`WritesAreDelivered`, `CallsEnd`), which TLAPS does not prove here.
`RetryDelay` (2^n) enters the proofs only as a natural number.

## 5. Findings

Checked by a violation run:

1. After a conflict, the recomputed delta re-uploads content that a teammate has
   replaced, where the comment says it is dropped (`sync_edits`).
2. Nothing waits for the load at boot (`state_boot`, `runtime-app/state.ts:199`, `:462`). An
   action after a restart, even a refused one, that comes before the load is done
   saves the seeds over the owner's answers of the process before: they are lost
   for good. And an approval answered while the tables are read is taken back by
   the load, without any restart: TLC shows this one if `MaxCrashes` is 0. Hence
   `raced` in `DurableAnswersStay` and `CrashLosesNothing`.

Met while modelling, each a reason why a property is stated as narrowly as it is:

- *Queue.* `claimNext` compares nothing when it saves: two overlapping claims run
  one job twice on one attempt (`queue/backend.ts:45`). `recoverInterruptedJobs` saves
  the copies it listed: beside a running loop it revives a job completed
  meanwhile (`backend.ts:158`). `enqueue` checks and saves on two sides of an await
  (`backend.ts:26`). `retryFailedJob` looks at no status (`Reopen` in
  `JobLifecycle`). Hence `Discipline`.
- *Pool.* A `saveWorker` that rejects after `complete` has the catch fail the
  completed job, without any overlap (`workers/pool.ts:148`); hence `faults = 0` in
  `AttemptsAreAccounted` and in the second half of `BusyIsTrue`.
- *Watcher.* A successful push clears `hasPendingChanges` for changes it has not
  read, and a stop right after skips the flush (`watcher.ts:92`, `:344`); hence
  `WritesAreDelivered` promises nothing of a session that stops.
- *Pipeline.* The second request that a department run makes lets a lead handoff
  write discovery over any phase (`product/runtime.ts:264`): with it `pipeline_flow`'s
  properties but `TypeOK` are false, `GatesAreOpened` remains. The acknowledgement of
  engineering arrives when the project is in qa already, so `handoff_status` stays
  at awaiting. A revision makes a new version and no new request.
- *LSP.* A crash that is handled while `start` awaits the writing of `initialized`
  (`LSPClient.ts:272`) is overwritten by `running` (`LSPServerInstance.ts:250`): the
  zombie that the crash handler is there to prevent, if the write does not complete
  at once, as on a full pipe. Without `overtaken` in `RunningIsServed` TLC finds it
  with one caller and one crash. A server that ends by a signal or with code 0
  stays "running" with nobody to restart it (`LSPClient.ts:157` against the comment
  at `LSPServerInstance.ts:118`). `openedFiles` survives a crash, so the next server gets
  didChange for files it never saw opened (`LSPServerManager.ts:321`); hence
  `ChangesFollowOpen` speaks of the first server. The stop that a failed start
  leaves behind is not awaited (`LSPServerInstance.ts:256`) and may dispose of the
  next start's process; hence `sound`. A failing stream sets `startFailed` on a
  server that runs on (`LSPClient.ts:146`, `:190`): every request throws, and nothing
  but a crash takes it back.
- *Runtime state.* A save writes an approval's row and later its follow-up's, so
  a follow-up can be durable before the approval that closed it, if another save
  is at the jobs. A crash in the very first save leaves rows the next load takes
  for the whole table: the answers to the other requests are not in its timeline
  (the exception in `CrashLosesNothing`).

## 6. Not modelled

Of parts modelled in half:

- *Message bus, agents, registry, domain*: the owner's directives and the CEO's
  delegations with their deadlines, SLA checks, campaigns, tickets, support and
  closing, routing rules (every message of the pipeline passes them), the sub-agent
  hierarchy, events and all texts.
- *Runtime state*: messages, audit, decisions and delegations, attempts and texts of
  a job, directives, the HTTP server, and a runtime that does not seed itself.
  Delegations are reloaded up to the newest 20, audit rows are written once per
  save: losses by design of which no document promises anything.
- *LSP service*: `stop` and `restart` of an instance, which only a shutdown calls,
  requests with their retries on ContentModified, diagnostics, the startup
  timeout (after which the abandoned `initialize` may still end), and the manager's
  shutdown and re-initialisation.
- *Team memory sync*: secret scan, size caps and 413, failing file writes, the 304
  answer.

Left out as a whole:

- *Synchronous queue, scheduler, task registry*: no await, so each call is one step
  over a map; what could go wrong (a requeue past the budget, a result for a
  finished task, a cycle in the graph) is in reach of a unit test of one call.
- *MCP connections, provider API, channels, HTTP and rate limit*: mostly translation
  of someone else's protocol; reconnection is driven by a user interface hook, and
  retries share no state.
- *Memory stores and compaction*: thresholds around calls to a model; most of it
  formats prompts.
- Prompts, terminal UI, vendor adapters, OAuth flows, the plugin SDK's types,
  generation, speech, logging: no state that several actors share.

What would come next: the manager of the LSP service (generations of it that
overtake one another, a shutdown that resumes after a re-initialisation), the
CEO's delegations on top of `DeliveryPipeline`, MCP reconnection.
