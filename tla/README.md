# Verification of the orchestrator

TLA+ models of the Go core (`go-core/`) of the orchestrator, the TLC runs that
check them and the TLAPS proofs about them.  `PROJECT.json` lists the same
components, runs, mutants, source lines, findings, hazards and theorems in a
machine-readable form.

## 1. The system

One process accepts tasks, plans them, picks a model and an agent for each,
delivers them to the agent's worker pool, and stores the outcome as a workflow.
Everything between `SubmitTask` and the terminal workflow record runs in
goroutines that meet at mutexes, capacity-one channels and queues; around it
are stores, provider connections, background refreshes and a websocket gateway
with the same kind of hazards.

| Component | State it keeps | Operations | Meets others through |
|---|---|---|---|
| Submission intake (`kernel/orchestrator.go`, `delivery/message_bus.go`) | bus task queue, fair scheduler (queues per group, order, cursor, in-flight counters, buffer count), wake/space/task signals | `SubmitTaskAsync`, `ConsumeTaskDeliveries`, `fillSubmissionScheduler`, `enqueue`, `next`, `done`, `runSubmissionWorker`, `Close` | in-memory bus; calls `dispatchTaskAsync` |
| Task delivery (`delivery/supervisor.go`, `worker_pool.go`, `message_bus.go`, `kernel/orchestrator.go`) | workflow store, delivery record per task, agent mailboxes, result queue | `dispatchTaskAsync`, `Dispatch`, `SendEnvelope`, `processEnvelope`, `retryOrDeadLetter`, `handleTaskResult`, `InspectTimeouts` | mailboxes and the result queue; the store |
| RabbitMQ bus (`delivery/rabbitmq_bus.go`) | broker queues, unacked map | publish, consume, ack, nack, dead-letter | replaces the in-memory bus under the supervisor |
| Plan execution (`kernel/advanced_planner.go`, `vfs/manager.go`) | checkpoint in the session state and in the VFS, running artifacts of a call | `RunExecutionPlan`, `ResumeExecutionPlan`, `executeParallelPlan` | submits tasks, waits for workflows |
| Workflow waiters (`kernel/orchestrator.go`, `opencode_delegate.go`) | channels registered per workflow | `WaitWorkflowTerminal`, `notifyWorkflowWaiters`, `removeWorkflowWaiter` | the store; result handlers |
| Managed coding runtime (`managed_coding_runtime.go`, `opencode_delegate.go`) | session table, lanes, event channel, bindings | start, wait, lanes, event pump, delegate's saves (`AbortTask` exists, nothing calls it) | dispatch, waiters, the store |
| Execution slots (`kernel/orchestrator.go`, `runtime_manager.go`) | buffered channels: process, agent, model | `acquireExecutionSlots`, release, `refreshRuntimeCapacity` | executions; runtime manager |
| Agents, provider HTTP (`agents/openai_compatible.go`, `providerhttp/request.go`) | gates per key and model, delta channel | streamed and buffered execution, tool rounds, retries, fallback | the reader in the kernel; the provider |
| Synchronous submission (`submitTaskSync`, `executeTaskP2P`) | session state, token usage, hard stop | guard, adapt, route, admit, deliver, execute, record, fall back | mailboxes, lanes, session state |
| Runtime manager, agent registry (`runtime_manager.go`, `registry.go`, `adaptive_runtime.go`) | runtime state per agent, routing weights | record success and failure, quarantine, recover, capacity report | read by routing, written by executions |
| Router, model selector, planner, policies (`router.go`, `model_selector.go`, `planner.go`, `task_policy.go`, `policy.go`) | none | classify, select, score, filter, draft a plan, admit | registries, memory, intake |
| Model registry, probes (`model_registry.go`, `model_catalog.go`, `provider_probe_manager.go`) | rows per model, snapshots, catalogue file, probe queue | refresh, probe, confirm, publish | selector, health requests |
| Stores (`state/`) | workflows, session states, memory | save, get, list, batch upsert, persist, load | everything |
| Local models (`localmodels/`) | records per model, active endpoint | connect, warm, disconnect, sync | model servers |
| Memory (`memory/`) | records, chunks, route outcomes | remember, ingest, retrieve, rank, pack, score routes | prompts, router |
| Realtime hub, transport (`realtime/`, `transport/`, `api/control.go`) | subscribers, history, request table, bindings, frames | publish, subscribe, cancel, unsubscribe, read and write frames | API, events |
| Realtime metrics (`realtime_metrics_live.go`) | sessions and counters per model | observe session and delta, complete | router, coding runtime |
| API payloads, commands, ops, self-learning | request handling, outside I/O | | kernel calls |

What is hard here: signals sent after a mutex is released; state read under one
lock and used after it; a delivery record keyed by task that a re-route replaces
under a worker's feet; an operator-triggered inspection that re-sends what is
still running; a checkpoint written in two places; session states read, changed
and saved whole; channels that drop what does not fit or are closed while
somebody may still send; broker messages that come again after a restart;
connections, slots and locks taken in turn.  The properties are aimed at these;
`hazards` in `PROJECT.json` names each with its line.

## 2. Modules

| Module | Models | State and actions |
|---|---|---|
| `SubmissionScheduler` | submission intake | one action per locked section and per signal of submitters, stream, filler and workers; `Tick` ages waiting tasks, `Close` cancels the background context |
| `TaskDelivery` | task delivery | dispatchers, pool workers, result workers and the inspector as processes with a step each; the store, the delivery records, mailboxes and the result queue are shared |
| `BrokerBus` | RabbitMQ bus under supervisor and pool | the broker's queues outlive the process, records and the unacked map do not; lost and expired messages, refused ones, unpublished results, restarts.  The task in an envelope of the kernel comes back from the broker's JSON as a map and never has the checksum it was recorded with, so `BrConfirm` refuses it; an envelope of the API (`BrPlain`) holds a map from the start and passes |
| `ParallelPlan` | plan execution | calls with their own copy of the checkpoint, the two stored copies, which planning the task again overwrites, a goroutine per started artifact, and the workflows, which outlive the call and whose record is that of the artifact, whoever submitted it; `Async` says whether tasks go to the queue or are run at once |
| `PlanGraph` | what a plan promises | abstract specification that `ParallelPlan` implements |
| `PlanDrafting` | the planner | the plan drafted for every kind of task, with a required capability or none: steps, dependencies, files, of which one path may be listed twice, the conflict keys of every step, budgets |
| `TaskRouting` | model selector, planner's assignment, adaptive runtime, router, assignment policy | the stages of one task; scores are integers with their retrieval term; lanes, signals, healthy models and the crowd of other models listed before them are chosen initially; agents take what `CanAccept`, `*` and the model override let them; the loop over the candidates is a recursive function |
| `PeerSubmission` | synchronous submission | callers of one session with a program counter each; mailboxes, lanes and session state are shared.  Another fetch may take an envelope, so that the mailbox is found empty, an inspection may send one again; a failed read is followed by the save of a fresh state |
| `WorkflowWaiters` | waiting for the end of a workflow | waiters and reporters of one workflow, whose terminal record a re-route may open again; `path` says whether the agents or the coding runtime execute it |
| `CodingRuntime` | managed coding runtime and its delegate | calls, sessions and lanes as goroutines; a session's goroutine looks its state up by the session id and may find that of a later call; a send on a closed channel or a second close stops the process |
| `ExecutionSlots` | concurrency limits | jobs that take up to three slots in order, report usage, execute and release |
| `ProviderExecution` | agents, provider HTTP, the reader | the agent's goroutine through gates, requests, tokens, tool rounds, retries and fallback, beside the reader that publishes |
| `ProviderProbes` | probe manager | health requests that queue providers, workers that probe them |
| `ModelRegistry` | model registry and catalogue | callers that refresh in steps: inventories, due models, probes, catalogue file, snapshots; restarts.  The queue of a refresh is the set of models still to be probed, taken in the order of its sort |
| `RealtimeGateway` | hub, session, dispatcher, streams | publishers, the reader of one connection and a goroutine per request |
| `WebSocketFrames` | frame layer | a peer's frames put together to messages; writers that share the connection |
| `PostgresStore` | Postgres store | clients with a pool, transactions statement by statement, row locks, a deadlock detector |
| `FileStore` | file store | mutation, temporary file, rename, failures, crash, load |
| `LocalModels` | manager and runtime of local models | callers whose requests go through endpoints in rounds and may be lost on either way |
| `MemoryRecords` | writing and retrieving memory | writers and one retrieval, each listing a step with its session, branch and limit |
| `RetrievalRanking` | policy, ranking, selection, packing, chunking | pure functions over enumerated inputs, a stage each; a stable sort is the place of each index by its key, the packing loop a recursive function |
| `RouteHistory` | route outcomes and scores | the log grows by an outcome a step, of which a search sees the latest up to the candidate cap; breakdowns are rounded weighted averages over sets of its indices |
| `LiveMetrics` | live metrics | sessions that run, pick models, stream and end in any order; the failure rate is a fraction |
| `FiniteSums` | | the sum of a function over a finite set, for the two modules above |
| `RuntimeManager` | runtime manager, registry, adaptive runtime | the record of every lane and the routing weights; suppressions last as long as who asks for them says; a call of the manager is a sequence of single reads and writes, as the registry locks them, that interleave with other calls |
| `...Proofs` | | theorems: `SubmissionSchedulerProofs` (the scheduler), `RoutingProofs` (`ParallelPlan`, `PlanDrafting`, `TaskRouting`, `PeerSubmission`), `WorkflowWaitersProofs` (waiters and `CodingRuntime`), `DeliveryProofs` (`TaskDelivery`, `BrokerBus`), `ExecutionProofs` (`ExecutionSlots`, `ProviderExecution`, `ProviderProbes`), `RealtimeProofs` (`RealtimeGateway`, `WebSocketFrames`, `ModelRegistry`), `StoreProofs` (the stores, `LocalModels`), `MemoryProofs` (`RuntimeManager`, `MemoryRecords`, `RetrievalRanking`, `RouteHistory`, `LiveMetrics`) |
| `MC...` | | constants for TLC; modules that do not share state run side by side there as parts, of which the variable `part` chooses the one that moves |

Compositions where components do share state: supervisor, pool and broker in
`BrokerBus`; router, policies, lanes, mailboxes and session state in
`PeerSubmission`; delegate, runtime and waiters' store in `CodingRuntime` and
`WorkflowWaiters`; hub and connection in `RealtimeGateway`; provider gates and
the kernel's reader in `ProviderExecution`; sessions of the coding runtime and
the collector in `LiveMetrics`.

Definitions whose comment starts with *Mutant* are deliberately wrong versions
of the definition that follows; no specification uses them.  They are listed in
`PROJECT.json` beside the property each must break.

Abstractions.  A task is an id with a group key and a weight: the eight routing
hints `submissionGroupKey` reads decide only which group it is.  `MaxBuffered`
and `MaxInFlight` are positive because `newSubmissionScheduler` replaces other
values.  Seconds waited become `Tick`s up to `AgeCap`.  In `TaskDelivery` the
attempt number stands for the payload checksum (every re-route rewrites the
routing hints and with them the payload), and which agent routing, budget and
policies choose is left open; `TaskRouting` has the choice.  In `ParallelPlan`
the static part of the checkpoint is the constants; a workflow either succeeds
(`validatePlanWorkflow`) or does not.  Store calls are atomic in the models of
their callers, as the stores' own locks and transactions make them.  The bus's
ack history, and what `FetchAgentMailbox` copies from it into the live record
(`supervisor.go:156-164`), are left out: no field the properties read comes from
there.  In `RuntimeManager`
error rates are counted in quarters, a weight is its sign, load and texts are
left out, and an agent's health is what a probe or a sync finds of its provider
and its model.  In `TaskRouting` texts are the marks that decide; history and
realtime quality are the same for all agents.  In `PeerSubmission` tokens are
counted in executions, and the planned ones, a quarter of the description's
length, are not the ones used: the check of the budget may find any agent within
or beyond it.  `ProviderExecution` gives both gates of a request back in one step
and always has a gate for the model; `RealtimeGateway` counts a refused event in
the step that refuses it: nobody reads in between.  In `LocalModels` a server
knows a model by the name it is asked for, and of `Health` and `ListModels` only
the move of the active endpoint matters.  `LiveMetrics` counts observations of
latencies; a negative one is refused by the histogram, so there "once" is at most
once.  A crash in `FileStore` is one of the process, not of the machine: what was
written is on disk.  In
`RetrievalRanking` and `RouteHistory` floating-point signals are percentages
and scores integers in small units, cut off where the code's own rounding makes
the difference invisible.  The broker, the database server and the model
servers are external and modelled from how the code uses them.

## 3. Runs

A property that is a conjunction names the parts it consists of; each part is a
definition with its own comment in the module.

| Run | Bounds | Shows |
|---|---|---|
| `scheduler_safety` | 3 tasks, 2 sessions, 2 workers, buffer 2, 1 in flight per session, 1 fault, close at any time | `GroupLimit`; `NoLostWakeup`; `TasksAccounted`: structures agree, no task doubled and none lost but, at shutdown, the one delivery in the stream's hands, sessions in order |
| `scheduler_liveness` | a task submitted again and again in one session, a single one of equal weight in another, 1 worker, buffer 2, 1 fault, close at any time | `EveryTaskDispatched` while the orchestrator is not closed, `ShutdownDrains` once it is |
| `delivery` | 2 tasks, 2 agents with a worker each, 1 fault; or 1 task, 2 result workers, 1 fault, 1 inspection; or 2 tasks (one envelope of the kernel, one of the API) and a foreign message at the broker, 1 retry, 1 lost message, 1 fault, 2 restarts | `ResponsibilityHeld`: one holder per running task, none stranded, re-routes bounded; `BrokerAccounted`: one copy, one run but for unpublished results, nothing left marked as queued; `OutcomesStand`; `EverythingSettles` |
| `routing` | plan of 3 artifacts, the third after the first and with a key of the second, 2 calls one after the other or overlapping, planned again, tasks on the queue, 1 failed read, write or submission, and unless calls overlap 1 restart; the same run at once, with a dangling dependency; routing: 7 tasks, 5 agents of which two are twins, every set of healthy models out of 4, with 0, 59 or 90 others before them, at most two lanes strained, signals; drafts: up to 14 files, the first path listed twice; submissions: 2 callers, 2 agents, 1 fault, 1 recovery or overlap | `DependencyOrder`, `ConflictFree`, `CheckpointSound`, `ImplementsPlanGraph`; `PlansHold`; `RoutesSound`; `SubmissionSound`; `NothingTriedAgain`; `EveryoneAnswered` |
| `waiters_notify` | 2 waiters, 2 reporters; 1 coding call with any of four plans of up to 2 lanes, or 2 calls of the same task without lanes; 1 fault | `SleeperIsKnown`, `NoLeak`; `DelegateSound`: lane order, completed only when whole, a process stopped only by goroutines that shared a state or outlived it, nothing left bound; `EveryoneReturns` |
| `execution` | 3 jobs, 2 agents, 1 model, limits 2/1/1; 2 provider tasks on one key and model with one slot, channel of 1, 1 retry, 2 tool rounds; 2 providers, 2 probe workers, queue of 1 | `SlotsKept`, `DeltasWhole`, `ProbesSound`, `WorkEnds` |
| `realtime` | 2 requests, 2 ids, 1 publisher, 2 events while a stream is subscribed to the open connection, history and channel of 1; 3 frames, 2 writers; registry: 2 providers, 4 models, 2 callers, 3 inventories, 3 replies, 1 restart | `StreamsSound`: events handed over or counted, requests cancellable, nothing outlives its connection; `NoSendOnClosed`; `FramesSound`; `ModelsVerified`; `RefreshesInOrder` |
| `stores` | 2 clients, pool of 2, batches in opposite orders, 3 calls; 2 slots, 3 calls; 2 callers, 2 endpoints, 2 rounds, 1 disturbance | `SavesSound`, `AckedSurvives`, `LocalSound`, `CallsEnd` |
| `memory` | items of each kind on two branches, 2 writers, 2 writes, limits of 1 and 2, top 1; 8 chunks, 4 tasks, 3 found; 5 outcomes of 2 agents, 4 listed, top 3; 3 sessions, 2 models, 3 runs; 2 lanes with two failures behind them, 2 callers, 2 operations, suppressions of 1, 2 and 3 units of 300 s | `RetrievalSound`, `HistoryFair`, `MetricsSound`, `LanesSound`, `SuppressionStands` |

Deadlock checking is off throughout: a bounded set of tasks, calls or waiters
comes to rest when everything is done, and what must not come to rest early is
what the liveness properties say.

Two safety runs use symmetry: `realtime` (requests, ids, the registry's callers)
and `memory` (callers, writers, coding sessions), where the code never orders or
picks among them; neither checks liveness.

Why the bounds are enough to be interesting: two sessions and a limit of one in
flight make a session wait for `done` and make `order` lose and regain groups; a
buffer smaller than the number of tasks makes the filler sleep; one fault is a
failed dispatch whose task goes back in front of its successors.  Two agents give
one re-route and its exhaustion; an inspection lets a re-sent envelope run beside
the original and two result workers handle both results at once; at the broker a
second restart finds what the first left unacknowledged.  The plan has
two artifacts that may run together, and one that follows the first and conflicts
with the second: the least in which an order, a conflict and a left-over workflow
meet.  Two submissions are enough to take each other's envelope and
to undo each other's save.  Two coding calls of one task share a session id; two
lanes are enough for one to end the session while the other announces itself.
Gates, channels, queues and pools have one or two places, so that each is full.
Two clients with a pool of two reach the listing that waits for itself, and
batches in opposite orders the database's deadlock.  Chunks are chosen at both
sides of every threshold, one of them with a negative cosine, text lengths around multiples of chunk and stride.
Lanes start with an error rate of one half, so that the next failure
quarantines; two operations of the runtime manager overlap at every read and
write of two lanes.  In the parts of `delivery` the limits of each part are in
`Limits`.  Five outcomes with four listed make the oldest leave the list, and a
suppression of each length can meet each other one.

Runs that end in a violation, each a disagreement between the code and what a
document or test of the repository says (details under `findings`):

- `delivery_stable_violation`: a workflow that has ended is changed by the
  result of an envelope the inspection re-sent while it was being executed.
- `waiters_return_violation`: a workflow that ends between a waiter's look at
  the store and its registration is never announced to it.
- `conflict_violation`: a call whose artifact failed ends and leaves what it
  submitted executing; the call that resumes the plan then runs artifacts beside
  conflicting ones of the first, although related tasks shall not run
  concurrently.  `ConflictFree` is what does hold: within one execution, unless
  another call submitted one of the two artifacts to the queue.

Seen while modelling, and without a run of their own:

- Planning a task id again overwrites its checkpoint with an empty one, so that
  completed artifacts are run again; `NoRework` and `ProgressKept` speak of the
  time until then, and the plan graph has that step (`Withdraw`).
- On the queue a call takes the end of another call's workflow for its own,
  because record and waiters are those of the artifact's id.
- Over RabbitMQ no envelope of the kernel passes `ConfirmPayload`: its task is a
  struct when the checksum is taken and a map afterwards.  It is retried,
  dead-lettered and reported as failed; `EverythingSettles` holds by that end.
- A lane that outlives its session sends on a closed channel, and two goroutines
  that find the same state close it twice.  Either stops the process, and the
  workflow stays `accepted` (`StopHasCause` says that nothing else does).
- The adaptive runtime and a preferred agent go past the provider filter, and the
  assignment policy then refuses the task, also where another agent could take it
  (`docs/runtime-routing-and-model-selection.md:229-234` says the router respects
  the assigned provider).
- `compactStrings` keeps a path that is listed twice; it may land in two branches,
  so `BranchesApart` is about different paths.
- A session state that could not be read is replaced by a fresh one when usage is
  saved; what was used before is gone.
- A suppression replaces the one before it: a quarantine of 900 s shrinks to 300 s
  with the next dispatch, or to what an operator asks for.  `SuppressionStands`
  says that nothing else shortens one.
- A search of the route memory looks at the latest 96 outcomes of all agents: an
  outcome of another agent, however unlike, can push one's own out of the list and
  bring an older own one into sight (`OthersOnlyCrowdOut` says how far that goes).
- A retrieval lists only its branch, and of that the latest candidates.
- An agent whose reader left keeps sending into its channel until it is full and
  then holds its provider's slots for good; `WorkEnds` excepts that case
  (`Abandoned`).
- As many listings of workflows at once as the pool has connections wait for
  each other for good; `CallsEnd` excepts that case (`Exhausted`).
- Two first saves of a session both find no row and both write version 1.
- An envelope the broker delivers again after a restart has no record and is
  dead-lettered, also over a completed task.  A lost publish is never repeated.
- Two synchronous submissions to one agent may take each other's envelope, fail
  validation and move on; saves of the session's state undo each other's usage;
  a fallback does not look at budgets; one failed attempt stops the session.
- A completed session that is observed again with another model leaves an active
  session behind that nobody completes (`ActiveAccurate` excepts it).
- An importance of exactly 1.0 is read as one percent (`DominanceKept`).
- `SendEnvelope` makes an envelope visible before it records its acks, so that
  `queued` can stay the last ack of an accepted delivery and the delivery
  snapshot reports it for good (`worker_pool_test.go:37` waits for `accepted`).
- With a single agent `MaxRetries` is 0, which `maxRetries` reads as 3.
- A task whose coding runtime cannot be started stays `accepted`, although
  `README.md:79` says that workflows are finalized; a waiter of a coding task
  can be told `completed` while the store, whose save failed, keeps `accepted`.
- A completed artifact recorded in the session state but not in the VFS is
  forgotten, because the loader prefers the older VFS copy
  (`docs/api-and-transport.md:139`).
- Usage reports of executions that end together can overtake each other, and
  the agent stays reported as in flight until its next execution.
- Overlapping operations of the runtime manager overwrite each other's records:
  a capacity report can lift a quarantine or bring an expired one back, and the
  weights published last may be the older ones.  `SuppressionStands` and
  `SuppressedHasNoWeight` are therefore claimed for operations that do not
  overlap (`raced`); `FailuresCountOnce` holds in spite of the races.
- Every dispatch suppresses a lane with an error rate of 0.75 or more again
  before it routes, and neither time nor `RecoverLane` lowers the rate: only an
  execution that is already under way can reopen the lane.

## 4. Fairness

Weak fairness of each goroutine's own steps, never of the environment: nobody
has to submit, close, inspect, cancel, crash or lose a message.  In
`SubmissionScheduler` that is the stream, the filler, every worker, pending
signals and time; the exits of the stream and the filler are strongly fair,
because Go's `select` picks at random among the cases that are ready, and a
cancelled context stays ready.  In `TaskDelivery` it is the submission worker
that holds a task, the dispatchers, the pool workers and the result workers; at
the broker senders, workers, the broker's push and the restart of a process that
ended, which its supervision (compose's restart policy) provides.  In
`ParallelPlan` the calls, and the workflows, because each has a deadline after
which its worker reports a failure; `EveryoneAnswered` excepts a call that waits
for a workflow which ended between its look at the record and its registration
(`Deaf`), the case of `waiters_return_violation`.  In `WorkflowWaiters` and `ExecutionSlots` the waiters, reporters and
jobs; a Go channel serves its blocked senders in order, and every job runs once,
so weak fairness is enough.  In `CodingRuntime` calls, sessions and lanes, whose
routing and execution have a timeout; in `ProviderExecution` agent and reader,
because requests have a timeout; in `ProviderProbes` the workers; in
`PostgresStore` and `LocalModels` the calls, because statements and requests end
or fail and the database's deadlock detector chooses a victim.  The remaining
modules have no liveness property and no fairness.

`EveryTaskDispatched` is checked for equal base scores only: the age bonus is
capped at 25 while critical and low priority are 30 apart, so an endless stream
of critical tasks starves a low one, as the code intends.

## 5. Proofs

For every value of the constants that satisfies the modules' `ASSUME`s.  The
theorems are about the components' own specifications, without the bounds a
configuration gives them; `OutcomesStand`, `NothingTriedAgain` and `PlansHold`
are about the composition of parts that the run checks (`MCSpec`),
`DelegateSound` about delegate and waiters together (`BothSpec`), and the three of
`ExecutionProofs` about slots, executions and probes side by side (`PartsSpec`).

- `SubmissionSchedulerProofs`: `TypeOKCorrect`, `GroupLimitCorrect`,
  `NoLostWakeupCorrect`, `TasksAccountedCorrect`.  `TypeInv` adds to `TypeOK`
  what each goroutine holds at each step (`Handover`), without which a pop or a
  nack is not typed; the cursor is typed by `WithoutIndexType` and
  `PopNextLockedType`.  `GroupLimitCorrect` needs only `TypeInv`.
  `NoLostWakeupCorrect` goes through its three parts one by one: whoever makes
  work visible is at a step that signals next and whoever takes a token looks
  again.  `TasksAccounted` needs `BookInv`, which ties queues, order, cursor and
  the buffered count together, and `FlowInv`: a submission is in one place
  (`PlaceInv`), and of two submissions of a group the earlier one is further
  along that chain of places (`OrderInv`); without the places in between the
  order of dispatch is not inductive.  Of two submissions that are nowhere and have
  not ended, both were in the hands of the one stream, so they are the same.
- `RoutingProofs`: `TypeCorrect`, `DependencyOrderCorrect`,
  `CheckpointSoundCorrect`, `ConflictFreeCorrect`, `Refinement`,
  `NothingTriedAgainCorrect`, `PlansHoldCorrect`, `SubmissionSoundCorrect`,
  `RoutesSoundCorrect`.
  `PlanInv` says of every copy of the checkpoint, stored or in a call, that
  completed artifacts have succeeded and pending ones are the rest, of every record
  that says so that its artifact has succeeded, and of every started artifact that
  its dependencies have; `DependencyOrder` and `CheckpointSound` follow, also for
  overlapping calls.  `KeysInv` says that what a call has started and not consumed
  is in its running set, whose artifacts have disjoint keys, and that a workflow of
  its own executes outside of it only where another call has submitted the same
  artifact (`Mixed`); `ScheduleDisjoint` shows the greedy choice keeps it.
  `Refinement` holds for any calls, overlapping or planning anew.  `NothingTriedAgain`
  needs `KeptInv`: until calls overlap one at a time is at work, and unless it plans
  anew it knows of everything the copy read back shows.  `PlansHold` needs
  `CauseInv`, what a blocked call has seen of its dependencies, and of drafts
  that they are `DefaultSteps` of their task, whose form `PlainDrafts` and
  `SplitDrafts` work out for any number of files.  `SubmissionSound` needs
  `SubmissionInv`: no copy of the session's usage shows more than was used less
  what is still to be recorded (`LedgersSound`), and, for callers one after
  another that nothing disturbs, that each mailbox holds exactly the envelope of
  the caller about to fetch it and the copy being changed is the ledger itself
  (`SerialSound`).  `RoutesSound` needs `RtInv`: what each stage has added to the
  task (`RtTaskInv`), the states of the lanes the stages may meet (`RtLaneInv`),
  that the routed agent takes the task and, unless it is preferred or the
  orchestrator, beats every agent the filter leaves (`RtAgentInv`), and what the policy has seen
  (`RtPolicyInv`); the lemmas on `TaskRouting`'s operators say what the selector,
  the candidate loop and the filter return for any catalogue and any scores.
- `WorkflowWaitersProofs`: `NoLeakCorrect`, `SleeperIsKnownCorrect`,
  `DelegateSoundCorrect`.  The first is inductive with the types.  The second
  needs `KnownInv`: what a reporter announces and to whom at each of its steps,
  that a coding task has a single reporter, and that a record that is not
  terminal lies in a channel only while that reporter is sending it; nothing is
  assumed about the coding runtime's faults.  `DelegateSound` needs `CodingInv`:
  per goroutine of a session, which state it has looked up and where its lanes,
  results and end are relative to each other (`SessionInv`), and that what a call
  waits for is a state, which some goroutine has completed before the call answers
  so (`CallInv`); nothing is assumed of which state a goroutine finds.
- `DeliveryProofs`: `BrokerAccountedCorrect`, `ResponsibilityHeldCorrect`,
  `OutcomesStandCorrect`.  `BrInv` says of every task where its one copy is, how
  often it was sent, run and settled by then, and of the results that only a
  dead letter of a later life follows another.  `DeliveryInv` has the shape of
  every process's hold on a task (`HoldInv`: whoever holds one is the only one
  until an inspection) and that record, mailbox and workflow name the same agent
  and attempt (`FitInv`); neither is inductive without the other.
- `ExecutionProofs`: `SlotsKeptCorrect`, `DeltasWholeCorrect`,
  `ProbesSoundCorrect`.  `SlotInv`: what a job holds is a beginning of its chain
  of slots, and each slot counts its holders.  `ExecInv`: the gates' counts, the
  agent's step, the channel and what the reader has published so far together
  make up what the provider sent.  `ProbeInv`: a provider is in one place, the
  queue or with one worker, and its marks say so.
- `RealtimeProofs`: `StreamsSoundCorrect`, `NoSendOnClosedCorrect`,
  `FramesSoundCorrect`, `ModelsVerifiedCorrect`, `RefreshesInOrderCorrect`.
  `GatewayInv`: per event and subscriber, delivered, to be
  delivered or missed (`HubInv`), the drops counted, and what the session knows
  of an id (`SessionInv`).  `FramesInv`: the fragments collected and every
  message delivered cover consecutive data frames (`MessageInv`,
  `DeliveredInv`), and the wire's last header is of the goroutine that holds the
  lock (`WireInv`).  `RegistryInv`: the snapshot of a provider is older than the
  clock and marks available only what was listed and has answered
  (`SnapshotInv`); while nobody refreshes it remembers every probe
  (`RestingInv`); in a refresh the models still to be probed are due and those
  probed have their outcome in the row (`ProbingInv`); and one caller owns the
  refresh (`RefreshFlagOwned`), without which a later snapshot could be replaced
  by an earlier one.
- `StoreProofs`: `AckedSurvivesCorrect`, `SavesSoundCorrect`,
  `LocalSoundCorrect`.  `FsInv`: the file is a snapshot that covers everything
  acknowledged, and the temporary file about to be renamed is exactly the memory.
  `PgInv`: locks and connections are those of the clients' transactions, versions
  are of calls that have ended, a batch is written up to where its client is.
  `LoInv`: while nobody disturbs an operation its listing goes to the server that
  made the change and brings what that server has (`LoTold`), and what a server
  did is counted or owed by an operation under way (`LoCounted`).
- `MemoryProofs`: `LanesSoundCorrect`, `SuppressionStandsCorrect`,
  `RecordsFoundCorrect`, `MetricsSoundCorrect`, `HistoryFairCorrect`,
  `RetrievalSoundCorrect`.  `LanesInv`: failures counted in a record or still to
  be written never exceed those that happened (`OnceInv`), and operations one
  after another hold the records as they are (`SerialInv`).  `MeInv`: what is
  acknowledged is stored (`AckedInv`), a record without chunks has a cause
  (`HalfInv`), and a retrieval whose listing was not cut off at its limit has found
  what it knew of on its branch (`ReadInv`).
  `MetricsInv`: what each session was counted for (`LmSessionInv`), and for each
  model that its counters are the sums over the sessions counted there
  (`LmModelInv`).  `HistoryFair` is about steps: for a log of any length, lemmas
  on rounded weighted averages (a value at the top or the bottom moves the
  average one way, `AverageRises`, `AverageFalls`) and on the order of the
  outcomes looked at (a new one pushes out at most the last, `SearchMore`, or makes
  room when what was looked at is no longer listed, `SearchDrops`).
  `RkInv` says from which task, chunks or text each stage of a retrieval was
  made; the parts of `RankingSound` then follow from lemmas about the operators:
  a stable sort is a bijection that keeps the order of the keys (`SortedFacts`,
  `KeyedPlaces`), places, shares and scores rise with every signal
  (`RRFRises`, `RankScoreRises`), the first results of the sources lead the
  selection (`FirstsLead`), the packing accounts for each result it has passed
  (`PackingGoes`), and pieces of a text meet (`TextCovered`).

The library's induction theorems take an operator as a parameter and cannot be
used; where a recursive function or a sum is reasoned about, induction is over
sets instead: a set of numbers that holds 0 and every successor
(`NumbersInduction`), or a set of subsets of a finite set that is closed under
adding an element (`SubsetInduction`), both from the well-foundedness of `<`.

The assumptions on constants are finiteness of the sets of processes and of
items that are counted, bounds that are naturals (limits at least 1 where the
code replaces other values), names of one kind that do not clash with another's
or with the mark for none, lanes and endpoints that are listed (each endpoint
once, as `candidateEndpoints` leaves them, and at least one), and that batches of
the database write the same keys, so that what is left of one can be told.  Of
the registry: names and inventories are of known models and periods are at least
one unit.  Of routing: agents have different ids, models are named once per
provider, and a task that is not fixed comes without provider and model.  Of the
ranking: overlaps are percentages, cosines between -100 and 100, and importance,
confidence, hits and lengths naturals.  Of the history: outcomes are records with
shares for similarity and confidence.

Only model-checked, and why:

- All liveness (`EveryTaskDispatched`, `ShutdownDrains`, `EverythingSettles`,
  `EveryoneAnswered`, `EveryoneReturns`, `WorkEnds`, `CallsEnd`): fairness is out
  of the prover's reach.

Every safety property of a passing run, invariant or action property, is stated
by a theorem.  What TLC adds there is the instance itself: that the hypotheses can
be met, every action fires, and each property has a wrong version of the code
that breaks it.

## 6. Not modelled, and the plan

Next: history and realtime quality as inputs that differ between agents in
`TaskRouting`, with `HistoryScore` and the metrics' readings as their sources; the confirmation of an agent's model against the provider catalogue in
`RuntimeManager`.

Partly modelled:

- Runtime manager: load and capacity pressure, the confirmation of an agent's
  model against the provider catalogue and the registration of modules.
- RabbitMQ bus: the submission queue's stream, whose code is that of the envelope
  stream; the auto-acknowledging `Consume` of the synchronous path.
- Stores: read-only queries, schema statements; limits of lists only where the
  memory and the route history use them.
- Agents: configuration from the environment, prompts, wording of deltas.
- Memory: texts, terms and embeddings, which are numbers here; prompts, briefs.
- Router: history and realtime quality as inputs that differ between agents.
- VFS: everything but reading and writing a checkpoint.

Not modelled: self-learning (trace recording, dataset building and file-based
hot reload), operations tooling and commands (shell, container and database
administration outside the program), HTTP payloads and metrics dashboards
(request decoding and formatting around kernel calls that are modelled
themselves): outside I/O or formatting without state that other parts read.
