# A TLA+ verification of ModularMind V2

ModularMind runs AI agents and agent graphs for many users. A FastAPI *engine*
accepts requests and records *executions* in PostgreSQL, Redis holds the fair
scheduler's counters, the task streams and the short-lived signals, one *worker*
process consumes the streams and runs the executions, a *gateway* sandboxes
tools, and two React front-ends follow an execution over SSE.

This directory models the parts whose correctness depends on the *order* in
which those processes act: what the code awaits between two steps, what a crash
leaves behind, and what a second actor does in the gap. `E/` below stands for
`src/engine/server/src/`.

## 1. Inventory

| Component | State | Operations | Interacts with | What is hard | What makes it correct |
|---|---|---|---|---|---|
| Fair scheduler `E/executions/scheduler.py` | Redis: global and per-team counters, slot keys with a TTL, `active_slots` | acquire and release (Lua), `cleanup_stale_slots` (three awaits) | every request that dispatches, the worker's `finally`, boot recovery, two periodic jobs, an admin action | release is neither idempotent nor conditional; the cleanup acts on what it read two awaits ago; the TTL | counters inside limits and in balance with who has a slot; a slot is found again after a crash; the cleanup takes none that is in use; no team above its share |
| Stream bus `E/infra/redis_streams.py` | streams, consumer groups, pending lists, the DLQ | publish, subscribe loop, `_process_entry`, `_safe_xack`, `_safe_xadd`, `_recover_pending` | every producer in the engine, every handler of the worker | crash between handler, re-XADD and XACK; a Redis error in the middle of a batch; trimming | no task lost; retries bounded; what was read is eventually settled |
| Execution lifecycle `E/executions/{router,dispatch,service,cancel,creation}.py`, `E/worker/{execution_task,scheduler,runner}.py` | the `execution_runs` row (committed, and as the worker's open transaction sees it), revoke intents, `exec_stream`, slots, messages | create, acquire, dispatch, run, stop, disconnect, resume, complete, cancel, crash, boot recovery, stale cleanup | scheduler, bus, SSE, conversations, scheduled tasks | three writers of one row, two of them guarded only by an earlier SELECT; row locks held for a whole run; the same slot released by four parties | a terminal status is final; no execution runs twice; the client is told what was committed; the slot comes back once |
| SSE stream `E/executions/router.py`, `E/infra/sse.py` | the reader's position, its `completed` flag | read from the start, end on `complete` or `error`, cancel on disconnect | execution lifecycle, front-ends | an execution that ends without an event; a disconnect racing completion | the reader always ends; nobody cancels what is over |
| Approval gate `E/graph_engine/nodes_supervisor.py`, `E/executions/{router,approval}.py` | `approval_decision:{exec}`, `approval_node:{exec}` | ask, poll, approve, reject, expire | lifecycle, gateway approvals | the key names the execution, not the gate; a late or repeated click | one decision answers one gate |
| Tool loop and graph engine `E/graph_engine/{tool_loop,nodes_agent,nodes_flow,compiler}.py` | messages, iteration count, running tool task | call the model, run the tools, poll for cancel, fan out, merge | MCP, gateway, lifecycle | cancellation while a tool runs; parallel branches merging state | cancelling ends the run; a merge loses no branch |
| Conversations, attachments `E/conversations/*` | rows, messages, the boundary and the summary of a compaction, Redis attachment keys, S3 objects | send, edit, delete, compact, claim attachments, scan for orphans | lifecycle, scheduler, worker jobs | a row lock held for a whole run; a summary made from what an edit deletes meanwhile; keys claimed before the transaction they belong to | what was sent stays; no message leaves the context without being summarised; nobody waits for ever |
| Supervisor `E/supervisor/*` | routing state, ephemeral agents | route, delegate, fan out | lifecycle | several executions dispatched under one slot | every dispatched execution is accounted for |
| Scheduled tasks `E/scheduled_tasks/*`, `E/worker/scheduled_task_helpers.py` | tasks, runs, APScheduler jobs | sync, trigger, run, chain | lifecycle | trigger racing sync; edits that overlap; a firing that takes no slot and gives one back; run status derived from another component's end | jobs follow the rows; one run per firing; the run's status is the execution's; post-actions once |
| RAG `E/rag/*`, `E/worker/document_task.py` | document rows, chunks, objects, vectors | upload, process, reprocess, delete, drop a collection, consolidate | bus, object store, Qdrant | three stores and no transaction over them; redelivery; a request deleting what the worker is storing | what is READY can be found; what is deleted cannot; nothing stays in processing |
| Fine tuning and A/B `E/fine_tuning/*` | jobs, datasets, experiments | create, start, cancel, poll, assign | lifecycle, provider | one job per dataset; experiment switched under running executions | a stable assignment; no two active experiments |
| MCP `E/mcp/*` | registry of clients, sidecars | register, connect, call, restart | tool loop, Docker | reconnect while a call is out | one live client per server |
| Gateway `src/gateway/src/*`, `E/gateway/executor.py` | approvals, sandboxes and their locks, containers, audit | execute, approve, reject, release, sweep, restart | tool loop, users, Docker | a decision published before it is committed, to nobody or to a call that was given up; dictionaries read before an await and used after it; the pool at its limit | nothing runs on a decision nobody made; no container is removed under a command; no command runs twice; the pool comes to rest |
| Auth, rate limit `E/auth/*`, `E/infra/rate_limit.py` | users, tokens, windows | login, refresh, revoke, count | every request | refresh races; window edges | a limit holds within a window |
| Sync, report, hooks `E/sync/*`, `E/report/*`, `E/hooks/*` | last manifest, code index queue | poll, apply, report | platform | partial application | a manifest is applied once |
| Everything else (admin, groups, projects, mini apps, models, ollama, prompt layers, recall, embedding, llm, system indexer, setup, connectors) | rows and configuration | CRUD and calls to providers | PostgreSQL, providers | little that depends on order | transactional |
| Front-ends and packages `src/apps`, `src/packages` | React state, the event source | render, post, subscribe | the API | reconnect, duplicate events | outside this project's core |
| Deployment, migrations, docs `src/docker`, `src/engine/server/alembic`, `src/docs`, `.bmad`, `.rules` | | | | | not behaviour |

## 2. Plan

The scheduler, the bus and the life of an execution come first: every other
component hands its work to them, and they hold the state that several processes
write. The remaining modules follow in the order in which executions depend on
them.

| # | Module | Composes | Abstract specification | Theorems worth proving | State |
|---|---|---|---|---|---|
| 1 | `SlotStore`, `FairScheduler` | `FairScheduler` extends `SlotStore` | `FairSemaphore` | types, limits, tracking, balance, safety of the cleanup, refinement | checked and proved |
| 2 | `StreamBus` | – | `TaskQueue` | types, `NothingLost`, `RetriedBeforeDLQ`, `DuplicatesNeedAFault`, refinement | checked and proved |
| 3 | `ExecutionLifecycle` | extends `SlotStore`, has the bus's retry and acknowledgement in its own queue | `ExecutionContract` | types, order of answer and status, slot of a running execution, refinement; `RunsOnce`, `StopIsHonored` | checked and proved |
| 4 | `GraphRun` (tool loop, gates, branches, the reader of the events) | the lifecycle's intent | – | types, `StopWins`, `GateHolds` | checked and proved |
| 5 | `History`, `Conversation` (sends, compaction, deletion, orphan cleanup, attachments) | `Conversation` extends `History`; the lifecycle's rows | – | `NothingForgotten`, who holds the lock | checked and proved |
| 6 | `TaskJobs`, `TaskRuns` | `TaskRuns` extends `SlotStore` | – | `JobsFollowTheRows`, `OneShotRunsAreBounded`; `RunTellsTheOutcome`, `PostActionsRunOnce`, `OveradmissionIsPaidFor` | checked and proved |
| 7 | `SandboxPool`, `Gateway` | `Gateway` extends `SandboxPool` | – | `PoolIsBounded`, `NothingIsKilledInFlight`, `CommandsRunOnce`, `LeaksHaveACause`, `RunsOnApproval` | checked and proved |
| 8 | `DocumentPipeline` | the bus's redelivery | – | `ReadyIsSearchable`, `DeletedIsForgotten` | checked and proved |
| 9 | supervisor, rate limiter, fine tuning, MCP registry | – | – | – | not modelled: section 8 |

Runs are kept to one per question. A module's safety and liveness properties share
a run where its state space allows it.

## 3. The modules and the code

### SlotStore and FairScheduler — `E/executions/scheduler.py`

`SlotStore` holds the four kinds of Redis key and one operator per Lua script.
Redis runs a script alone, so a script is one atomic update: `AcquireSlot` and
`AcquireDenied` are the two outcomes of `_ACQUIRE_LUA`, `ReleaseSlot` is
`_RELEASE_LUA` with its correction of negative counters (`DecrClamped`),
`ExpireSlot` the TTL of the slot key, and `ForgetSlot` the bare SREM.

| Variable | Redis key or code |
|---|---|
| `global`, `team[t]` | `scheduler:global`, `scheduler:team:{t}` |
| `slot[e]` | `scheduler:slot:{e}`, `NoTeam` when it does not exist |
| `active` | `scheduler:active_slots` |
| `row[e]` | the committed status: `absent`, `active` (PENDING) or `terminal` |
| `client[e]` | where the execution is between `create` and the `finally` block |
| `other[e]` | who else is ending the execution: a reaper that has failed its row and will release, a deletion that has released and will remove the row |
| `at`, `members`, `slotData` per cleanup | the local variables of `cleanup_stale_slots`, one value of `at` per await |
| `charged`, `surplus` | history: who has acquired and not been released by anybody since; how many releases found nothing to give back |

`cleanup_stale_slots` is taken apart at each of its awaits: `CleanupScan`
(SMEMBERS), `CleanupQuery` (the batch SELECT), `CleanupGet` (GET of one slot
key), then `CleanupRelease` or `CleanupForget`. Two of them run at the same time
in the run, as the periodic job and the administrator's request can.

The holder is not the only one to end an execution. `Reap` and `ReapRelease` are the
recovery at boot and the stale job, which fail a row and release its slot without asking
whether the execution is queued, running, or was refused; `DeleteRelease`, `DeleteRow` and
`DeleteFails` are the deletion of a conversation, which releases before its transaction
ends. The holder goes on all the same, and releases again (`GiveBack` looks at nothing).

### StreamBus and TaskQueue — `E/infra/redis_streams.py`

One stream, its consumer group and the group's one consumer. `log` is every entry
ever added, `trimmed` how many of the oldest MAXLEN has removed, `read` and `pel`
the group's position and pending list. The consumer's `phase` is the await it is
at; `batch` is what it holds in memory and loses in a crash. Errors come in two
families, because the code's except clauses tell them apart: `"os"` for the
built-in `ConnectionError` and `OSError`, which `_safe_xadd` and `_safe_xack`
catch, and `"redis"` for `redis.exceptions.*`, which they do not (`Escape`).
Handlers are a choice between `HandlerReturns` and `HandlerRaises`. The tasks of
one stream are independent of those of the others.

`TaskQueue` is what a producer and the author of a handler may rely on, without groups,
batches and awaits. A task has *tickets*, each good for one run; a ticket goes by a run,
by a retry or a burial in the DLQ after a failure of its own, or because the stream grew
past its length, and the youngest `Maxlen` tickets never go that way. Each crash and each
Redis error is a `Mishap`, which repeats one ticket at most, or drops one with an error in
the log. The mapping: `live` is `Good` (unread or pending, unless the consumer has only
its XACK left to do), `failed` is `Failing`, `expired` is `trimmed`, `mishaps` is
`faults + crashes`; the log and what became of each task are the same in both. The XACK
and the start after a crash are stutters; a read is one too, or lets trimmed entries expire.

### ExecutionLifecycle and ExecutionContract

| Part of the module | Code |
|---|---|
| `Create`, `Acquire`, `Dispatch`, `RequestDies` | `E/executions/router.py` 98–149, `dispatch.py` 28–73 |
| `Resume`, `StopCheck`, `StopSet` | `dispatch.py` 76–154, `router.py` 405–440 |
| `Disconnect` | the `finally` of the SSE generator, `router.py` 216–230 |
| `DeleteConversation` | `E/conversations/service.py` 23–79, 232–284 |
| `Take` … `ExpireStream`, `Fail` | `_run_execution`, `E/worker/execution_task.py` 101–247, with `E/executions/service.py` 214–351 |
| `CancelTell`, `CancelCommit`, `CancelClear` | `_handle_cancellation` and `_cleanup_orphaned_conversation` |
| `TimeOut`, `ForceFail`, `Release` | `graph_execution_handler`, `_force_fail_execution` |
| `Settle` | the tail of `_process_entry` of the bus: re-XADD and XACK |
| `Crash`, `Restart` | the container's end and start; Redis keeps the message pending |
| `ReapSelect` … `ReapRelease` | `recover_interrupted_executions` ("boot", and "peer" for the other worker process) and `cleanup_stale_executions` ("stale") |
| `CleanupSlot` | `cleanup_scheduler_slots`, as one step here; `Reclaim` is its choice between the release and the bare SREM |
| `Outlive` | the TTL of the slot key, which counts from the acquire and is never renewed |

What decides most properties is what a *session* sees. `service.execute` flushes
RUNNING and commits nothing before the end of the run, so `row` (the committed
status) stays `pending`, `pause` can never find a RUNNING execution, and every
other UPDATE of the row waits for the lock: `open` says that the worker's
transaction holds it, and `DeleteConversation` and `ReapFail` are disabled while
it does. The reapers' UPDATE names ids and no status, so it overwrites whatever
has been committed by then (`SetStatus`).

What an agent or a graph does between two events is left out: the run is the
phase `running`, from which it may announce a result, notice a cancellation, or
fail. The one exception is `Announce`, which looks at the intent once more before
the final event, as the event loop in `_run_execution` does. Failures are named in
`Faults`: `redis` (a call raises), `db` (a commit fails, after which the outcome
is unknown and the session unusable), `os` (the intent cannot be read and counts
as absent), `release` (three attempts to release are used up).

`ExecutionContract` is what a caller may rely on: a row that leaves PENDING once,
and COMPLETED only after the event with the answer.

### GraphRun — `E/executions/graph_executor.py`, `E/graph_engine/*`

One execution of a graph. LangGraph runs the nodes in a task of its own
(`_run_stream`), the generator of the service reads the events of that task, and
the worker looks for a request to stop before it passes each event on. `at[n]` is
the await node `n` is at; `stage` is what LangGraph runs now, a stage of several
nodes being a parallel node with its branches or a loop over a target.

| Part of the module | Code |
|---|---|
| `Start` … `ToolBreaks` | `run_tool_loop` and `_execute_with_cancel_check`, `E/graph_engine/tool_loop.py`, called by `nodes_agent.py` |
| `PromptReturns`, `Reply` | `human_prompt` and the route that answers it |
| `GateOpens` … `GateCloses` | `create_approval_node`, `nodes_supervisor.py` 262–356 |
| `Click`, `Decide` | a click on the panel of a gate, and its request reaching `approve_execution` or `reject_execution` |
| `Raise` | what `run_branch` and the loop catch, and what ends the graph |
| `ReadEvents`, `ReadEnd`, `TimeOut`, `ClearIntent` | the loop of `_run_execution`, the complete event of the service, the handler's timeout, the end of `_handle_cancellation` |

`unread` stands for the queue between graph and reader: that it holds something
is all the reader's next step depends on.

### History and Conversation — `E/conversations/*`, and the worker's part in it

`History` is what `CompactionService` reads and writes: `msgs`, `boundary` and `summary`
are committed, a compaction holds in `view` what it read before it called the model
(`Look`), and stores both halves of its result in one UPDATE (`Summarize`). The boundary
covers all it read, but the model is shown the last `MessageCap` messages of it only
(`Recent`). Everything else is `Conversation`. A message gets its number, its
`created_at`, at its INSERT (`Insert`, `Write`), which keeps the conversation from being
deleted and waits for nobody; so messages may be committed out of order, and `late` is
those that were committed after a later one. `lock` is the lock of the
conversation's row, which the UPDATE at the end of `add_message`, a compaction, a PATCH
and the deletion take and keep to the end of their transaction: a compaction inside an
execution keeps it until the answer is committed. A PATCH of the config drops the boundary
or, when the client sends it back, keeps it. `keyed`, `stored` and `aged` follow one
attachment from its key in Redis to the scan of objects older than two hours.
Token counts are abstracted: any prefix of the visible messages may be what the
budget makes a compaction take, above the two minima of the code.

### TaskJobs and TaskRuns — `E/scheduled_tasks/*`, `E/worker/scheduled_task_helpers.py`

`TaskJobs` is when a task fires: the rows with PATCHes split at the read and the write,
which may change the kind of a task, `sync_jobs` split the same way, `_active_jobs` and
the timers of APScheduler (`given` is the parameters a row has; a row without that of
its kind is not `Schedulable`, and `_add_job` leaves it without a job), the trigger
stream, and `execute_trigger` at each of its transactions, called by the timers and the
stream side by side. `TaskRuns` is what becomes of a firing: one transaction for run and
execution, the message, the handler with the verdict and the post-actions, and the four
parties that write the execution's row. It extends `SlotStore`, because a firing
acquires no slot and the handler's `finally` releases one all the same: `excess` counts
the units given back by executions that held none. Firings belong to the platform's
team, users' executions to a team each.

### SandboxPool and Gateway — `src/gateway/src/*`, `E/gateway/executor.py`

`SandboxPool` is the `SandboxManager`: `active` is `_active`, `at[c]` the lock a command
waits for or holds, numbered so that a lock dropped from `_locks` is not the one made
after it, `semaphore` is `_docker_sem`. Every wait for a lock, the semaphore or Docker
is a step of its own. A manager that cannot reach Docker at its first use (`client`)
fails the call; later failures of Docker make the command run in the gateway. `Gateway`
adds the way of a call: the executor in the engine asks, is told to wait, subscribes,
hears a decision and asks again; the tool loop gives it up when its time is up
(`GiveUp`), and the gateway does not learn of it; calls may also come, or go on, after
their execution is over. `row`, `deciding` and `told` are the approval's row, the
decision of a transaction not yet committed, and everything ever published.

### DocumentPipeline — `E/rag/*`, `E/worker/document_task.py`

One row, one object, versions of chunks and of vectors. Each pass of the handler
makes a version (chunks get new ids), so that what an overlapping or a repeated
pass leaves behind can be told from what is complete. Requests of users are split
at each await, the locks of PostgreSQL are `Locked` and `Shared` (a chunk's foreign
key holds a share lock of the document's row), errors come in two families: those
the handler's except clause knows (FAILED is committed, with the chunks that were
flushed) and the others (everything is rolled back, the row stays as it is: `FailUnknown`).

## 4. The runs

Every component module states its type invariant, `TypeOK`; the run of `FairScheduler`
checks it. It is proved for `FairScheduler`, `ExecutionLifecycle`, `StreamBus` and
`GraphRun`; the other proofs state the types they need, without the bounds of the runs.

All bounds are small because every hazard found needs at most two or three actors,
one crash and one failure; they are constants of the modules, named there as
bounds.

| Run | Instance | Shows |
|---|---|---|
| `sched_safety` | two executions of two teams, two concurrent cleanups, limits 1 and 1; one of the executions may outlive its slot key, and be ended by a reaper or a deletion | `WithinLimits`, `SlotsAreTracked` and `CountersBalance` under every interleaving of the two cleanups with the clients and those who end executions; what a cleanup takes is over at that moment, and from a running holder it takes only what a reaper or a deletion has ended (`CleanupSparesTheLiving`); the slot of a holder that died comes back (`AbandonedSlotsComeBack`) unless its key expired first |
| `sched_refine` | three executions of two teams, no cleanup | the counters implement `FairSemaphore` (`ImplementsSemaphore`); that no team takes more than its share follows, and is proved for every instance (`ClientsShareFairly`) |
| `bus` | two tasks, batches of two, a stream that trimming cuts, a Redis error, a crash | `NothingLost`, `RetriedBeforeDLQ`, `DuplicatesNeedAFault`; every task that was not trimmed is handled or in the DLQ in the end (`EveryTaskIsSettled`); the bus implements `TaskQueue` (`ImplementsQueue`) |
| `exec_safety` | two executions competing for one slot, one crash, one failure of reading an intent, one resume, intents and slot keys that expire, own recovery | `ImplementsContract`, `RunningHoldsASlot`, `RunsOnce` |
| `exec_rough` | one execution, all three reapers, a crash, a timeout, a failure, a slot key that may expire | `CompletedWasAnnounced`, `StopIsHonored`, `EveryExecutionEnds`, `EverySlotReturns` |
| `graph_gates` | planner, gate, two branches, gate; two iterations, two tool calls, two clicks per gate, a stop and a timeout at any moment | a stop decides the end (`StopWins`) and ends the run (`StopEndsTheRun`); a gate opens for its own approval (`GateHolds`); an answered gate is left (`AnswersAreHeard`) |
| `conv_context` | two requests and a file, two compactions that show the model two messages at most, a deletion, a PATCH | `NothingForgotten`, `NobodyWaitsForEver` |
| `conv_sent` | two requests, a file | **violated** `SentStaysSent`: the scan deletes the attachment of a message that was sent |
| `task_jobs` | a task of any kind, with or without the parameter of its kind, and one that is created or copied, two editors who may change the kind, three events, three runs | `JobsFollowTheRows`, `OneShotRunsAreBounded` |
| `task_runs` | two firings and an execution of each of two users, one slot, a crash, a failure | `RunTellsTheOutcome`, `PostActionsRunOnce`, `OveradmissionIsPaidFor`, `RunsAreClosed` |
| `gateway` | two calls, of one execution (one asks, one writes a file) or of two, a pool of one, a fault or a restart | `PoolIsBounded`, `NothingIsKilledInFlight`, `CommandsRunOnce`, `LeaksHaveACause`, `RunsOnApproval`, `PoolComesToRest` |
| `documents` | a document, three requests, one retry, a failure, a crash | `ReadyIsSearchable`, `DeletedIsForgotten`, `EveryDocumentSettles` |

Bounds and why they are enough. Two cleanups and two executions give every order of two
releases of one slot. `MaxRetries` is 1 or 2, against 3 in the code: the first, a middle
and the last attempt. A failed commit is in `exec_rough`, and the contract under it is
proved (`KeepsContract`). `GlobalMax` is 1 in `sched_safety`, `exec_safety` and
`task_runs` so that the second execution waits for the first one's slot. In `task_runs`
the two users have a counter each, so that both hold the one slot after a firing has
given back a unit it never took. `exec_safety` treats its two executions as symmetric,
which they are: both are one user's, and every property quantifies over all of them; it
has no request to stop (`Stopping`), because a reader who disconnects sets the same
intent. `exec_rough` has one execution, because its properties relate one execution to
its own reapers, its own messages and its own stream, and the worker handles one message
at a time.

`graph_gates` has a gate before the branches and one after them, so that a late click on
the first can meet the second, and an agent beside a plain node in the branches, so that
one sees a stop and the other does not; two iterations are the first and the last of the
tool loop. In `conv_context` the minima of a compaction are 2 and 1 (4 and 2 in the
code), so that two compactions fit into four messages, and the cap is 2 (80 in the
code), so that a compaction of three leaves one out; `conv_sent` has the code's own.
`task_jobs` starts with a task of each kind, enabled or not; three events are two
PATCHes that overlap and a crash or a trigger between them. In `gateway` a pool of one
is full with one sandbox; the two kinds of pair are two calls of one execution, which
share a lock, and two executions, which compete for the pool. The requests of
`documents` are named in the order they begin, the runs of `task_runs` in the order they
are created: that loses no behaviour. Three requests of `documents` are an upload and
two of reprocess, delete and drop that overlap each other and the worker.

Deadlock is not checked, except in `gateway`, where a sweep is always possible: a
system whose executions have all ended, or whose bounded supply of requests is used
up, really stops.

## 5. Fairness

- `WF(CleanupStep)`, `WF(CleanupSlot)`, `WF(Reap(r))` for the stale job: the worker's scheduler
  runs the jobs every 60 and 300 seconds for as long as the process lives
  (`E/worker/scheduler.py` 26–95). They are not enabled while the worker is down.
- `WF(Restart \/ Reap("boot") \/ Handle)` for `ExecutionLifecycle`: these are one process,
  which recovers when it starts and then handles messages; `WF(Reap("peer"))` is the
  start of the other worker, once it has begun.
- `WF(Consume)`, `WF(Handle)`, `WF(Handler)`: the event loop runs the consumer, and
  `asyncio.timeout` bounds a handler. `RunFails`, `TimeOut`, `PollFails` and
  `Crash` get no fairness: nothing has to fail.
- `WF(Restart)`: the compose file restarts the container.
- `WF(Age)`: time passes.
- `GraphRun`: `WF(NodeStep(n))` for each node, because calls of the model and of
  tools have time limits and a poll is repeated; `WF(Worker)`; `WF(Decide)`, because
  a request that was sent is served. `Click`, `Reply` and `StopIt` get none: nobody
  has to answer.
- `Conversation`: `WF` for the worker, for each request that began and for a
  compaction whose model was called. `TaskRuns`: `WF(Enqueue \/ EnqueueFails)`, since
  the trigger that created a run goes on, one way or the other.
- `Gateway`: `WF` for the commands, for the removals and for a sweep that began.
  `SF(SweepFinds(e))`: `cleanup_stale` runs every minute, and finds a sandbox whose
  `last_used` is long ago; a sandbox that is used again and again may escape it, one
  that is not is found in the end, though another sweep may be running when it is due.
- `DocumentPipeline`: `WF(Handle)` and `WF(Serve(q))`; `Die` and the failures get none.
- Requests get none: no client has to create, stop, resume or send anything.

Crashes are bounded, so that "for ever" is after the last of them: a worker that
crashes in every run settles nothing.

## 6. What is proved

Eight modules hold the proofs: `FairSchedulerProofs`, `ExecutionProofs`,
`StreamBusProofs`, `GraphProofs`, `TaskJobsProofs`, `TaskRunsProofs`, `GatewayProofs`
(with `SandboxPool`) and `DataProofs`, for `DocumentPipeline` and `Conversation`. The
theorems hold for every set of executions, teams, cleanups, tasks, calls, documents and
requests, every graph, every limit, and any number of faults, crashes and edits; the
bounds of the runs are constants there. Each is stated of the whole specification
(`ClientsGetASemaphore` and `ClientsShareFairly` of the one without cleanups), and
follows from an invariant that holds initially and is kept by every step.

The assumptions are those the modules name. `Owner` maps executions to teams; limits
are positive, where the code's settings are; the bounds are numbers; model values that
mean "none" are none of the things they stand beside. `Execs` (`FairScheduler`,
`TaskRuns`) and `Editors` (`TaskJobs`) are finite, since sizes of sets are compared; in
`TaskRuns` an execution is a firing's or a user's and not both. The bus recovers at
least as many entries at once as it reads, as the code does (100 and 10).
A few theorems have a hypothesis of their own, named below with its reason.

**FairScheduler.** `TypeCorrect`; `LimitsHold` and `SlotsStayTracked` are read off one
inductive invariant `IInv`. It strengthens them with `RowFollowsClient` (the row is
active from before the acquire until the terminal commit, unless somebody else is ending
it), `OnlyTakenIsTracked` (a member of `active_slots` has acquired) and `CleanersKnow`
(what a cleanup remembers as stale is over, for good; and a key it found gone is still
gone). The last is what the bare SREM needs: only an execution that never took a slot
can take one. It also makes `CleanupIsSafe` true of a decision taken on a status read
two awaits earlier, as far as it is true. The cleanup does take the slot of an execution
that runs, when a reaper or a deletion has ended it under the worker; the theorem says
that what it takes is over at that moment, and that it takes nothing else from a holder.
`ChargesBalance` is a second invariant: a slot and a cleanup's copy of it always belong
to the execution's own team (`ChargesKnown`), so a release takes from the counter its
acquire added to, and a second release is one decrement without a charge, which
`surplus` counts: the counters never charge too much, and too little by the surplus at
most. `ClientsGetASemaphore` and `ClientsShareFairly` say that with the holders as the
only releasers the counters are exact (`Exact`), and are the semaphore; with the cleanup
beside them they are not, as section 7 says.

**ExecutionLifecycle.** `TypeCorrect` includes that a busy worker has its message
at the head of the queue. `AnswerBeforeStatus` rests on `AnnouncedIsTold` (between
announcing and committing, the session's status is in the stream), and needs
nothing about faults or reapers. The other two rest on `RecoveryInv`, for a worker
whose own recovery is the only reaper:

- `NewIsNowhere`: an execution whose request has not begun has no row and no
  message, so a deleted row is never created again;
- `RecoveryKnows`: the recovery runs before the worker subscribes, and what it
  found is still PENDING, or deleted, when it is failed;
- `LockIsHeld` and `PhaseFitsRow`: the row of the execution in hand is PENDING as
  long as the transaction is open, and is gone or over where the code assumes so;
- `SentHoldsASlot`: as long as no call failed and nobody resumed, what has a
  message was sent after an acquire, and a PENDING execution is charged for and in
  `active_slots`, whether its slot key has expired or not.

`RunsOnItsSlot` follows directly. It does not say that the key is there: a run that began
late in the key's life goes on without it. `KeepsContract` maps each step to a step of
`ExecutionContract` or a stutter; it assumes `Calm` (no second reaper, no `redis`
fault, no handler timeout), because each of the three rewrites a status that is
over, as section 7 says.

`PaidForOnce` needs no such assumption. Its invariant `Paid` says that whatever is
still PENDING after it ran more often than calls have failed is in somebody's hands who
will settle it (`Unsettled`): the worker, the recovery that is at work, or the boot that
must follow a crash. This is why a crash costs no second run, although Redis keeps the
message. `StoppedInTime` rests on `StopStands`: an intent that is gone was taken by who
ended the execution, or by a run whose row was deleted. It assumes that intents neither
expire nor become unreadable; with either the run completes, which section 7 describes.

**StreamBus.** `BusInv` names what the log, the pending list and the batch have in
common: the consumer's batch is in the order of the log and was delivered (`Batched`),
trimming removes a prefix (`Grown`). `DeliveredAtLeastOnce` rests on `Kept`, which has
to say more than `NothingLost` at one place: between the two awaits of `_process_entry`
an entry is about to be acknowledged, and its task must be safe without it. For
`DuplicatesAreAccountedFor` the runs of a task and the entries that can still run it are
counted together (`Counted`): a retry trades an entry for another one, and only a crash
or a Redis error leaves both. `NoRetryIsSkipped` compares an entry's retries with the
failures of its task, whichever copy they happened to. A lemma gives what the batch read
of the log is (`Oldest` lists the smallest elements of a set, in order).

`BusIsAQueue` is the refinement, step by step: publishing issues a ticket
(`PublishIsPublish`), a handler that ends uses one up (`HandlersRunTickets`), the XADD that
follows a failure exchanges it (`WriteSettles`, `SettleSettles`), an XACK shows nothing
(`AckShowsNothing`), reading may show that the oldest are trimmed (`ReadingExpires`), and a
crash repeats the one entry whose XACK it prevented (`CrashForgets`). The point is the
entry between its XADD and its XACK: it is no longer good although Redis still has it
pending, and a crash there makes it good again (`InHandIs` says where it stands).

**Conversation.** `DataProofs` extends `History` and reaches `Conversation` as `Chat`,
with names of its own where the pipeline uses the same ones; `Assumed` restates what
`Conversation` assumes of names and of the cap, which an instance does not bring along.
`MessagesAreRemembered` needs `ChatInv`. Its core is `Covers`, said of the summary that is
stored and of each compaction under way: of the messages up to a boundary, those that were
not late are in the summary, or at least `MessageCap` newer ones lie between them and the
boundary (`Between`); *as long as the message that the boundary names exists*. The condition
is what edits cost: once that message is deleted, the boundary hides nothing, and the summary
is no longer needed. `Waiting` says of a message that is inserted and not committed that
nobody has read it and no boundary names it, so that its commit either is the last number
or makes it late (`CommitCovers`); `Held` says who has the lock. `LockIsHeld` says
that whoever waits for the row waits for a sender that has yet to commit or a worker that
has yet to answer, never for a holder that has gone: the part of `NobodyWaitsForEver` that
is a safety property.

**GraphRun.** `StopDecides` rests on `Attentive`: a stop that was accepted is still an
intent that the reader will find, or has decided the end. `GatesHold` is about one
shared key, and needs `Heard`: the decision that is in Redis, and the one on its way, are
those of the gate that waits. Two hypotheses speak of the graph: a node is in one stage,
and a gate has a stage to itself. Without the second the theorem is false, not only
unproved: the branch of a parallel node swallows the failure of a rejected gate, and two
gates side by side read each other's answers (section 7). The graph of the run has both.

**TaskJobs.** `JobsAreRight` needs to know that a version identifies a kind, its
parameters and a schedule (`Versioned`), because `sync_jobs` compares nothing else. That
is so until two PATCHes of a task overlap, hence the exception in the property. A row
that nobody has written since the synchronisation read it is the row it read
(`Current`), and where a task came from (`Lineage`) says which versions can be there. A
row without the parameter of its kind has no job, and takes away the one it had. In
`OneShotsAreBounded` the runs made, one for each of the two callers that may make
another (`May`: the task is not a one-shot now, or is enabled, or the run is about to be
made), and two for each PATCH not yet written add up to two plus what is excused
(`Budget`). A caller about to mark a task spends its own right to run by disabling it; a
PATCH, which may make a task another kind and back, gives both back, and is excused
twice.

**TaskRuns.** `RunsInv` follows a run from its creation to the handler's last step:
`Once` (a hook is performed while the row says that this is the first time), `Told` (a
verdict the handler holds agrees with what it committed, for runs nobody else wrote), and
`Balanced`, for `ExcessIsAccountedFor`: the slots in use are at most the counter plus the
releases that had none to give back.

**Gateway and SandboxPool.** A step of the gateway is one of the pool or leaves the pool
alone, so that the invariant of the pool is proved about the pool's own actions. `InUse`
is what `_docker_sem` is for: a container that is used, or waited for with the lock in
hand, is in Docker. `Bounded` counts a sandbox from the moment it is being made.
`CommandsAreApproved` rests on `YesWasSaid` (everything a call does after the question
comes after a yes) and `OneAnswer` (unless a decision was rolled back, what was said is
what the row says or is about to say).

**DocumentPipeline.** `RowsInv` says who may rely on the row: a request that has reset or
removed it holds it alone, and chunks that are flushed keep their document from being
deleted (`Anchored`, the foreign key). From this `DeletedLeavesNothing` follows, although
the worker stores vectors in the middle of its transaction. For `ReadyCanBeFound` what is
READY has a complete version, or somebody is under way to make one (`Searchable`), and
vectors that were stored and not committed are deleted only by who will renew them
(`Stored`).

Only model-checked: the violation `SentStaysSent`, and all liveness properties
(`AbandonedSlotsComeBack`, `EveryTaskIsSettled`, `EveryExecutionEnds`,
`EverySlotReturns`, `StopEndsTheRun`, `AnswersAreHeard`, `NobodyWaitsForEver`,
`RunsAreClosed`, `PoolComesToRest`, `EveryDocumentSettles`), which are out of the
prover's reach: they need fairness, and with it ENABLED.

## 7. Where the code and its words part

One disagreement is shown by a run and listed in `PROJECT.json`: `conv_sent`. The
attachment scan says it deletes what was never claimed by a message
(`E/worker/scheduler.py` 158); it asks for a key that nothing sets (202) and looks at
no message, so that two hours after its upload every attachment is gone.

The following were met while modelling. They have no run of their own; the models
contain the behaviour, and the properties are stated so as to leave it visible.

### Scheduler, bus and executions

- **A second release.** The cleanup releases a finished execution between the worker's
  commit and its `finally` block, and the handler releases it again; nothing in
  `release` (`scheduler.py` 242) notices, so the second DECR takes the unit of another
  execution and its team starts one more than its share, which line 3 says it
  prevents. `ClientsShareFairly` holds without the cleanup.
- **Errors of redis-py end a batch.** `_safe_xack` retries "on transient Redis errors"
  (`redis_streams.py` 114) but catches the builtin `ConnectionError` and `OSError`,
  from which `redis.exceptions` does not derive: the rest of the batch stays pending
  until the process restarts.
- **The stale job overwrites COMPLETED.** It selects PENDING rows (`E/worker/scheduler.py`
  278: "stuck in RUNNING/PENDING state"), waits for the worker's lock, and fails by id
  whatever the row has become (308).
- **A restart of the other worker fails what is queued.** Every worker process runs
  `recover_interrupted_executions`, which takes every PENDING row (241) for one that
  "will never complete" (224), although it waits in the stream of a worker that lives.
- **A failure nobody is told.** The recovery writes no event (251), so that the reader of
  the stream, who ends on a `complete` or `error` event (`src/README.md` 758), waits.
- **What runs can lose its slot.** A reaper or a deletion that ends an execution under its
  worker releases its slot, or leaves that to the cleanup, while the worker goes on and
  releases again (`worker/scheduler.py` 251, 308, `conversations/service.py` 68).
  `CleanupSparesTheLiving` names the exception, `CountersBalance` counts the second release.
- **A key that expires takes its unit with it.** `scheduler.py` 86 calls the TTL a
  crash recovery safety net, but the cleanup's SREM for an expired key (170)
  decrements nothing: the counters keep the unit for ever. The TTL counts from the
  acquire, the time in the queue included, and nothing renews it, so that it also runs out
  under an execution that waited long. `AbandonedSlotsComeBack` and `EverySlotReturns`
  name the exception.
- **Trimming removes tasks nobody has read.** `XADD MAXLEN` (`redis_streams.py` 36)
  trims by age, not by acknowledgement; the README's at-least-once delivery (542)
  holds for streams shorter than `STREAM_MAXLEN`. `NothingLost` names it.
- **COMPLETED overwritten by FAILED.** EXPIRE on the stream comes after the commit
  and inside the try (`execution_task.py` 189); when it raises, the except clause
  fails an execution that is over. A handler timeout at the same place does the
  same through `_force_fail_execution`. `KeepsContract` assumes both away.
- **A stop that expires in the queue.** The revoke intent lives for
  `_REVOKE_INTENT_TTL`; an execution that waits longer than that for a worker runs
  although its user was told it would stop. `StopIsHonored` is checked with intents
  that do not expire.
- **Runs without a slot.** `resume_execution` (`dispatch.py` 144) enqueues without
  acquiring, and a message retried after a failed commit runs after the `finally`
  block of its first attempt has released. `RunningHoldsASlot` excludes both.
- **Releases of what was never taken.** The reapers release for every row they
  failed, those that were refused with 429 included; the clamp hides it at zero,
  and takes another execution's unit otherwise.
- **A dead consumer in a live process.** An exception out of `_recover_pending` ends
  the consumer task while the health server keeps the process up. `StreamBus` has
  the phase `dead` for it; `EveryTaskIsSettled` is checked without Redis errors.

### Graphs and gates

- **A stop is an error like others.** The `ExecutionCancelled` of the poll beside a tool
  (`tool_loop.py` 269–316) is caught with the tool errors, although the comment at 65–67
  says the loop is cancelled; the branch of a parallel node and the item of a loop
  swallow it too. The execution ends as STOPPED all the same (`StopWins`), because the
  worker looks for itself.
- **The graph goes on after it was stopped.** Neither the generator of a graph
  (`graph_executor.py` 151) nor that of an agent cancels its task, and
  `_handle_cancellation` deletes the intent the task would have seen.
- **One decision key for all gates.** `approval_decision:{execution}`: a second click, or
  one that arrives late, answers the next gate, and parallel gates overwrite each
  other's. `GateHolds` is stated for one answer per gate, `AnswersAreHeard` for gates
  that follow each other.
- **A gate that is stopped raises AttributeError**, since the client returns `str` and
  the code calls `decode`; a gate that is rejected ends FAILED with the words
  "Execution was cancelled", or, inside a branch, ends nothing.

### Conversations

- **The first message and the second.** The orphan cleanup deletes a conversation whose
  only message it counted, although a second message is on its way, or was sent after
  an edit removed the first answer.
- **Claims are not given back.** Attachment keys are deleted before the transaction: a
  request that ends in 422, 429 or 500 has used them up; two requests may both read a
  key before either deletes it.
- **PATCH and compaction write the whole config.** A PATCH forgets the boundary unless
  the client sends it back, and a compaction that began before it restores the
  configuration it read. `NothingForgotten` holds because the summary is kept with the
  boundary; the summary also keeps what was deleted since.
- **A compaction forgets what it does not show.** The model sees the last 80 messages
  (`compaction.py` 127), the boundary hides all that were read (150): the older ones are
  neither in the context nor in the summary, which `compaction_router.py` 29 says replaces
  them. `NothingForgotten` says how many newer ones there must have been.
- **A message that commits late** has the `created_at` of its INSERT, and the boundary of a
  compaction that ran meanwhile may lie past it: it is hidden without having been read.
  `NothingForgotten` excludes it (`late`). A PATCH that sends back an *older* config than
  the one it replaces has the same effect; the model's PATCH keeps the boundary or drops it.
- **A lock for a whole run.** Automatic compaction flushes its UPDATE and commits with the
  answer; whoever sends to the conversation meanwhile waits for the model, up to the
  command timeout.
- **429 after the commit** leaves the message and a PENDING execution nobody runs.

### Scheduled tasks

- **Edits reach the jobs at the next restart.** `_notify_runner` (`scheduled_tasks/router.py`
  20) runs in the API, where there is no runner; only the boot of the worker and a poll
  of the platform (off by default) synchronise. `JobsFollowTheRows` speaks of what the
  last synchronisation read.
- **Two PATCHes that overlap share a version** (`service.py` 145), and the second one's
  schedule is never taken over.
- **Enabled without a job.** The API lets a row exist, or a PATCH make one, without the
  interval or the date of its kind; `_add_job` logs a warning and returns (`runner.py` 63,
  92, 111), and the task never fires. `JobsFollowTheRows` is stated for rows that have it.
  (An interval of 0 or a kind that does not exist is like a missing one; a PATCH to an
  interval of 0 is not modelled.)
- **A one-shot can run twice**, by its timer and the trigger stream; one whose time
  passes while the worker is down never runs and stays enabled.
- **A failed execution counts as a completed run.** `service.execute` turns most
  exceptions into a complete event, so the run is "completed" and the post-actions of a
  success are performed (`hooks.py` 31).
- **A Redis error after the commit** (`execution_task.py` 189) turns COMPLETED into FAILED
  after the pull request was merged.
- **Slots given back that nobody took.** Firings, like the sub-executions of a supervisor,
  are dispatched without acquire and released by the handler: `OveradmissionIsPaidFor`
  says that the limit is exceeded by no more than that.
- **Runs that stay "running"** after a crash, a timeout, the stale job, or a message that
  could not be added (`RunsAreClosed` names them).
- The GitHub source of a task raises AttributeError before it returns anything, and the
  stream category of the system index is not among those a worker accepts.

### Gateway

- **Approved calls answer an error.** In the branch of a call that comes with an
  `approved_id`, `error` is assigned only when the command raises (`router.py` 106–118);
  on success line 181 raises UnboundLocalError, the answer is HTTP 500, and the engine
  reports a tool error for a command that ran. Nothing runs it again.
- **Docker out of reach at first use.** `_get_docker` is called outside the `try` of
  `_create_sandbox` (`manager.py` 176): a call that is the first to need Docker, and cannot
  reach it, ends with an error instead of the fallback.
- **Commands that are given up go on.** When the time limit cuts a command off, its thread
  and what it runs in the container go on (`manager.py` 381); `NothingIsKilledInFlight` is
  about commands somebody waits for.
- **Approvals time out at start only.** `timeout_expired_approvals` is "called on startup
  and periodically" (`approval/service.py` 411); nothing calls it periodically, and a
  pending row counts against the limit of its agent until then.
- **A decision nobody hears.** It is published (196) before the commit, to whoever is
  subscribed at that moment; a decision that is rolled back was still acted on, and one
  that comes before the subscription leaves the call to its time limit.
- **More sandboxes than the maximum.** The limit is read before the wait for Docker
  (`PoolIsBounded` says by how many it is exceeded).
- **Locks that are deleted while they are held**, by `release` and by the end of a sweep:
  two commands of one execution may each make a container, of which the second fails on
  its name, and runs in the gateway, as every command does for the next minute.
- **Containers nobody knows**: creation or removal that takes too long, or is
  under way at a restart, leaves one until the next start (`LeaksHaveACause`).

### Documents

- **FAILED with chunks.** The handler's except clause commits the session it has flushed
  chunks into (`document_task.py` 81), so a retry doubles them; a crash after the upsert
  leaves vectors without chunks. `ReadyIsSearchable` asks for one complete version, not
  for the absence of others; overlapping reprocesses leave some behind as well.
- **A delete that loses to the worker** answers 500, because the chunks it did not load
  keep the row, but the object is gone: reprocessing fails from then on, and leaves the
  document in processing until its message is in the DLQ.
- **An upload whose message cannot be sent** stays in processing, and the retry offered to
  administrators always answers 400, because it looks for a `file_path` that no upload
  sets.
- **Counters of a collection** are read, changed and written, and drift.
- **The multi-stage handlers** ask the object store for a method it does not have; they
  are off by default.

## 8. What is not modelled

The components of section 1 with the status `not_modelled` in `PROJECT.json`, each
with its reason there. Most of the code is of that kind: routes that read or write
rows in one transaction, clients of model providers and of external servers,
prompts, front-ends, migrations. What they do does not depend on the order in which
processes act, and a model of it would repeat it.

Within the modelled components: the content of prompts, answers and events; A/B
assignment; metrics and logging; the retry loops that only repeat an idempotent call.
Of graphs, conditions and the number of a loop's items, the merging of branch states
(equal keys overwrite each other), subgraphs, and nodes with `requiresApproval`, which
nothing in the front-ends sets. Of conversations, search and the token estimates. Of
scheduled tasks, the sources and their triage, and in `TaskRuns` a final commit that fails
(`exec_rough` has it). Of the gateway, "approve and remember",
the permission patterns, the counters of the circuit breaker, the removal of resolved
approvals, the browser and network tools, and its shutdown. Of documents, search, the
counters of collections, and consolidation, which only flags. The supervisor dispatches
what it routes as any request does; what its fan-out does to the limits is what
`TaskRuns` says of firings.

PostgreSQL, Redis, Docker, Qdrant and the object store are modelled from how the code
uses them: transactions that read committed data, a row lock from the first UPDATE to
the end of the transaction, foreign keys without cascade, atomic commands and scripts,
consumer groups that hand an entry to one consumer and keep it pending until it is
acknowledged, containers with unique names. A failure of Redis that loses its data is
not modelled.

## 9. Running it

Each run of section 4 is a configuration `<Module>_<name>.cfg` for the module
`MC<Module>`, which gives the model values and the owner function:

    tlc -workers 2 -config FairScheduler_safety.cfg MCFairScheduler
    tlapm ExecutionProofs.tla

A property of a passing run has at least one mutant in `PROJECT.json`: an operator
marked "Mistake" in the module, which replaces a definition of the model the way a
plausible bug in the code would, and with which the property fails.
