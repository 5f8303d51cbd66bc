# A TLA+ development for Browser-use

Browser-use runs browser tasks for API clients: an orchestrator keeps tasks in a
store, dispatches them to a pool of browser nodes, and a node agent in each node
drives Chromium towards the task's goal. This directory holds TLA+ modules of the
parts of it in which several goroutines, processes or machines race each other,
TLC configurations that check them on small instances, and TLAPS proofs of the
properties that matter most.

Source references are `file:line` under `src/`; `runner.go` is
`src/internal/taskrunner/runner.go`, `service.go` is `src/internal/task/service.go`.

## 1. Inventory

| Part | State | Operations | Hard behaviour |
|---|---|---|---|
| Task runner (`taskrunner/runner.go`) | channel `queue`, set `enqueued`, map `running` of cancel functions, map `blockedDomains` | `Enqueue` (by requests, retry timers, reconciler), workers (`processTask`), `Cancel`, `reconcileQueuedOnce` | a mark under a mutex and a send outside of it; a bounded channel; retries decided on a copy; cancellation against report |
| Task store (`task/`) | one row per task: status, attempt, max_retries, next_retry_at, results | `Create`, `Start`, `Retry`, `Complete`, `Fail`, `Cancel`, `ListQueued` | each call is atomic and guarded by the status only; memory and Postgres must agree |
| Task API (`api/tasks.go`) | none | create (and wait), replay, cancel, read | several store calls per request, a client that goes away in between |
| Idempotent requests (`api/idempotency.go`, `idempotency/`) | entries and claims with expiry | `Get`, `Claim`, `Save`, `Release`, wait | lookup and claim are two calls; claims expire under their holder |
| Node leases (`lease/`) | per node: owner, token, expiry; a token counter | `Acquire`, `Renew`, `Release` (memory, Redis) | expiry during an execution; late calls of former holders; two Redis commands per acquire |
| Node registry and node API (`pool/registry.go`, `api/nodes.go`) | per node: state, heartbeat and lease times | `Register`, `Heartbeat`, `SetState`; drain, activate, recycle | five writers (runner, keepalive, agents, operator, pool manager) with last-writer-wins rules |
| Warm-pool manager (`pool/manager.go`, `local_docker_provider.go`) | map `warming` | `reconcile`: reap, prune, scale down, provision | decides on a snapshot; counters that lag the registry |
| Node client (`nodeclient/`) | none | `Execute` over gRPC | error classification decides about retries |
| Node agent (`cmd/node-agent/main.go`, `executor_ops.go`, `grpc_server.go`) | executor mutex, trace of the run | `ExecuteWithActions`, register and heartbeat loop | planner rounds with five counters; executions queue on one mutex |
| Planner (`cmd/node-agent/planner.go`) | cached plan of a run | `PlanStep`, fallbacks | stale plan against a moving page |
| CDP client (`cdp/client.go`) | connection, request counter | `Call` and waits built on it | late responses on one connection |
| Humanized input, blocker detection, egress policy | random generator, cursor | pure computations | numeric edges |
| Sessions (`session/`, `api/sessions.go`) | rows | `Create`, `Delete`, `Get` | a session deleted while a task is created for it |
| Artifacts, API security, dashboard, metrics | files, rate buckets | independent requests | window boundaries |

How they interact: the API creates a task row and calls `Enqueue`; a worker takes the
task, starts an attempt in the store, leases a node that the registry lists as ready,
starts a keepalive goroutine and calls the node agent over gRPC; the result goes to the
store as `Complete`, `Retry` or `Fail`. Agents register and heartbeat over HTTP. The
pool manager reads the registry and starts and removes containers. A cancel request
reads the store, signals the worker and writes the store.

What makes each part correct:

- Runner: every mark is backed by exactly one holder; one attempt at a time and at most
  `MaxRetries + 1`; canceled and completed are final; a cancellation reaches the
  execution under way; every task ends; a restart loses no queued task.
- Leases: at most one execution per node while keepalives are prompt; a late call of a
  former holder changes nothing; a result after the loss of the lease is refused
  (the README's promise).
- Registry: a drained node is not leased; a free node becomes ready again.
- Pool manager: it never has more nodes under way than it wants; the pool gets back to
  its target; no container is forgotten and no dead node is revived by its heartbeats.
- Idempotency: one resource per key; concurrent requests get one answer; a claim is
  only released by its holder.
- Node agent: the goal loop ends within its bounds and says why; the answer accounts for
  every action that was carried out; every request gets the browser in the end.
- Task and session handlers: what a client is told stays true; no task gets a session
  that was gone before it was asked for.

`PROJECT.json` lists every component with what is and is not modelled, and the hazards
with their lines.

## 2. Modules

| Modules | Abstract specification | Runs | Theorems |
|---|---|---|---|
| `TaskRunner`, `MCTaskRunner`, `TaskRunner_proofs`, `TaskRunner_refinement` | `TaskLifecycle` | three passing, one violation | types, marks, attempts, finality, signals; with room in the channel, cancel answers and the refinement |
| `NodeLease` (leases, registry, keepalive, drain), `MCNodeLease`, `NodeLease_proofs` | - | one passing, one violation | types, mutual exclusion while renewals succeed, prompt keepalives keep the lease, late calls are harmless, drained nodes |
| `Idempotency`, `MCIdempotency`, `Idempotency_proofs` | - | one passing, one violation | types, claims exclude, claims end, answered retries replay |
| `PoolManager` (manager, registry, agents, workers, operators), `MCPoolManager`, `PoolManager_proofs` | - | two passing | types, bound on nodes under way, dead nodes, no container forgotten |
| `NodeAgent` (executor, goal loop, input, orchestrator's call), `MCNodeAgent`, `NodeAgent_proofs`, `NodeAgent_loops` | - | one passing | types and limits, reported effects, answers, single clicks, screenshots; cut loops, stale snapshots, plans, runs that end |
| `ApiServer` (tasks, replays, sessions, and what the runner writes), `MCApiServer`, `ApiServer_proofs` | - | one passing | types, answers stand, sessions behind tasks, chains truthful |

How they fit together. `TaskRunner` implements `TaskLifecycle` (checked as a property, and proved, with a
refinement mapping that is the identity on `status` and `attempt`), as long as the channel has
room. `ApiServer` cannot take that for granted: it has its own, smaller runner, reduced to what
its goroutines write to the task store (`Start` to `Cancel`), the refusals of a full channel
and calls that fail included. `NodeLease` refines the
step `AcquireNode` to `Finish` of a worker. `PoolManager` writes the same registry as
`NodeLease`, with the workers reduced to what they write into it: `Mark` after a listing that
may be old (`List`), `Release`, and the heartbeat of a keepalive that outlives its worker
(`StrayBeat`).
`NodeAgent` is what happens inside `ExecutionEnds`.

The parts that are proved about use no RECURSIVE operator, and constants carry named
assumptions.

## 3. The task runner: `TaskRunner`

### State

| Variable | Code |
|---|---|
| `status`, `attempt`, `due` | `Task.Status`, `Task.Attempt`, and whether `NextRetryAt` is nil or has passed; `"absent"` before Create |
| `queue`, `enqueued`, `running`, `cooldown` | `Runner.queue`, `.enqueued`, `.running`, `.blockedDomains`; the cancel function registered for a task is one closure per execution, so `running` holds the number of the attempt whose context it cancels |
| `pc`, `job`, `tries`, `stopping`, `outcome` | the local state of a worker in `processTask`: where it is, the task, the attempt number of the copy that `Start` returned, whether its context has been cancelled, what the attempt will be reported as |
| `phase`, `refusals`, `batch`, `picked` | the local state of the goroutines that call `Enqueue`: one per create request, one timer per retried attempt (`enqueueAfterDelay`), the reconciler with the rest of its list |
| `cancel`, `crashes` | the cancel request for a task; restarts so far |
| `cleared` | history: the workers that execute an attempt whose registration another worker has removed |

### Actions

`Submit` is the create handler up to `Enqueue`. `Mark`, `Send` or `ContextDone`, and
`Unmark` are the steps of `Enqueue` (runner.go:124-148): the critical section on
`enqueueM`, the `select`, and `clearEnqueued` on the error returns. What the caller does
with the result is part of the same step (`Accepted`, `Refused`, `Dropped`); `Refuse` is
the `Fail` that the handler and the timer store for a refused task. `TimerFires` and
`Reconcile` start the other two callers.

A worker goes through `Take`, `ClearEnqueued`, `Start` (which includes the cooldown check),
`AcquireNode` or `NoNode`, `ExecutionEnds` or `ExecutionBlocked`, `Report`, `Finish`.
`Report` is `Complete`, or `handleExecutionFailureWithEvidence` with `Retry` and the
start of the timer, or `Fail`. `Finish` runs the deferred functions.
`CancelRead`, `CancelSignal` and `CancelStore` are the three steps of `cancelTask`.
`Crash` ends the process and starts it again: only the store survives, as with Postgres.

Merged steps: the `Get` before `Start` reads what `Start` checks again under its own
guard, so the two are one action; the cooldown check follows `Start` without another
goroutine being able to notice the difference. The list of the reconciler is a set whose
members are taken in any order, which includes the order by creation time of the code.

Left out: errors of the store itself (a lost database connection), whose handling is
logging and another `Fail`; titles, traces, screenshots; the length of delays. The
domain cooldown may end at any time. The loss of a node lease is one of the retriable
errors of an execution; leases themselves are section 4.

### Properties

- `QueueMarksExact` - a mark in `enqueued` stands for exactly one goroutine between mark
  and send, one entry of the channel, or one worker about to remove it.
- `OneAttemptAtATime`, `AttemptsBounded` - the store's guards serialise attempts although
  a running task may be enqueued again, and the retry decision on a stale copy never
  gives an extra attempt.
- `CanceledIsFinal`, `CompletedNeverRerun` - action properties of the whole program. The
  second one allows completed to become failed: `Fail` refuses only canceled tasks and a
  refused timer calls it without looking (runner.go:511).
- `SignalReachesExecution` - a cancel request that found the task running stops the
  execution under way at its signal, whichever attempt that is by then. The one exception
  is the hazard of the registry: `clearRunningCancel` goes by task, so a worker that has
  scheduled a retry and is slow to return removes the registration of the next attempt, and
  that one runs to its end although its task is canceled. A signal that comes while the
  worker waits for a node, or a request that read the task as queued, stops nothing
  either: the attempt executes and its report is refused (`CanceledIsFinal`).
- `CancelAnswerStands` - 200 and 409 stay true. It needs room in the channel: a task
  that was failed by a refusal while it runs may be put back into the queue by `Retry`.
- `LifecycleSpec` - with room in the channel for every task, the runner implements
  `TaskLifecycle`, the state machine the API documents. `TaskLifecycle` is a promise and
  not a translation; its guards are stricter than those of the store.
- `EveryTaskSettles` - liveness: every task ends, restarts included. The one exception is
  stated in it (`Stranded`): the task of an attempt that dies with the process stays
  running, for `ListQueued` does not return it and nothing else looks for it. Nothing but
  a crash, and no other task, is excepted.

### Runs

| Run | Instance | Shows |
|---|---|---|
| `task_runner_tight` | 2 workers, 2 tasks, channel of 1, two tries per timer; contexts of timers and reconciler may end | the safety of marks, attempts and completion when refusals are common (3.1 million states) |
| `task_runner_roomy` | 2 workers, channel of 2, a cancel request for the task that is retried | cancellation and the refinement (2 million states) |
| `task_runner_live` | 1 worker, channel of 1, one crash at any step | `EveryTaskSettles` (627 thousand states) |
| `task_runner_refused` | violation | a task refused with 503 and failed ends completed |

A cancel request that loses the race against the report of the execution it has just
stopped (api/tasks.go:163 comes before 167) is answered 409 with the task failed;
`CancelAnswerStands` allows this, and no document says which of the two wins.

Bounds. Two tasks of one domain compete for a channel of one entry, so every call can be
refused; one task may be retried once, so that first and last attempts, timers and
requests of one task coexist; the other one never. The code tries ten times in
`enqueueAfterDelay`; one or two tries meet every branch. The default of
`ORCHESTRATOR_TASK_WORKERS` is one; two workers are needed for two attempts to meet.
Workers are interchangeable and reduced by symmetry in the safety runs, never in
liveness runs. `Impatient` bounds whose context may end in the `select`.
Deadlock is not checked: when every task has ended the model may rest.

Fairness. Goroutines are scheduled (weak fairness of each caller of `Enqueue` and each
worker), timers fire and the reconciler's ticker ticks, and the node wait and the
execution are bounded by timeouts (`NodeWaitTimeout`, the node's execute timeout), so a
worker in `acquire` or `execute` takes a step. Nothing is assumed of clients, cancel
requests, crashes or the end of cooldowns.

### What is proved (`TaskRunner_proofs`)

For any sets of tasks, workers and domains, any retry limits, channel capacity and number of
crashes, from `ConstantsAssumption` alone:

| Theorem | Statement |
|---|---|
| `TypeCorrect` | `Spec => [](TypeOK /\ Control)` |
| `MarksExact` | `Spec => []QueueMarksExact` |
| `OneAttempt`, `BoundedAttempts` | `Spec => []OneAttemptAtATime`, `Spec => []AttemptsBounded` |
| `CanceledForGood`, `CompletedForGood` | `Spec => CanceledIsFinal`, `Spec => CompletedNeverRerun` |
| `SignalReaches` | `Spec => SignalReachesExecution` |

None of these invariants is inductive alone. `Control` ties what a goroutine holds to
where it is. `AttemptInv` says that during an attempt nobody else can have queued or
completed the task (`AttemptOwned`), which makes the worker's copy of the attempt number
the store's, and that a queued task has an attempt left (`AttemptLeft`); the guard of
`Start` then excludes a second worker and a further attempt. `FreshInv` says that a
request enqueues once and that the timer of attempt k is armed once, at the end of
attempt k: without it a timer could be armed while an earlier life of it is still
inside `Enqueue`, and its mark would be forgotten. `QueueMarksExact` is inductive
relative to these. `RegistryExact` says that an execution is registered under its task unless a
late clear came in between; it needs `OneAttemptAtATime`, or a second execution would
overwrite the entry, and `SignalReachesExecution` follows from it at each signal. The other
two action properties follow from the guards of the store at every step plus `AttemptOwned`.

Two more theorems need room in the channel (`TaskRunner_refinement`). They assume `Roomy`:
the tasks are finitely many, and no more than the channel holds. Without it they are
false, as the run `task_runner_refused` shows for one of the reasons.

| Theorem | Statement |
|---|---|
| `AnswersStand` | `Roomy`: `Spec => []CancelAnswerStands` |
| `ImplementsLifecycle` | `Roomy`: `Spec => LifecycleSpec` |

The argument: by `QueueMarksExact` the tasks in the channel are distinct and none of them is
the one being sent, so the channel has room at every `Send` (`HasRoom`); hence no caller is
refused (`NoRefusal`), a task is failed only by the report of its own attempt, and the store
has the task of an attempt running, unless it was canceled (`RunningHeld`). `CancelExact` then
says what a cancel request that has been answered knows of its task, and each
action maps to one step of `TaskLifecycle` or to a stutter (`LifecycleStep`).

Model-checked only: `EveryTaskSettles` (fairness and ENABLED are out of the prover's reach).

## 4. Node leases: `NodeLease`

How a worker gets a node to itself: the two lease managers, the keepalive goroutine, and
the registry as far as the runner, the agents and an operator write it. The composition
with the runner of section 3 is by the worker's attempt: `AcquireNode` to `Finish` there
is `List` to `Ready` here, and "lease lost" is one of the execution failures there.

### State

| Variable | Code |
|---|---|
| `memory` | which lease manager the process was started with (`cmd/orchestrator/main.go:57-74`) |
| `lease`, `seq` | `InMemoryManager.entries` or the hold keys of Redis, with the ticks left instead of a time; the token counter (one for all nodes in memory, one per node in Redis) |
| `reg` | `Node.State` in the registry |
| `pc`, `snap`, `node`, `token` | the locals of a worker between `acquireNode` and `releaseNode` |
| `keeper`, `timer`, `due` | the keepalive goroutine (`startLeaseKeepalive`), its ticker and the tick waiting in the ticker's channel |
| `lost` | `lostLease` of `processTask`, and with it the cancelled context |
| `strays` | keepalives whose context is cancelled and which have a call left to make: the cancel function does not wait for the goroutine |
| `fails`, `age`, `drain` | for the properties: errors of `Renew` in a row, ticks since the last success, whether the node was drained while nobody had it at hand |

### Actions

`List` takes the ready nodes of the registry; `Acquire` is the critical section of the
manager in memory; `Draw` and `Claim` are INCR and SETNX of Redis, two commands between
which anything may happen, and `AcquireFails` an error of either, also one that comes
after the command took effect. `Mark` is the heartbeat that marks the node as leased and
the start of the keepalive. `Renew`, `RenewFails` and `Beat` are one round of the
keepalive. `Stopped` is a cancel request for the task, or a shutdown: it ends the context of
the execution, and the keepalive with it, while the worker still is at the node.
`ExecutionEnds`, `Report`, `Release` and `Ready` end the attempt. `Register`,
`AgentBeat` and `SetState` are the agents and the operator. `Tick` is the clock: leases
age, tickers fire; a tick meets a full channel and is dropped, as in Go. At the instant
of expiry `Acquire` in memory already succeeds and `Renew` still does; a Redis key is
simply gone.

Left out: the restart of the orchestrator, the states warming and dead (written by the
pool manager: see section 6), and the task itself.

### Properties

- `FreshExecutorIsAlone` - two executions share a node only when one of them has gone a
  whole TTL without a successful `Acquire` or `Renew`. Nothing is assumed of the
  keepalives, so it covers the ones that are late.
- `PromptKeepsLease` - the other half: a keepalive that starts at once and answers each
  tick before the next (`PromptWorkers`) holds its lease until it is stopped, through
  `MaxFailures` errors of the store in a row, and never finds it lost. After a cancel
  request or a shutdown has stopped it, the lease runs out while the execution returns.
- `LeaseLostOnlyByExpiry` - all workers of a runner share the owner id, so only the token
  keeps a late `Renew` or `Release` of a former holder away from the holder's lease.
- `DrainedIdleStaysDrained` - the last-writer-wins rules of the registry: agents go on
  saying ready. A node that is listed or leased when it is drained is another
  matter: `Heartbeat(leased)` makes it leased, and then ready, again.
- `LosersStop` - an execution whose lease is gone is stopped, if nothing else stopped it before.
- `StaleResultsRefused` is what README.md:153 of the repository promises, and fails.

### Runs

| Run | Instance | Shows |
|---|---|---|
| `node_lease` | 1 node, 2 workers with one owner id, TTL 3, interval 1, one error in a row, `w1` prompt; 3 tokens | all of the above (613 thousand states) |
| `node_lease_stale` | violation | an execution that outlived its lease completes its task |

Bounds. TTL 3 and interval 1 are the ratio of the code (a third of the TTL); with it one
error in a row leaves time and two do not. Three tokens let a node change hands twice,
so that a stray call of the first holder meets a later one. One node is enough for TLC,
because workers at different nodes touch nothing in common but the counter in
memory; the proofs are for any number. One worker is prompt and the other is not, so both
kinds of loss occur.

Fairness. Time passes, a worker that has acquired goes on, its keepalive is scheduled,
and an execution whose context has been cancelled returns (the gRPC call does); the last
three exclude each other, so one weak fairness condition per worker says it. Other
executions may last for ever. `LosersStop` needs no fairness of agents or operators.

### What is proved (`NodeLease_proofs`)

For any sets of nodes and workers, any TTL and interval, from `LeaseAssumption`, and for
prompt keepalives `KeepaliveAssumption` (`Period * (MaxFailures + 1) < TTL`, which
a third of the TTL satisfies for one error):

| Theorem | Statement |
|---|---|
| `TypeCorrect` | `Spec => []TypeOK`: the types, different tokens at one node, no keepalive and no lost lease without an execution |
| `FreshExecutorAlone` | `Spec => []FreshExecutorIsAlone` |
| `PromptLeaseKept` | `Spec => []PromptKeepsLease` |
| `LeaseOnlyExpires` | `Spec => LeaseLostOnlyByExpiry` |
| `DrainedStays` | `Spec => []DrainedIdleStaysDrained` |

`TypeInv` adds to `TypeOK` that no token in use exceeds the counter, so that a new one differs
from all of them; different tokens are why a late call cannot match: from them lemma `Writes` shows that a step other
than `Tick` leaves an unexpired lease alone, extends it, or is its holder's `Release`.
`Fresh` says that a worker whose last success is less than a TTL ago owns its lease, with
at least the rest of the TTL left; two such workers would hold the same token.
`Prompt` bounds what a prompt keepalive that still runs has used up of its lease (`Spent`): an interval
for each error and what has passed of the current one, less than a TTL by the
assumption. `LosersStop` is model-checked only.

## 5. Idempotent requests: `Idempotency`

`handleIdempotentRequest` (`idempotency.go`) wraps the handlers that create sessions,
tasks and replays. The module follows the requests that carry one key in one scope;
keys do not interact, so one is enough.

### State

| Variable | Code |
|---|---|
| `memory` | which store the process uses: `InMemoryStore` or `RedisStore` (chosen in `main.go`) |
| `entry`, `claim` | the key's `memoryItem` and `claimItem`, or its `:resp:` and `:lock:` keys, as the request that wrote them |
| `pc`, `status` | where a request's handler is; the answer of its own execution: `ok` (2xx), `refused` (4xx), `failed` (5xx) |
| `expired`, `forgotten`, `promised`, `known` | history: whose claim ran out, whose answer was not kept, whether an answer was given that stands, which requests were sent after that |

### Actions

`Send` is the client's. `Replay`, `Miss` and `GetFails` are the three ways out of the lookup
(lines 30-36), `Claim` and `ClaimFails` those of line 39, `Replay` and `WaitEnds` those of
`waitForIdempotentEntry`; a poll that finds nothing changes nothing. `Create` and
`ExecutionEnds` are the wrapped handler: the resource is stored, then the answer is
decided, and a task that cannot be queued is a 5xx for a task that exists. `Save` and
`SaveFails` (69-71), `Answer` (72) and the deferred `Release` and `ReleaseFails` follow in the
code's order. A call to Redis may fail before or after taking effect: `ClaimFails` may leave
a claim that nobody releases. `ClaimExpires` and `EntryExpires` may happen at any
time, which covers every lock TTL and every duration of an execution. `Crash` ends
the requests in flight and empties the store if it is in memory.

### Properties

- `TypeOK`: types; the entry is the answer below 500 of an execution.
- `OverlapOnlyByExpiry`: two requests are between claim and release together only if a claim
  expired under one of them. It takes three requests to break it: a slow one whose claim
  expired, the one that claimed next, and the one that the slow one's release would let in.
- `ClaimsHaveHolders`: in memory a claim does not outlive its handler, so that no retry is
  refused with 409 for the rest of the TTL.
- `AnsweredRetriesReplay`: a request sent after the key was answered below 500 does not
  execute, unless the answer was not saved, or has expired or been lost since.
- `WaitersAreAnswered`: a request that waits for another's answer is answered itself, though
  that answer may be a 5xx, which is never saved.

### Runs

| Run | Instance | Shows |
|---|---|---|
| `idempotency` | 3 requests, both stores, all faults | all of the above (439 thousand states) |
| `idempotency_duplicate` | 2 requests, no faults; violation | both report a resource of their own: the second misses the entry before the first has saved it, and claims after the first has released |

Three requests are what `OverlapOnlyByExpiry` needs, and the pairwise properties need
two; the proofs are for any number. `CHECK_DEADLOCK FALSE`: the requests are finitely many
and the system is done when they are. Fairness is that of the timer of a wait and of nothing
else: executions, claims and expiry may take for ever.

Two more consequences of the code are in the model and contradict no document. A claim
lasts 30 s by default and a synchronous task up to 90 s or longer, so that a retry
after a client's own timeout may execute a second time (`OverlapOnlyByExpiry` says that
this is the only way to overlap). And a failing session or task store answers 400,
which is below 500 and therefore remembered: all retries get it until the entry expires.

### What is proved (`Idempotency_proofs`)

For any set of requests, any faults and both stores, from `RequestsAssumption`:

| Theorem | Statement |
|---|---|
| `TypeCorrect` | `Spec => []TypeOK` |
| `ClaimsExclude` | `Spec => []OverlapOnlyByExpiry` |
| `ClaimsEnd` | `Spec => []ClaimsHaveHolders` |
| `RetriesReplay` | `Spec => []AnsweredRetriesReplay` |

The inductive invariant `IInv` adds that whoever executes and has not lost its claim is the
claim's owner (`ClaimInv`; two owners cannot be), that an answer that was saved, or
promised, is still in the store (`EntryInv`), and that a request sent after a promise
is at the lookup or done (`KnownInv`), since the lookup finds that entry. `WaitersAreAnswered`
is model-checked only.

## 6. The warm pool: `PoolManager`

The manager (`pool/manager.go`) with the other four writers of the registry: agents,
workers, operators and the process itself when it restarts.

### State

| Variable | Code |
|---|---|
| `box` | the container of a node and its agent: started, slow to register, beating, hung (up, but its heartbeats do not get through), removed |
| `reg`, `beat`, `boot` | `Node.State`, ticks since `Node.LastHeartbeat` and since `Node.BootedAt` |
| `use`, `listed`, `strays` | whether a worker is at the node; whether some worker has it in a list of ready nodes; whether a keepalive that was stopped has renewed and not said so yet |
| `warming` | `Manager.warming`, as the age of an entry |
| `stale`, `late`, `surplus`, `needed`, `victim`, `minted`, `since` | the locals of one pass of `reconcile`: what it has decided on its list and not done yet |
| `request` | a recycle request between its three steps |
| `lost`, `faults` | history: containers that nothing in memory knows of any more; the bound on failures |

### Actions

`Reconcile` lists the nodes and takes every decision of the pass at once, as the code does
on its snapshot. `Reap` and `Bury` are `DestroyNode` and the heartbeat with `dead` for a
node that was found stale or surplus, `ReapLate` is the removal of a warming node that
never registered, `Provision` and `SetWarming` are `docker run` and the entry in the map.
`docker run` fails without a container (`ProvisionFails`) or with one that nobody removes and
whose id is dropped with the error (`ProvisionFailsLate`); its agent registers all the same.
Between any two of them agents register and beat, workers take and give back nodes,
operators act.

A worker lists the ready nodes (`List`), and until it goes on without one (`Unlist`) it may
lease and mark it (`Mark`), whatever has become of it since; while it is at the node its
keepalive does the same. `Release` does not wait for the keepalive, whose last heartbeat
may come after it (`StrayBeat`). `Drain`, `Activate`, and `Recycle` with `RecycleDestroys` and
`RecycleBuries` are the handlers of `api/nodes.go`. `Restart` empties what is in memory.

An age counts up to one more than the limit it is compared with. Ids are never
drawn twice in the code; here an id whose container is gone and whose node is dead or
unknown does duty for the next (`Fresh`), so that the pool can turn over for ever. The
registry entry of the old node, which the code keeps, is given up with it.

### Properties

- `WarmingBounded` - warming nodes, the one being started and those still to start are
  never more than the target, although the two counters behind it (ready in the registry,
  warming in the manager) lag each other.
- `NoContainerForgotten` - a container that is up is known to the registry or to the manager;
  the exceptions are left by a restart, by a failed removal of a late node, and by a
  `docker run` that fails after it has started the container.
- `DeadStaysDead` - a dead node's own heartbeats do not revive it. Its agent's start and an
  operator do, and so do workers: one that was at it when it died, one that had it in its
  list, and one that is gone, by the last heartbeat of its keepalive.
- `LeakedContainersGo` - again and again no dead node has a container: one left behind by a
  failed removal is removed in the end, because dead nodes over the maximal age are reaped at
  every pass.
- `PoolRefills` - the pool reaches its target again and again.
- `SilentNodesGo` - a ready node that has fallen silent is not offered for ever.

### Runs

| Run | Instance | Shows |
|---|---|---|
| `pool_manager` | 2 managed ids, target 1, any 2 faults | the safety properties |
| `pool_manager_live` | 2 managed ids, target 1, any fault | the liveness properties |

Bounds. With a target of one and two ids a node can be replaced while the old one is still
up, which is where counters, marks and containers part. A static node would only add to the
number of ready ones; it is left to the proofs. A fault is a container or agent that hangs, a
docker call that fails or takes long, a keepalive that outlives its worker, an operator's
request, or a restart; two meet each other. Both limits are one tick, so that an age is below, at and above its limit.

Fairness. The manager's ticker goes on and docker calls return, recycle requests go on,
agents that do not hang register and beat, what workers have begun at a node goes on (an
execution is bounded by its timeout, a list by the loop over it, a stray heartbeat is
one call), and the clock is not stopped by any of them (strong fairness of
`Tick`, which waits for agents that are on time). Nothing is assumed of hung agents,
operators or faults.

What the model shows besides, and no document denies: a hung node that workers keep
leasing is refreshed by their own heartbeats and never found stale (`SilentNodesGo` is for
nodes that nobody takes); `setWarming` stores the time at which the pass began, so that a
slow `docker run` makes the new node late at once (manager.go:147); a late warming node
that cannot be removed is forgotten, and so is the container of a `docker run` that failed late,
and both may register later; a worker with an old list or a late keepalive turns a dead node
back to leased, and its release to ready, until it is found stale again; one that registers after the
list was made is destroyed without being marked dead until its heartbeat is stale; dead
nodes over the maximal age are removed again at every pass, for the registry never
shrinks; a static node that was recycled stays dead; an agent registers once, and after
a restart of the orchestrator its heartbeats meet 404 for ever (`Restart`).

### What is proved (`PoolManager_proofs`)

For any number of managed and static nodes, any target, limits and number of faults, from
`PoolAssumption`:

| Theorem | Statement |
|---|---|
| `TypeCorrect` | `Spec => []TypeOK` |
| `DeadStayDead` | `Spec => DeadStaysDead` |
| `WarmingIsBounded` | `Spec => []WarmingBounded` |
| `NoneForgotten` | `Spec => []NoContainerForgotten` |

`TypeOK` is inductive; it carries what the others need of the pass (one node minted and
one victim at a time, only managed nodes warming). `WarmingBounded` is inductive relative
to it: `Reconcile` establishes it from the arithmetic of `Missing`, `Provision` and `SetWarming`
move one node from one summand to the next, and everything else only takes away. For
`NoContainerForgotten` the case that matters is `Reconcile`, where an entry of `warming` may go
only because the node is known or because it is now in `late`. Liveness is model-checked.

## 7. The node agent: `NodeAgent`

The executor of a node (`src/cmd/node-agent`) from the orchestrator's gRPC call
(`nodeclient/grpc_client.go`) to the CDP calls (`cdp/client.go`).

### State

| Variable | Code |
|---|---|
| `client`, `lapsed`, `rpc`, `state`, `cancelled`, `answer` | the orchestrator's call: waiting, answered or given up; (history) whether its lease of the node ran out meanwhile; whether it is the execution or the second call for a screenshot; how far the agent is; whether the cancellation has arrived; the reply |
| `holder`, `conn` | `browserExecutor.mu` and the CDP connection dialled under it |
| `page`, `driver` | the browser's page, and (history) whose action changed it last |
| `at`, `run`, `act` | where `ExecuteWithActions` is, its locals (trace, snapshot, counters, last action, stop reason) and the action being applied |
| `faults` | the bound on failures |

`run.looks`, `run.plans`, `run.started` and `answer.did` are histories for the properties.

### Actions

The frame is `Dial`, `Navigate`, `Render`, `Look` and `Recheck` (`detectBlocker`), then the goal
loop or the script, again `Look`, and `Report`. A round of the goal loop is `Plan` (a plan
made anew, read at the place that the trace has reached: `staticStepPlanner.PlanStep`), the
action, `Look`, and `Refresh` or `RefreshFails`. An action is `Await` (the selector), the
human way event by event (`HumanClick`, `HumanType`, `HumanScroll`), which falls back to the
plain one when it fails otherwise than by its context (`FallBack`), `Confirm` and `Check` (the
egress check of the page it led to). `Expire` is the execute timeout, `GiveUp` and
`CancelArrives` are a client that has left, because its call timed out, its task was cancelled
or its keepalive learned that the lease is lost. `Send` needs the node's lease (`Over`): the
requests before it have come back or were given up, or their leases have run out while they
go on (`Lapse`, the case that `NodeLease` leads to), `Stir` is a page that moves by itself. A CDP call
may fail with the connection intact or broken, and an event whose response was lost has
had its effect.

Pages are values of four sorts: plain, refused by the egress policy, a challenge that may
pass, a wall. What a planner answers is any plan of a small set; it may change its mind
in every round. Selectors, texts, prompts, JavaScript, curves and pauses are left out.
The planners never return an error, because each falls back to the next one and the last
one is a pure function, so the loop's branches for that are not taken.

### Properties

- `LoopsAreCut` - what README.md:573 of the repository promises: a run that repeats an action
  or sees the same page is cut, within `MaxSteps` rounds.
- `EffectsReported` - an answer with a trace has every action that was begun.
- `AnswersSayHow` - a failed step is the last of a failed answer, and a run that ended well
  has the right reason to stop.
- `StaleSnapshotCounted` - the page that a planner sees is behind by no more actions than
  refreshes have failed.
- `ActedOnce` - falling back from the human to the plain way does not click twice, and what
  was typed is the text once.
- `PlanFollowed` - a planner that sticks to its plan has it carried out without a gap.
- `ShotIsOwn` - the screenshot of an answer is of the request's own page, if the request kept
  its lease and was not given up, and unless one that did not came in between. A request
  that has lost its lease may be answered with the page of the next one.
- `AllAnswered` - again and again nobody waits: every request gets through the lock, also
  behind one that was abandoned.

### Run

`node_agent`: a request with a goal and one with a script, plans of up to three actions of
every kind, pages of every sort, humanized input, three rounds, one failed refresh, two
repetitions, and any two faults (1.6 million states). Two requests are enough for one to be
given up, or to lose its lease, while the other waits; the third round is where repetitions of two are cut; two
faults let a refresh fail twice or a call fail after the connection broke.
`CHECK_DEADLOCK FALSE`: two requests are all there are. Fairness: the goroutine that holds the
lock goes on, since every wait in it is bounded by the execute timeout or its own, and a
mutex that is free is taken by somebody who waits. Clients promise nothing.

Where the code and a document part: README.md:154 of the repository says that every action
step is persisted as it executes and that a partial trace survives a crash of the node. The
trace is a local of `ExecuteWithActions` and reaches the store with the answer only, and an
answer that is a plain error does not have it: one refresh too many that fails
(main.go:376-378), or a page that cannot be read at the end (main.go:440-451), loses the trace of
everything that was done (`ReplyError`). That is why `EffectsReported` is about answers with a
trace; without its condition on `kind` TLC refutes it.

What the model shows besides, and no document denies: a replan by a model that lists only
the remaining steps is read at the place the trace has reached, and loses as many of them
(`PlanFollowed` is for plans that stay); a connection that broke is not dialled again before the run is
over, so the tolerance for failed refreshes only helps when it is intact.

### What is proved (`NodeAgent_proofs`, `NodeAgent_loops`)

For any number of requests, any scripts, plans, templates and pages, any limits of the goal
loop and any number of faults, with and without a humanizer, from `AgentAssumption`:

| Theorem | Statement |
|---|---|
| `AgentInvariant`, `LoopInvariant` | `Spec => []AgentInv`, `Spec => [](AgentInv /\ LoopInv)` |
| `TypesAndLimits` | `Spec => []TypeOK` |
| `AllEffectsReported`, `AllAnswersSayHow` | `Spec => []EffectsReported`, `Spec => []AnswersSayHow` |
| `EachActedOnce` | `Spec => []ActedOnce` |
| `EachShotIsOwn` | `Spec => []ShotIsOwn` |
| `AllLoopsAreCut`, `StaleSnapshotsCounted` | `Spec => []LoopsAreCut`, `Spec => []StaleSnapshotCounted` |
| `EachPlanFollowed` | `Spec => []PlanFollowed` |
| `EveryRunGetsShorter` | as long as one request holds the lock, `StepsLeft` is a number that no step raises and every step of the execution lowers |

The 26 actions of an execution are first reduced to a few kinds (`ExecutionKinds`): it
replies, with one of five kinds of answers (`Errs`, `Shows`, `Blocks`, `Reports`, `Fails`),
or it goes on: nothing new (`Walk`), the first look (`Observed`), the next round (`Round`), a
reason to stop (`Halt`), an action that begins or is done (`BegunPlanned`, `BegunScripted`,
`Done`). Each kind says what it does to the locals; the invariants are then
proved kind by kind, and only the attempts at one action go back to the actions themselves.

None of the properties is inductive. What they need:

- `CallInv`: one call that has its lease is outstanding at a time, the request that runs is
  the one that holds the lock, and only requests that are awaited or given up wait for it.
- `Control`: where the run is, and what its locals say of it (a script has no goal, a run that
  has not looked at the page has empty locals, a goal's run that finishes has its reason).
- `Traced`: outside of an action the trace lists exactly what was begun; inside, one less.
  From it follow `EffectsReported` and `AnswersSayHow`, at the reply (`AnswerInv`).
- `ActInv`: nothing is clicked before the human way has sent its click, and after a click the
  plain way is reached only with a connection that is gone, on which it cannot click.
- `DriverInv`: a run past its navigation has driven the page last; and as long as the
  screenshot of a request that has its lease is still to be taken, whoever has driven the page
  since was given up or has lost the node. The second part is why `ShotIsOwn` has its exceptions.
- `CountInv`, `LooksInv`: `repeats` and `still + 1` are the length of the run at the end of
  what was begun and looked at (`Ends`). A sequence that grows has a run that is too long
  only if its last one is (`NoRunAppend`), so comparing the counters in every round is enough.
- `StaleInv`: the lag of the snapshot at each stage, one more between an action and its refresh.
- `PlanInv`: with one plan so far, what was begun is its prefix. At the end of the plan the
  search for an action not yet used finds none (`WholePlan`), so that nothing is begun twice.

`PlanStep` takes the first action that is not used; that there is a first one is a property of
every finite set of indices (`FirstIndex`, from the library's theorem that strict inclusion of
finite sets is well-founded).

`EveryRunGetsShorter` is what makes the lock's wait without a limit (main.go:223) harmless:
`StepsLeft` counts the rounds that are left (of a goal, up to `MaxSteps`; of a script, its
actions) and the place of the stage in its round (`Place`). A failed refresh, a fall back to
the plain way, a second look, a timeout or a page that moves never take a run back, so a goal
answers within `21 * MaxSteps + 20` steps. It needs that an attempt begins on a field that
nothing was typed into, and that a script is not read again (`BegunScripted`). What it leaves
of `AllAnswered` to TLC is that a step is possible in every stage (ENABLED), and fairness: that
the steps are taken and that whoever waits for the lock gets it.

## 8. Tasks, replays and sessions: `ApiServer`

### State and actions

`sessions` is the session store, `status`, `attempt`, `session` and `source` the task store,
`req` the handlers: where each is, and its locals. A request arrives with its first store
call, because it has no effect before. `PostTask` is `resolveTaskSessionID` (a session is minted
or looked up), `PostReplay` the lookup of the original, `MintForReplay` and `EnsureForReplay` the
new session and the check of `replayTaskNonIdempotent`; `Create` and `Enqueue` follow for both;
`Poll` and `WaitEnds` are `waitForTaskTerminalState`. `GetChain` reads one task after the other.
`PostSession` and `DeleteSession` come from other clients at any time.

`Run` is what the runner and cancel requests write. A task that is queued may be started at any
time, for the reconciler puts into the channel what it finds queued; `working` are the tasks
with an attempt under way, which ends by `Retry` or `Report`. `pending` are the tasks that some
goroutine may yet fail out of turn: the timer that each retry leaves behind, when the channel
refuses it ten times, and a worker whose `Start` or `Complete` failed, perhaps after it took
effect. `FailOutOfTurn` is that call of `Fail`, and `Refuse` the one of the handler whose task
the channel refused: both fail the task unless it is canceled, also when a worker runs it
or has completed it (`Overrule`), and `overruled` remembers it. When the channel is full and how
many retries a task has is left open, so that this runner does whatever `TaskRunner` can.
A canceled task is taken out of `working` and `pending` at once: nothing writes to it any more.

A store call may fail, and a call that inserts may fail after it has taken effect. A client
that leaves makes the next call fail.

### Properties

- `AnswersStand` - the status that a waiting client is told is the task's for good, unless the task
  is overruled; then one told completed has become failed and nothing else, one told failed may
  have become anything, because the worker that had it in hand still reports, and one told
  canceled is canceled. A request that is rejected has left no task, unless a store call
  failed. What can go wrong is a status that looks final and is not: a task that has left
  the queue may come back to it.
- `SessionBehindTask` - the lookup of a session and the insertion of the task are two calls, and
  the session may be deleted between them, but not before the first.
- `ChainTruthful` - a replay chain is the lineage of its task while others add to it, and
  `truncated` is set if and only if something is missing, or could not be read.

### Run

`api_server`: two requests that make tasks and one that asks for a chain (`Readers`), two tasks,
two sessions, depths 1 and 2, one failure (3.2 million states). A request for a chain writes
nothing, so that a second one would add nothing; and two tasks need two requests that make
them, a task and its replay, or two that compete. With two tasks a chain fits a depth exactly, is cut by it, or ends before it. Ids are
interchangeable and reduced by symmetry; all properties are about safety.
`CHECK_DEADLOCK FALSE`: the ids run out.

What the model shows besides, and no document denies: a client may be told that its task is
completed and find it failed afterwards, by the timer of an earlier attempt that the
reconciler had overtaken (runner.go:511); a session minted for a task that is
then rejected is never removed (tasks.go:211-227); a creation whose response is lost in the
store is answered 400 although the task will run; a store that fails is told like a task
or session that is not there; a wait that times out is answered 202 with the task as it was
created, not as it is.

### What is proved (`ApiServer_proofs`)

For any sets of requests, tasks and sessions, any depths and number of faults, from
`ApiAssumption`:

| Theorem | Statement |
|---|---|
| `FlowInvariant` | `Spec => [](TypeInv /\ FlowInv)` |
| `AnswersStandAlways` | `Spec => []AnswersStand` |
| `SessionStandsBehindTask` | `Spec => SessionBehindTask` |
| `ChainsTruthful` | `Spec => []ChainTruthful` |

The steps of the handlers are first reduced to five kinds (`Resolves`, `Creates`, `Ends`,
`Refuses`, `Follows`), each with what it may do to its own locals and to the stores, and `Stands`
says what no step undoes: a task keeps its source, no session is forgotten, and `Ruled` lists the
ways in which a step may change the status of a task. For `AnswersStandAlways` that is not
enough: `WorkInv` says that a worker has in hand only a task that runs, or one that was
overruled, so that a task told failed which was not overruled has nobody left to change it; and
`Kept` adds that one told completed is in nobody's hand. `FlowInv` ties what a handler holds to where it is. `SessInv` adds that the session
of a request that is about to insert was found after it arrived. For chains the
difficulty is that the code guards against a cycle of sources which cannot exist: `Ranked`
gives every task a rank above its source's, an insertion extends it (`RankStep`), so that
the source of a chain's last task is never in the chain already (`NotVisited`); a chain
therefore stops only at its limit, at its end, or at a call that fails.

## 9. What is proved and what is only checked

Proved for every value of the constants: the theorems of sections 3 to 8, each from
the assumptions of its module, and the two of `TaskRunner_refinement` from `Roomy` besides.
Every invariant, every action property and the refinement that a passing run checks is the
statement of one of them. Only model-checked is all liveness (`EveryTaskSettles`, `LosersStop`,
`WaitersAreAnswered`, `LeakedContainersGo`, `PoolRefills`, `SilentNodesGo`, `AllAnswered`): fairness
and ENABLED are out of the prover's reach. Of `AllAnswered` the half that is a property of
steps is proved, `EveryRunGetsShorter`: a run that holds the lock has only so many steps left.

No recursive definition is used; induction over data, which the prover cannot do, is not needed.

## 10. Not modelled

- API keys and the rate limiter: one critical section each, with nothing to interleave.
- Artifacts: one file is written under a fresh name. Dashboard, metrics, listings: read-only.
- The domain cooldown is in `TaskRunner` without a property: it is checked once before the
  wait for a node, so tasks that passed the check still reach the domain.
- The length of the retry delay, the titles, traces and errors in a task's row.
- Text: prompts, parsing of model answers, choice of selectors, matching of blockers and
  addresses; JavaScript; docker command lines (their effect on a container is modelled).
- The random curves and pauses of humanized input.
- `OpenURL` and `RunAction` of the node's gRPC server, which nothing in the repository calls.
- Postgres' `Cancel` is an UPDATE and a SELECT: if a failed task is requeued between them
  the answer is 404 for a task that exists (postgres_service.go:266-306). `CancelStore` takes the
  two as one, which is what the memory store does.
- Configuration, wiring and generated code.
