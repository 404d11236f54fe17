# Verification of kafka-consumer-template

TLA+ models of the consumer template in `src/`, the TLC runs that check them on small
instances, and TLAPS proofs about all of them. File names such as `core/consumer.py` are
relative to `src/src/`; `docs/...` and `k8s/...` are relative to `src/`.

- [1 The system](#1-the-system)
- [2 Modules and plan](#2-modules-and-plan)
- [3 How the models correspond to the code](#3-how-the-models-correspond-to-the-code)
- [4 Runs](#4-runs)
- [5 Where the code and its documentation disagree](#5-where-the-code-and-its-documentation-disagree)
- [6 Fairness](#6-fairness)
- [7 Proofs](#7-proofs)
- [8 What is not modelled](#8-what-is-not-modelled)

Inside this directory:

    tlc -workers 2 -config GroupDrains.cfg MCConsumerGroup    # a run
    tlapm ConsumerGroupProofs.tla                             # the proofs about one module

## 1 The system

A deployment runs several replicas (pods) of one consumer. Each is a single asyncio
process that reads a Kafka topic as a member of one consumer group, drops duplicates with
keys in Redis, calls a handler that writes to a database, commits offsets by hand and
sends what it cannot process to a dead letter topic (DLQ).

| Component | State | Operations | Talks to |
|---|---|---|---|
| `BaseConsumer`, synchronous pattern (`core/consumer.py`) | run state, stop event, batch in hand, attempt | `run`, `_loop`, `_dispatch`, `_process_with_retry`, `_commit`, `_send_to_dlq`, `_shutdown` | Kafka, Redis, handler |
| `BaseConsumer`, background pattern | set of tasks; a table of the subclass | `_spawn_background`, `_on_background_done`, drain in `_shutdown`, recovery in `on_start` | Kafka, database |
| `IdempotencyStore` (`core/idempotency.py`) | keys with a TTL in Redis, shared by all pods | `claim`; `has_been_processed` and `release` have no caller | Redis |
| `HealthCheckWriter` (`core/health.py`), probes (`k8s/deployment.yaml`) | a file that outlives the process; a task | `start`, `_loop`, `stop` | kubelet, through the age of the file |
| process: `_build`, `run`, `_shutdown` | run state, stop event, which clients are started | start of consumer, producer, health file, `on_start`; their stops in reverse; signal handlers | all others |
| `retry_async` (`core/retry.py`) | attempt | one loop around one statement | database |
| `Database` (`db/database.py`), MariaDB and PostgreSQL | pool of connections, shared by concurrent calls | `connect`, `close`, `execute`, `fetch_*`, `call_procedure`, `insert_batch` | server |
| context variables, logging, metrics (`core/context.py`, `logging.py`, `metrics.py`) | context per task; counters and gauges | set and reset by `_dispatch`, copied by `create_task`, added to every line | operator |
| example consumer (`consumers/example/`) | none | `process_message`, `handle_greeting`, `handle_farewell` | `Database` |
| factories, settings, exceptions | none that the program reads back | | |

Kafka, Redis and the kubelet are modelled from how the code uses them.

What is hard here, and what makes each part correct:

- **Loop.** The pods share committed offsets, the partition assignment and the claims, and
  a rebalance or a crash may strike at every await. `getmany()` hands out a batch that
  survives a rebalance, so two pods can dispatch the same message. A commit can be
  refused, or recorded although its answer is lost, and a late one moves the group back.
  Correct means: no offset is committed before every message below it has ended; no
  handler runs twice for one claim, nor in two pods at a time; what is lost and what is
  dead-lettered by mistake is bounded by the faults; every message ends.
- **Background tasks.** The offset is committed while the task has not stored anything
  yet; `on_stop()` closes the pool before the tasks are awaited, and waits for the statements
  that have a connection while it refuses those that wait for one; a statement may take
  effect although it raises; recovery and redelivery may take up the same event. Correct
  means: without a fault nothing is lost; one task per event at a time, until its claim
  expires; shutdown ends; rows in progress are recovered.
- **Process.** Signals, exceptions and failing clients may strike between any two of some
  twelve awaits. Correct means: what was started is stopped, in an order in which nobody is
  left to use it, and the process ends.
- **Pool.** Concurrent calls share its connections, and `close()` may come in between.
  Correct means: a connection comes back on every path, and every call ends.
- **Health file.** A pod is to be killed if and only if its event loop is stuck, with a
  writer, a prober and a clock that do not know each other, and with a SIGTERM that a
  blocked loop cannot handle. Correct means: a blocked pod is gone in time, a healthy one is
  not killed, and a writer that died does not go unnoticed.
- **Retries.** Two nested loops, two engines with different commits, and handlers that
  turn one class of error into another. Correct means: success is stored, an event is
  dead-lettered only after its attempts, and the handling ends in a time that Kafka and
  Kubernetes leave for it.
- **What an operator sees.** Lines of the loop, of tasks and of callbacks interleave, and
  one message is counted in three branches. Correct means: a line shows its own message,
  and the metrics agree with each other.
- **Statements.** `%%s`, `%%%s`, a percent sign at the end; ragged batches.

`PROJECT.json` lists every hazard at its line with the properties that cover it.

## 2 Modules and plan

| Module | Contents |
|---|---|
| `Topic` | messages: an event with an idempotency key, a malformed payload, or a JSON document that is no object |
| `Delivery` | abstract specification: what a group promises as seen from Kafka, Redis and the DLQ |
| `ConsumerGroup` | the synchronous loop in several pods with Kafka's coordinator and Redis; implements `Delivery` |
| `Jobs` | abstract specification: what the background pattern promises about an event |
| `BackgroundTasks` | the background pattern in several pods, with rebalances, restarts, shutdown and recovery; implements `Jobs` |
| `DatabasePool` | the pool and the concurrent calls that share it |
| `Lifecycle` | one process from its entry point to its end and the next start, composed with `DatabasePool` |
| `HealthCheck` | health file, liveness probe, SIGTERM and its grace period, kubelet and clock |
| `DatabaseRetry` | `_process_with_retry` around a handler around `retry_async` around a statement, with the time it takes |
| `Observability` | context variables, log lines and metrics of one process |
| `Placeholders` | `_to_positional` and `insert_batch` against their meaning |
| `...Proofs` | the theorems about `ConsumerGroup`, `BackgroundTasks`, `Lifecycle` (with `DatabasePool`), `HealthCheck`, `DatabaseRetry`, `Observability`, `Placeholders` |
| `Counting` | lemmas about cardinalities that the bounds need |
| `MC...` | instances for TLC: topics, fault budgets, symmetry |

`ConsumerGroup` and `Delivery` both extend `Topic`; `ConsumerGroup` instantiates
`Delivery` with the variables of the same names (`Outside`), and the step that an action
of `ConsumerGroup` takes in `Delivery` is a step or a stutter. `BackgroundTasks`
instantiates `Jobs` as `Promise`, where `job[e]` is computed from the row of the event and
its claim. `Lifecycle` extends `DatabasePool`: its `on_start()` connects, its `on_stop()`
closes, its loop begins calls, its drain cancels them. The other modules each stand alone:
they share the process of `BaseConsumer`, and each keeps of it what its question needs.

The plan, most important behaviour first:

1. Core: `Topic`, `Delivery`, `ConsumerGroup`, proofs of types, of `NoSkippedOffset`, of
   the claim and of the refinement. **Done.**
2. `BackgroundTasks`, `HealthCheck`, `DatabaseRetry`, `Placeholders`, model-checked.
   **Done.**
3. `Jobs`, and several pods in `BackgroundTasks`; time in `DatabaseRetry`; kills and the
   grace period in `HealthCheck`; `DatabasePool` and `Lifecycle`; `Observability`;
   all model-checked. **Done.**
4. Proofs about these modules: the safety properties of their runs and the refinement
   of `Jobs`. **Done.**
5. The bounds that count sets, for every constant: `LossBounded` and
   `SpuriousDeadLettersBounded` of `ConsumerGroup`, `WorkBounded` and `DeadLettersBounded`
   of `BackgroundTasks`, the time of `DatabaseRetry`, and `Placeholders`. **Done**, without
   history variables: each invariant counts what has happened together with what can still happen
   without another fault (section 7).

## 3 How the models correspond to the code

### ConsumerGroup

A pod awaits one thing at a time, so an action is the code from the answer of one await to
the next await, and `pc[k]` names that await:

| `pc` | `await` | actions that leave it |
|---|---|---|
| `down` | no process | `Start` |
| `loop` | `getmany()`, or between two messages | `Poll`, `PollError`, `TakeMessage`, `LeaveLoop` |
| `claim` | `SET NX` | `ClaimNew`, `ClaimDuplicate`, `ClaimError` |
| `handle` | `process_message()`, `on_message_retry()`, `sleep()` | `HandlerReturns`, `HandlerRetries`, `RetryHookError`, `HandlerGivesUp`, `HandlerFails` |
| `commit` | commit inside the try | `CommitOk`, `CommitRejected`, `CommitError` |
| `dlq` | `send_and_wait()` | `SendDlq`, `DlqError` |
| `settle` | commit outside the try | `SettleOk`, `SettleRejected`, `SettleError` |
| `exit` | `_shutdown()` | `Shutdown` |

`Kill` and `Signal` may strike at any of them. `Crash` is an exception that leaves
`_dispatch` and `_loop`; `run()` then shuts down.

*Requests that fail.* The Redis, Kafka and DLQ errors are each two outcomes: the server did
what it was asked, or it did not. A refused commit (`...Rejected`) is no fault of its own:
it follows from an assignment that changed. When the coordinator refuses a commit, and that
it always does, is Kafka's protocol and taken from how the code relies on it.

*Rebalances.* `Rebalance` spends budget, may give every partition to any live pod, or to
nobody, and forgets the fetch positions; `ResolvePosition` reads them again from the
committed offset. `Assign` hands out what is owned by nobody and is free. What
`getmany()` handed out stays in the hands of the pod, as in the code, where `batch` is a
local variable. `LeaveGroup` is both the clean exit and the session timeout.

*Data.* A payload is its kind and its key. `_parse` accepts every JSON document, so
`scalar` (`null`, `7`, `[]`) is a kind of its own: the line `event or {}` passes `null`
and the `assert` refuses it, and any other scalar has no `.get`. An event without any id
has a key of its own made from its offset: another member of `EventIds`.

*History.* `done`, `skipped`, `wins` and `dlq` record what happened, for the properties;
`wins` counts the claims that a dispatch was told it owns.

### BackgroundTasks

`pc[k]` is again the await of `run()` in pod `k`; `task[k][e]` is how far its task of event
`e` is, and tasks interleave with `run()`, with each other and with the other pods. There
is one partition; `Assign` and `Rebalance` move it, and `at` and `upto` are the batch that
stays in the pod's hands. `CommitRejected` follows from an `owner` that changed: inside
`_spawn_background` its exception dead-letters the event, anywhere else it ends the pod.

The base class leaves the task, the table and the recovery to the subclass; they are those
of `docs/patterns/background-tasks.md` (insert `processing`, work, update), `on_stop()`
closes the pool as `ExampleConsumer` does. Recovered tasks are created without the set
`_background_tasks`, so `recovered` is apart from `task` and no drain waits for it; their
work uses the pool no more than that of other tasks does.

*Connections.* `held[k]` are the events whose task runs a statement on one of the `MaxSize`
connections of the pool of `k`. A task that comes to a statement takes a connection at once
when there is one (`Connect`, before `run()` goes on), and is without one otherwise: it
waits in `acquire()`, or sleeps before the next attempt of `retry_async`. The model does not
tell these apart, nor does it count attempts: `StatementError` may let the task try again,
or raise. `OnStop` begins to close the pool (`closing`), and `OnStopDone` comes only when no
connection is in use, without a limit, before the drain. `Refused` is a task that asks a
closing pool for a connection, or was waiting when it closed: that exception arises outside
the `try` of `execute()` and is not repeated. asyncpg cancels a waiter that was just given
its connection, so the refused statement may have taken effect; aiomysql still serves a
waiter while its pool closes, which is `Acquire`.

*Statements that fail.* As with the other requests there are two outcomes (`StatementError`): the row
was written or it was not. When that was the UPDATE to `done`, the `except` of the pattern
writes `failed` over it. A statement that is cut off by the end of the process and took
effect is one that ended before it.

*Claims.* `Expire` ends the TTL of a claim whose event has no task (a task does not live
for a week): the next delivery of the event starts a task, whatever its row says.
`expired` remembers these events, and `Accepted` are all that were claimed at some time.

In `Jobs` an event is new, accepted, begun, and finished or failed. The refinement maps the
row to the last three, and an event without a row that was claimed at some time to accepted.
A success may be recorded as a failure, because its answer was lost; an ended job begins
again only when its claim expired. A crash between claim and insert leaves an event accepted
for ever: the abstract specification has no fairness, and what may be lost is the matter of
`LossNeedsFault`.

### DatabasePool and Lifecycle

`phase` is the await of the entry point, from `_build()` to the last stop. `StartError`
ends the process where it stands, because the starts are before the `try` of `run()`;
`RunError` goes through `_shutdown()`; `StopError` leaves out the stops that come after.
`EndProcess` takes the pool and the calls with it, but neither the membership, which the
broker ends by `SessionTimeout`, nor the file. `ERROR` is a value of `_state` in no state of
the model: `run()` sets it and `_shutdown()` overwrites it before it awaits anything.

`EarlySignal` is a signal during `_build()`, before the handlers are installed: SIGINT ends
the process, SIGTERM is dropped, because the process is the first of its container
(`Dockerfile` starts Python in exec form) and has no handler for it.

`call[c]` is the await of one caller of `Database`; `free` counts the connections that can
be handed out. `async with pool.acquire()` is left before `retry_async` sees the exception,
so `Retry` gives the connection back before the backoff. `Closed` waits for every connection.
In the synchronous pattern one call runs at a time and the loop waits for it.

`SessionTimeout` takes the membership in any phase: the process is gone, its event loop is
blocked, or `max_poll_interval_ms` passes while a handler is slow. A consumer that is started
joins again by itself (`Rejoin`). Tasks that recovery creates without tracking them are not
among the callers; they are in `BackgroundTasks`.

### HealthCheck

Time is in ticks of 5 s. `Tick` is not possible while a probe is due, or a write is due and
the loop is free to do it. `blocked` is synchronous code (of a handler, a hook or a task, in any
phase) that holds the event loop; `hung` is an await of `run()` that never ends while other
tasks go on. `exists` and `age` survive `EndProcess`, because `/tmp` is an `emptyDir`. A
missing file makes `getmtime` raise, which fails the probe like an old one, and so does a
probe that takes longer than its `timeoutSeconds`, whatever the file says (`ProbeFails`;
`timedOut` is how many misses there were at the last of these).

A failed threshold does not end the process: `ProbeKills`, like `Signal`, sends a SIGTERM
(`Terminate`) and starts the grace period. Its handler is a callback of the event loop, so a
process leaves its loop (`Stop`) only when it is neither blocked nor hung; when `grace` is
over comes the SIGKILL (`KillAfterGrace`). A pod that terminates is not probed. A pod that
is deleted and replaced is taken for the same pod started again, with the file still there:
a new `emptyDir` is the case without a file, which is that of the first start.

The readiness probe has no state: it is the value of `exists`. It has no property either: a
file that a kill left behind, or one of a blocked pod, passes it.

### DatabaseRetry

One event, chosen handler, engine and operation; `Failures` are the three ways in which the
code can see a request fail: outside the `try` of `_op` (`connect`), with an exception in
the list of the engine (`transient`), or with any other (`permanent`). `attempt` is the
variable of `_process_with_retry`, `try` the one of `retry_async` counted from 1.
Only MariaDB commits explicitly; any error at the commit, or of a statement of PostgreSQL
that writes, its time limit included, leaves open whether it took effect (`MayStore`).

`elapsed` counts quarters of a second: the first sleep of `retry_async` is 0.75 s at most. A request
takes no time or all that its client allows, a sleep its longest value (`uniform(0.5, 1.5)`
at its top, capped); what is in between cannot take longer. `command_timeout` is the limit
of a statement for asyncpg, and again of the statement that resets the connection when it
is given back; it is only that of connecting for aiomysql, so with MariaDB a statement may
take `Forever`, at which the clock stops.

### Observability

`context` holds the variables of the loop, `copy[m]` those that `create_task` copied for the
task of `m`; a callback runs in the context in which it was registered, the same copy.
`line` is the last log line: what it is about, which the model knows, and what it shows,
which comes from the context of the code that logs. The counters change where the code
changes them and are related only between two dispatches.

### Placeholders

The loop of `_to_positional`, one character or pair at a time, over every text of the
alphabet `%`, `s`, `x`, where `x` stands for all other characters. `Kept` and `Meaning` define the
result without a scan: by the parity of the run of percent signs before a position.
`insert_batch` keeps the brackets of its rows and drops the constant text around them. Its
rows and `flat_args` are given by position (`RowText`, `Place`) and not by concatenation, so
that they can be reasoned about without recursion.

## 4 Runs

| Run | Instance | Shows | States |
|---|---|---|---|
| `GroupRebalance` | two pods; event, malformed, the event again, scalar; two rebalances, a SIGTERM, an expired key | `HandlerOncePerClaim`, `NoConcurrentHandling`, `SpuriousDeadLettersBounded` | 890 000 |
| `GroupDrains` | two pods, an event with one retry and a malformed message; kill, SIGTERM, rebalance, failed request; fair | `NoSkippedOffset`, `LossBounded`, `ImplementsDelivery`, `EventuallyDrained`, `EventuallyCommitted` | 322 000 |
| `TasksFaults` | two pods, two events, one connection each; any two of kill, rebalance, failed request, expired claim | `LossNeedsFault`, `NoConcurrentWork`, `WorkBounded`, `DeadLettersBounded`, `ImplementsJobs` | 1 210 000 |
| `TasksEnd` | two pods, one event, the same faults and a SIGTERM; fair loops and statements, the work of tasks not | `ShutdownEnds`, `ProcessingIsRecovered`, `EventsAreCommitted` | 107 000 |
| `Lifecycle` | three callers, two connections, two attempts; a signal, a kill, a failing start, a failing stop, two other errors; fair | `PoolIsWhole`, `LeavesNothingBehind`, `TasksEndBeforeClients`, `HandlersAreServed`, `ShutdownCompletes`, `CallsEnd` | 107 000 |
| `HealthKills` | the times of the deployment; any three of two blocks, two timed-out probes, a hang, a SIGTERM, a kill, a failed write, start or stop; fair clock and kubelet | `BlockedIsKilledInTime`, `HealthyIsSpared`, `DeadWriterIsNoticed` | 720 000 |
| `RetryLoops` | the defaults of retries, delays and limits; any number of failures; fair | `SuccessIsStored`, `DeadLetterIsEarned`, `HandledInTime`, `HandlingEnds` | 198 000 |
| `Observability` | four messages, two retries, two failed requests, both patterns; fair | `LinesAreAttributed`, `MetricsAgree`, `PendingReturnsToZero` | 63 000 |
| `TextScan` | texts up to six characters, batches up to three rows of up to three values | `ScanIsRight`, `BatchBindsItsValues` | 6 800 |
| `GroupLoss`, `GroupBlocked`, `TasksStopLoses` | as small as possible | a violation each, see section 5 | |

All but `GroupRebalance`, `TasksEnd` and `TextScan` check the `TypeOK` of their module too.
What the less obvious properties say:

- `LossBounded`: a claimed event that is nowhere (not handled, not dead-lettered, in no
  pod's hands) costs one kill or one failed request each. A rebalance, a SIGTERM or an
  expired key alone loses none.
- `SpuriousDeadLettersBounded`: a handled event may reach the DLQ because its commit fails;
  at most once per failed request, and once per partition for each rebalance: one rebalance
  can take all partitions of a pod, and each of them may have a commit on its way.
- `EventuallyDrained` speaks of the fetch position and not of the committed offset. With
  rebalances that take a partition from a live pod and give it back, a late commit moves
  the committed offset back behind the position, and it stays there until the next
  message; `EventuallyCommitted` holds as long as there is no such rebalance.
- `LossNeedsFault`: it says nothing about what happens after a fault, and a crash between
  commit and insert does lose an event. It is about the interleavings without one.
- `WorkBounded`: the work of an event is repeated only by the recovery of a process that
  starts while its row is in progress: one for every other pod (a rolling update is enough,
  no fault is needed) and one for every process that a fault ended; and by the task that
  follows an expired claim.
- `NoConcurrentWork`: an event has one task in all pods, and its own pod does not recover it
  meanwhile, as long as its claim has not expired. After that a redelivery may start a task
  for a row that its own pod recovers. Another pod may recover it at any time: that is the
  case `WorkBounded` counts.
- `DeadLettersBounded`: an accepted event reaches the DLQ, although its task goes on, once
  per failed request and per partition lost to a rebalance.
- `ImplementsJobs`: nothing is committed or dead-lettered before it is accepted, nothing
  worked on before the table knows it, a success is recorded only of what was worked on, a
  failure does not become one, and an ended job does not begin again before its claim
  expires.
- `ProcessingIsRecovered` excludes failed requests: an insert whose answer is lost leaves a
  row in progress that nobody works on until some process starts.
- `LeavesNothingBehind`: a process that ends has left its group and removed its file, unless
  it was killed or a start or stop failed.
- `HandlersAreServed`: in the synchronous pattern no shutdown begins under a handler: the
  state is RUNNING while its call goes on, which means an open pool and a producer for the
  DLQ. The membership may be lost meanwhile; what follows from that is in `ConsumerGroup`.
  The background pattern does not have this: `TasksStopLoses`.
- `ShutdownCompletes`, `CallsEnd`: although `close()` waits for connections without a limit,
  and more calls than connections compete while the pool closes under them.
- `HandledInTime`: with PostgreSQL and the defaults a message is handled within 1459.5 s,
  and the value is reached: four calls of three attempts of 60 s to connect, 30 s to
  execute and 30 s to reset the connection, with the sleeps. It is what the code needs at
  worst and not what Kafka and Kubernetes leave for it, see section 5.
- `LinesAreAttributed`: the tasks of earlier messages log while the loop is at a later one.
- `MetricsAgree`: see the formula; the exception in it, a success that is a dead letter too,
  is the refused commit.
- `BlockedIsKilledInTime`: less than `MaxAge + Threshold * Period + Grace` (165 s) from the
  moment the loop is blocked; with the next bound below it the run fails.
- `HealthyIsSpared`: who is sent a SIGTERM by the probe has not started yet, has a dead
  writer, is sent it by a probe that timed out, or was blocked for 80 s at least, 15 s less for
  each miss up to the last that timed out. The exemption of a pod that starts is wide:
  section 5 says what the probe does to it.
- `DeadWriterIsNoticed`: whatever else happens, a process whose writer died ends, because
  its file gets stale and the clock and the kubelet go on.
- `DeadLetterIsEarned` counts failures: a handler that wraps its errors (`greeting`) gets
  `MaxRetries + 1` calls of `DbAttempts` attempts each, where an error that `retry_async`
  does not repeat ends a call; one that does not wrap them (`farewell`) gets the attempts
  only for transient errors.

*Bounds.* `Budget` is the only cap of `ConsumerGroup` and `Lifecycle`, and with `MaxFaults` of
`BackgroundTasks` and `HealthCheck`: everything else is finite because the topic, the callers
and the clocks are. One fault of each kind at any of the awaits,
and two rebalances, reach the situations named above: the same message in two hands, a
commit that arrives late, a claim without a handler, a partition that comes back. Two pods
suffice for two hands, for a row that another pod recovers, and for a commit that is
refused; the handler's retries need `MaxRetries = 1` only. Two faults of any kinds in
`TasksFaults` hold a crash and the crash of the recovery, or an expired claim and what
follows it; a SIGTERM is left out there, because an error of the loop shuts a pod down in the
same way, and is in `TasksEnd`, in `TasksStopLoses` and in the theorems. One connection for two
events lets one task wait while the pool closes. Three
faults in `HealthKills` hold a block, and two failures around it. Three callers and two connections
let one call wait while another backs off. `DatabaseRetry` counts failures up to
`FailureCap`, one more than the loops allow, and time up to `Forever`. `Observability` has
two failed requests: one for a commit, one for what comes after it. In `Placeholders` six
characters hold three escapes in a row;
the meaning of a position depends on a run of percent signs and the count before it.
The theorems of section 7 hold without any bound.

*Symmetry* in the pods is used in `GroupRebalance` and `TasksFaults`, never with liveness.
*`CHECK_DEADLOCK FALSE`*: a drained topic, a handled event, an exhausted log and a text that
is read are ends; `Lifecycle` never stops (checked without the line), but a mutant of it
that loses connections does, and that is to be a violation of `CallsEnd`. `HealthCheck` never ends and is checked for deadlock.

Every property of a passing run has a mutant in `PROJECT.json`, an operator with a plausible
bug (a commit of the message's own offset, `SET` without `NX`, an unawaited send, a missing
`return`, an off-by-one) with which the run finds that property violated.

## 5 Where the code and its documentation disagree

Each has a run that finds a counterexample and an entry in `PROJECT.json`:

- `GroupLoss`: a claim is never released, so a pod that dies in its handler makes the
  redelivery look like a duplicate: at most once, where `docs/architecture.md:132-135`
  promises at least once.
- `GroupBlocked`: a JSON scalar crashes every pod that is given it, without an end
  (`docs/error-handling.md:133`: the consumer always advances).
- `TasksStopLoses`: `_shutdown` closes the pool before it waits for the tasks that need it
  (`docs/patterns/background-tasks.md:71`). The close waits for the statements on their way;
  a task that waits for its connection, because there are more tasks than connections, is
  refused and its committed event is lost, with no fault but a SIGTERM.

Met while modelling, visible in the actions and not given a run:

- The commit after the handler is inside the `try`; refused, it sends a processed message to
  the DLQ (`docs/error-handling.md:132` says what could not be processed goes there), and
  the metrics count it twice: `CommitRejected`, `SpuriousDeadLettersBounded`, `MetricsAgree`.
- Another task writes the health file, so a consumer that hangs in an await is never killed
  (`core/health.py:7`): `Hang` and `HealthyIsSpared`.
- A blocked pod is gone only after 165 s, and no SIGTERM ends it sooner than its grace period:
  `KillAfterGrace`. A pod whose start takes longer than the limits is killed before its
  first write, and the misses of its start count for one that has just written: a probe that
  then times out kills it: `ProbeFails`, `HealthyIsSpared`.
- A message can be in work for 1459.5 s, longer than the poll interval of 600 s
  (`core/client.py:59`) and the grace period of 60 s (`k8s/deployment.yaml:134`); with MariaDB
  there is no limit, because `command_timeout` is only its `connect_timeout`
  (`db/database.py:195`): `HandledInTime`.
- The alert on the state ERROR (`docs/observability.md:142`) cannot fire: the state is
  overwritten before anything can read the gauge: `RunError`.
- SIGTERM during `_build()` is lost: `EarlySignal`.
- A start that fails is before the `try`, so the consumer stays a member of its group until
  the session times out: `StartError`. A stop that fails keeps the later ones from running:
  `StopError`.
- A pod that starts takes up rows that another living pod works on, which every rolling
  update does (`k8s/deployment.yaml:21-26`): `OnStart`, `WorkBounded`.
- `kafka_messages_total{status="retry"}` counts the messages that are given up as well, so it
  is more than `kafka_retry_total` (`docs/observability.md:87`, `:123`, where both are 12
  next to one `max_retries`): `HandlerRetries`, `MetricsAgree`.
- The background pattern counts a success when the task is accepted; a task that fails is
  logged and counted nowhere: `SpawnCommit`, `TaskDone`.

- An event is dropped as a duplicate although its first delivery was dead-lettered or is
  still in work (`core/idempotency.py:4-5` says it was processed): `ClaimDuplicate`.
- The background pattern commits before the row exists (`docs/architecture.md:88-89` gives
  the opposite order): `Spawn`, `CommitOk`, `Insert`.
- The readiness probe does not look at the age of the file, where the comment above it says
  that it must be recent (`k8s/deployment.yaml:109`): it passes a blocked pod, and one that
  starts after a kill.
- A failure to connect is not retried (`db/database.py:182`, `:212`), permanent errors of
  `handle_greeting` are (`docs/patterns/database.md:60-61`), and a handler is called
  `max_retries + 1` times (`docs/error-handling.md:213`): `AcquireError`, `Raise`, `GiveUp`.
- Without arguments `%%` stays `%%` for MariaDB and becomes `%` for PostgreSQL.

## 6 Fairness

Faults are never fair: they may strike or not, up to the budget.

- `ConsumerGroup`: weak fairness of `Start` (Kubernetes restarts a container that ended), of
  `Progress` per pod (the event loop resumes an await that has its answer; requests have
  timeouts in their clients, and the handler is assumed to return or raise), of `Assign`
  and `ResolvePosition` (the coordinator ends a rebalance and aiokafka fetches offsets).
- `BackgroundTasks`: `Progress` per pod and `Assign`, for the same reasons, and the end of a
  statement that has a connection (`Insert`, `Record`), because `on_stop()` waits for it
  without a limit: asyncpg has its `command_timeout`, with MariaDB it is an assumption. The
  work of tasks may take for ever; `ProcessingIsRecovered` has their fairness as its
  hypothesis (`TasksEnd`), `ShutdownEnds` does without it because of the 30 s of `wait_for`.
- `Lifecycle`: weak fairness of `Progress`, strong fairness of each caller's `Call`: drivers
  serve who waits for a connection in the order of arrival, so a caller that is enabled
  again and again gets its turn. Statements are assumed to end; section 5 says when they do
  not.
- `Observability`: weak fairness of the end of each task and of its callback, which is what
  the gauge needs and no more.
- `DatabaseRetry`: weak fairness of `Next`: requests and sleeps end.
- `HealthCheck`: weak fairness of the clock and of the kubelet, and nothing of the process,
  which `DeadWriterIsNoticed` needs. The time limits are safety, and hold because `Tick` waits
  for a write, a probe or the end of a grace period that is due.

## 7 Proofs

Each module `...Proofs` (with `Counting`, lemmas about cardinalities) proves its theorems
for every value of the constants that the named assumptions of the modules allow, and from
nothing else: the assumptions give the constants their types, a pool has a connection,
`HealthCheck` asks that interval, period and first delay fit within the age limit, the sets of pods, partitions
and callers that are counted are finite, and `NoPod` and the like are not members of the
sets they stand beside. Only `SlowestHandling` has hypotheses of its own, explained below.

| Module | Theorem | Statement |
|---|---|---|
| `ConsumerGroupProofs` | `TypeCorrect` | `Spec => []TypeOK` |
| | `CommittedHasEnded` | `Spec => []NoSkippedOffset` |
| | `HandledOncePerClaim` | `Spec => []HandlerOncePerClaim` |
| | `HandledByOnePod` | `Spec => []NoConcurrentHandling` |
| | `GroupImplementsDelivery` | `Spec => ImplementsDelivery` |
| | `EachFaultLosesOne` | `Spec => []LossBounded` |
| | `SpuriousDeadLettersArePaid` | `Spec => []SpuriousDeadLettersBounded` |
| `BackgroundTasksProofs` | `TypeCorrect` | `Spec => []TypeOK` |
| | `WorkedOnByOneTask` | `Spec => []NoConcurrentWork` |
| | `LossTakesAFault` | `Spec => []LossNeedsFault` |
| | `PatternImplementsJobs` | `Spec => ImplementsJobs` |
| | `DeadLettersArePaid` | `Spec => []DeadLettersBounded` |
| | `WorkIsBounded` | `Spec => []WorkBounded` |
| `LifecycleProofs` | `TypeCorrect` | `Spec => []TypeOK` |
| | `ConnectionsAreKept` | `Spec => []PoolIsWhole` |
| | `ClientsOutliveTasks` | `Spec => []TasksEndBeforeClients` |
| | `HandlersKeepWhatTheyNeed` | `Spec => []HandlersAreServed` |
| | `EndsLeaveNothing` | `Spec => []LeavesNothingBehind` |
| `HealthCheckProofs` | `TypeCorrect` | `Spec => []TypeOK` |
| | `KilledInTime` | `Spec => []BlockedIsKilledInTime` |
| | `SparedWhileHealthy` | `Spec => HealthyIsSpared` |
| `DatabaseRetryProofs` | `TypeCorrect` | `Spec => []TypeOK` |
| | `StoredOnSuccess` | `Spec => []SuccessIsStored` |
| | `EarnedBeforeDlq` | `Spec => []DeadLetterIsEarned` |
| | `SlowestHandling` | for tables `db`, `rt` of the summed delays with `Longest(db, rt) <= MaxTime`: `Spec => []HandledInTime` |
| `ObservabilityProofs` | `TypeCorrect` | `Spec => []TypeOK` |
| | `LinesShowTheirMessage` | `Spec => []LinesAreAttributed` |
| | `MetricsTellWhatHappened` | `Spec => []MetricsAgree` |
| `PlaceholdersProofs` | `ScanComputesMeaning` | `Spec => []ScanIsRight` |
| | `BatchesAreBound` | `Spec => []BatchBindsItsValues` |

### ConsumerGroup

*Types.* `TypeOK` is not inductive: an action commits `at[k][2] + 1`, so `TypeInv` adds that
a pod inside `_dispatch` has a message.

*Offsets.* `NoSkippedOffset` is not inductive either. A commit covers all messages below
its offset, and a pod that starts in the middle relies on what the group committed.
`DeliveryInv` adds `PodInv`: every message below `next[k][p]` has ended or is the one the
pod is dispatching, which has ended when a commit is due; and `PartitionInv`: what was
fetched has ended or is in the owner's hands. `Grows` (an outcome is never taken back)
gives every conjunct about pods that do not move.

*Claims.* `ClaimInv` bounds the wins of a key by the expired TTLs, plus one while the key is
there, and says that without expired TTLs a running handler finds its key in Redis. That
is why a win, which needs the key to be absent, cannot break `NoConcurrentHandling`, the
last conjunct.

*Refinement.* The variables of `Delivery` are variables of `ConsumerGroup`. With
`DeliveryInv` each action is one step of `Delivery` (a commit is `Acknowledge`, a lost
Redis answer `WinUnnoticed`, an expired key `Forget`) or leaves its variables unchanged.

*Lost events.* `LossBounded` is inductive with the types: a step adds
to `Lost` at most the one message of one pod, and only while it spends a kill or a failed
request. Where a dispatch ends without a fault, its message is accounted for.

*Spurious dead letters.* `DebtInv` counts three sets against the faults. `Doomed` events are
handled and dead-lettered already or can become both without another fault; `Freed` keys
were won and have expired, so their event may run again; `Stale` work is what a pod goes on
with for a partition it has lost, whose commit will be refused. A step spends a fault for
what it adds, or moves one unit from one set to another: a win takes a key out of `Freed`
and dooms its event, a refused commit turns stale work into a doomed event. One rebalance
makes one pair of pod and partition stale for every partition it takes, and this is where
the factor `Cardinality(Partitions)` comes from. With `Cardinality(Pods)` instead, the bound
fails for three partitions or more, which the one partition of the runs cannot show.

### BackgroundTasks

*Tasks.* `TaskInv` strengthens `NoConcurrentWork`: a task has its claim, a row comes after a
claim, and what the task is about to do tells what the row may say; before it inserts, the
row has not ended unless the claim expired. So a claim that is there already, which is what
a redelivery finds, excludes a second task, and recovery, which asks for a row, meets no
task of its own pod because a pod that has not finished `on_start()` has none.

*Offsets.* `OrderInv`: what is committed, taken from a batch, or fetched and not in hand,
is `Accepted`: claimed, now or before its claim expired. The batch that a rebalance leaves in a pod's hands is why `position` is not
enough.

*Losses.* `Quiet` says what every process looks like while no fault struck: in its loop,
its pool open, the owner of the partition when it has a batch, and no claim has expired. Then
a task cannot fail to insert, so a claimed event is in the table or in a task. `SpendCounts` turns every fault
into a positive count.

*Dead letters.* `DyingInv` counts the events in the DLQ or about to be sent there, together
with the `Strays`: pods that have lost the partition and are on their way to one refused
commit. A rebalance makes at most one stray, because one pod owns the partition; its refused
commit turns the stray into a dying event and ends the batch.

*Repeated work.* `WorkInv` counts, for an event in the table, how often its work was carried
out, who has begun it and may still carry it out (`Begun`: the task or the recovery of a pod,
or the task that an expired claim allows), and the runs of `on_start()` to come that no fault has paid for (`StartsToCome`): together they are at most the
number of pods. A process that starts leaves `Waiting` for `Begun`. A process that will end
without another fault is in `Ending` from the fault that binds it to end (a signal, an
error, the loss of the partition with a batch in hand), and moves to `Waiting` when it does.

*Refinement.* With `TaskInv` and `OrderInv` each action is one step of `Jobs` or invisible;
there is one lemma per abstract action.

### Lifecycle and DatabasePool

`PoolInv` gives `PoolIsWhole` with the cardinality of the callers that hold a connection;
each change of one caller's state adds or removes one element. `PhaseInv` says what the
process holds at every await from `_build()` to the last stop: it is what
`TasksEndBeforeClients` and `HandlersAreServed` rest on; the membership is no part of it,
because it may be lost at any moment. `RemainsInv` says where
membership and file can be left over only from a process that a fault ended.

### HealthCheck

`StuckInv` ties the clocks together: the file is as old as the loop is stuck, a probe
comes in every period, and from the moment the loop is stuck for `MaxAge`, `stuck + probe` stays below
`MaxAge + (misses + 1) * Period`; from the SIGTERM on, `stuck + grace` stays below the bound of
the property. `FreshInv` is the converse for a living writer: a failed
probe is left over from the start, and forgotten by the next probe, or comes not after the
last that timed out, or belongs to the present block, which has lasted for all of these. That a probe period fits below the age
limit is needed here, or a pod could be killed for the misses of its own start.

### DatabaseRetry

`Behind` is the number of attempts that the handling has behind it, from `attempt` and
`try`. In `greeting` the transient failures plus `DbAttempts` for each final one are at
least that, in `farewell` they are exactly that and there is no final failure before the
end. The cap on the counts is above any such number, so it changes nothing.

*Types.* A delay is `base * 2^n`, capped, and `^` has no meaning for the provers; that `2^n` is a
natural number follows from the library's fact that a set of `n` elements has `2^n` subsets.

*Time.* `SlowestHandling` takes two tables, `db` and `rt`, whose entry `n` is the sum of the first `n`
delays of a loop (`Sums`), and asks that `MaxTime` holds `Longest`: `MaxRetries + 1` calls of
`DbAttempts` attempts each with all their sleeps. A table fixes a finite sum without a recursive
definition; there is exactly one for any constants. With those of `RetryLoops`, `Longest` is
`MaxTime`, 5838 quarters of a second. `SlowInv` says that the clock is at most at the
time of the calls that are over, the sleeps between them, and the attempts and sleeps of the
present call. It speaks of PostgreSQL only, as `HandledInTime` does.

### Observability

`LineInv` says what the context of the loop and the copy of each task hold at every await,
`CountInv` what the counters add up to in the middle of a dispatch; between two dispatches that is
`MetricsAgree`.

### Placeholders

*Scan.* `ScanInv` adds to `ScanIsRight` that the scan is `Aligned`: an even run of percent signs stands
before the next character, or nothing can escape that one. So a pair read by `Reads` is an
escape and its object, and each step keeps exactly one more position (`OneMoreKept`). That a
run has one length only (`RunOfSigns`) replaces the induction over the text.

*Batches.* `PlaceInv` gives the place of the scan in a batch by row and column, and with it the
characters read, the placeholders found and the length of the result. That two places are
the same only in the same row and column is the uniqueness of quotient and remainder.

### Model-checked only

Liveness, which needs fairness and `ENABLED`: every other property of a run has a theorem.

## 8 What is not modelled

- Two partitions in a TLC run: the theorems hold for any finite number, and the runs keep to
  one for the sake of their size. The same key in two partitions is covered by `ClaimInv`.
- The 30 s of the drain and the TTL as times, and the 60 s of the grace period outside
  `HealthCheck`: `DrainTimeout`, `Expire` (in `ConsumerGroup` and `BackgroundTasks`) and `Kill`
  may come at any moment instead, except that no TTL ends while the task of its event lives.
- The attempts and sleeps of the statements of background tasks: a statement that fails is
  tried again any number of times, or raises. `DatabaseRetry` and `DatabasePool` count them.
- What the drivers do with a statement: `%%` without arguments stays `%%` for one engine and
  becomes `%` for the other; PostgreSQL refuses more than 32767 arguments of a batch as a
  whole, and `insert_batch` does not split it; rows and their conversion; parsing of the DSN.
- `retry_async` with `max_attempts = 0`, which fails its `assert`: no caller passes it, and
  `DbAttemptsAssumption` excludes it.
- `has_been_processed` and `release` of `IdempotencyStore`, and `close_all` of the Redis
  factory: nothing calls them. The factory is a cache of clients used once.
- The HTTP endpoint of the metrics, the rendering and configuration of the log, the two
  counters of the example.
- Schemas: an event is valid or not. SQL identifiers: one regular expression.
- Settings, the arguments of the Kafka factory beyond manual commits and the earliest
  offset, exceptions (their classes are the outcomes in `ConsumerGroup` and
  `DatabaseRetry`), the empty `services` package, Alembic and the demo producer: no state
  that the program reads back.
