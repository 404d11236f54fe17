-------------------------- MODULE BackgroundTasks --------------------------
(***************************************************************************)
(* The background pattern of BaseConsumer (src/src/core/consumer.py): each *)
(* event becomes an asyncio task, its offset is committed at once, and the *)
(* task records its progress in a table of its own.  Several pods of one   *)
(* group, their restarts and shutdowns, and rebalances.                    *)
(*                                                                         *)
(* The task, the table and the recovery in on_start() belong to the        *)
(* subclass; they follow docs/patterns/background-tasks.md, and on_stop()  *)
(* closes the database as ExampleConsumer does.  The statements of a pod's *)
(* tasks share the connections of its pool (src/src/db/database.py); the   *)
(* work between them uses none of these.                                   *)
(***************************************************************************)
EXTENDS Integers, FiniteSets

CONSTANTS
    Pods,        \* replicas of the deployment
    Last,        \* the partition holds the events 1 .. Last
    MaxSize,     \* max_size: connections of a pod's pool
    Budget,      \* how often each kind of fault may strike
    MaxFaults,   \* how many faults of all kinds may strike
    NoPod        \* owner of a partition that is assigned to nobody

FaultKinds == {"kill", "signal", "rebalance", "error", "expire"}

ASSUME PodsAssumption == IsFiniteSet(Pods) /\ NoPod \notin Pods
ASSUME LastAssumption == Last \in Nat
ASSUME MaxSizeAssumption == MaxSize \in Nat \ {0}
ASSUME BudgetAssumption == Budget \in [FaultKinds -> Nat] /\ MaxFaults \in Nat

Events == 1 .. Last

VARIABLES
    pc,         \* pc[k]: what run() is waiting for
    stop,       \* stop[k]: _stop_event
    db,         \* db[k]: the connection pool is none, open or closing
    owner,      \* the pod the partition is assigned to
    committed,  \* the last event whose offset is committed
    position,   \* position[k]: the last event fetched since the assignment
    at,         \* at[k]: the event last taken from the batch
    upto,       \* upto[k]: the last event of the batch
    claims,     \* events claimed in Redis
    expired,    \* events whose claim has outlived its TTL once
    task,       \* task[k][e]: how far the task in _background_tasks is
    held,       \* held[k]: events whose task runs a statement on a connection
    recovered,  \* recovered[k]: events whose work on_start() took up again
    row,        \* row[e]: status of the event in the table
    worked,     \* worked[e]: how often the work of e was carried out
    dlq,        \* events in the dead letter topic
    budget      \* faults that may still strike

process == <<pc, stop, db>>
kafka == <<owner, committed, position>>
batch == <<at, upto>>
redis == <<claims, expired>>
tasks == <<task, held, recovered>>
table == <<row, worked>>
vars == <<process, kafka, batch, redis, tasks, table, dlq, budget>>

RunStates == {"off", "on_start", "loop", "claim", "spawn", "dlq", "settle",
              "on_stop", "drain", "close"}

\* A task is to insert its row, to work, to record success or to record failure.
TaskStates == {"none", "insert", "work", "done", "failed"}

NoTasks == [e \in Events |-> "none"]

\* Events that were claimed at some time.
Accepted == claims \cup expired

\* _background_tasks: the done callback removes a task as soon as it ends.
Tracked(k) == {e \in Events : task[k][e] # "none"}

Init ==
    /\ pc = [k \in Pods |-> "off"]
    /\ stop = [k \in Pods |-> FALSE]
    /\ db = [k \in Pods |-> "none"]
    /\ owner = NoPod
    /\ committed = 0
    /\ position = [k \in Pods |-> 0]
    /\ at = [k \in Pods |-> 0]
    /\ upto = [k \in Pods |-> 0]
    /\ claims = {}
    /\ expired = {}
    /\ task = [k \in Pods |-> NoTasks]
    /\ held = [k \in Pods |-> {}]
    /\ recovered = [k \in Pods |-> {}]
    /\ row = [e \in Events |-> "none"]
    /\ worked = [e \in Events |-> 0]
    /\ dlq = {}
    /\ budget = Budget

Goto(k, from, to) ==
    /\ pc[k] = from
    /\ pc' = [pc EXCEPT ![k] = to]

Spent(fault) == Budget[fault] - budget[fault]

\* Faults of any kind that struck.
AllSpent ==
    Spent("kill") + Spent("signal") + Spent("rebalance") + Spent("error") + Spent("expire")

Spend(fault) ==
    /\ budget[fault] > 0
    /\ AllSpent < MaxFaults
    /\ budget' = [budget EXCEPT ![fault] = @ - 1]

-----------------------------------------------------------------------------
(***************************************************************************)
(* The group coordinator: one partition, which moves                       *)
(***************************************************************************)

\* A live pod is given the partition and fetches from the committed offset.
Assign(k) ==
    /\ owner = NoPod
    /\ pc[k] # "off"
    /\ owner' = k
    /\ position' = [position EXCEPT ![k] = committed]
    /\ UNCHANGED <<process, committed, batch, redis, tasks, table, dlq, budget>>

\* The partition is taken from its owner, which keeps the batch in its hands.
Rebalance ==
    /\ owner # NoPod
    /\ Spend("rebalance")
    /\ owner' = NoPod
    /\ UNCHANGED <<process, committed, position, batch, redis, tasks, table, dlq>>

-----------------------------------------------------------------------------
(***************************************************************************)
(* Redis                                                                   *)
(***************************************************************************)

\* claim() set the key with a TTL of a week, which no task outlives.
Expire(e) ==
    /\ e \in claims
    /\ \A k \in Pods : task[k][e] = "none"
    /\ Spend("expire")
    /\ claims' = claims \ {e}
    /\ expired' = expired \cup {e}
    /\ UNCHANGED <<process, kafka, batch, tasks, table, dlq>>

-----------------------------------------------------------------------------
(***************************************************************************)
(* run() and its loop                                                      *)
(***************************************************************************)

\* A new process: the clients are started and join the group.
Start(k) ==
    /\ Goto(k, "off", "on_start")
    /\ stop' = [stop EXCEPT ![k] = FALSE]
    /\ UNCHANGED <<db, kafka, batch, redis, tasks, table, dlq, budget>>

\* Mutant of OnStart: the subclass has no crash recovery.
OnStartForgets(k) ==
    /\ Goto(k, "on_start", "loop")
    /\ db' = [db EXCEPT ![k] = "open"]
    /\ UNCHANGED <<stop, kafka, batch, redis, tasks, table, dlq, budget>>

\* on_start(): the pool is opened, and what the table says is in progress, in
\* whatever pod, is taken up by tasks that _background_tasks does not know.
OnStart(k) ==
    /\ Goto(k, "on_start", "loop")
    /\ db' = [db EXCEPT ![k] = "open"]
    /\ recovered' = [recovered EXCEPT ![k] = {e \in Events : row[e] = "processing"}]
    /\ UNCHANGED <<stop, kafka, batch, redis, task, held, table, dlq, budget>>

\* on_start(), getmany(), claim() or a request of the dead letter path fails.
RunError(k) ==
    /\ \E from \in {"on_start", "loop", "claim", "dlq", "settle"} : Goto(k, from, "on_stop")
    /\ Spend("error")
    /\ db' \in IF pc[k] = "on_start" THEN {db, [db EXCEPT ![k] = "open"]} ELSE {db}
    /\ claims' \in IF pc[k] = "claim" THEN {claims, claims \cup {at[k]}} ELSE {claims}
    /\ dlq' \in IF pc[k] = "dlq" THEN {dlq, dlq \cup {at[k]}} ELSE {dlq}
    /\ committed' \in IF pc[k] = "settle" /\ owner = k THEN {committed, at[k]} ELSE {committed}
    /\ UNCHANGED <<stop, owner, position, batch, expired, tasks, table>>

Signal(k) ==
    /\ pc[k] # "off"
    /\ ~stop[k]
    /\ Spend("signal")
    /\ stop' = [stop EXCEPT ![k] = TRUE]
    /\ UNCHANGED <<pc, db, kafka, batch, redis, tasks, table, dlq>>

LeaveLoop(k) ==
    /\ stop[k]
    /\ Goto(k, "loop", "on_stop")
    /\ UNCHANGED <<stop, db, kafka, batch, redis, tasks, table, dlq, budget>>

\* getmany() when the batch is used up: some of the events that come next.
Poll(k) ==
    /\ pc[k] = "loop"
    /\ ~stop[k]
    /\ at[k] = upto[k]
    /\ owner = k
    /\ \E last \in position[k] + 1 .. Last :
         /\ at' = [at EXCEPT ![k] = position[k]]
         /\ upto' = [upto EXCEPT ![k] = last]
         /\ position' = [position EXCEPT ![k] = last]
    /\ UNCHANGED <<process, owner, committed, redis, tasks, table, dlq, budget>>

Take(k) ==
    /\ ~stop[k]
    /\ at[k] < upto[k]
    /\ Goto(k, "loop", "claim")
    /\ at' = [at EXCEPT ![k] = @ + 1]
    /\ UNCHANGED <<stop, db, kafka, upto, redis, tasks, table, dlq, budget>>

\* The connections in use when the task of e asks for one: it has it at once
\* unless all are taken, and then waits.
Connect(e, used) == IF Cardinality(used) < MaxSize THEN used \cup {e} ELSE used

\* Mutants of Spawn: every dispatch takes the event for a new one, and nobody
\* keeps a reference to the task, which is collected before it ran.
SpawnUnclaimed(k) ==
    /\ Goto(k, "claim", "spawn")
    /\ claims' = claims \cup {at[k]}
    /\ task' = [task EXCEPT ![k][at[k]] = "insert"]
    /\ held' = [held EXCEPT ![k] = Connect(at[k], @)]
    /\ UNCHANGED <<stop, db, kafka, batch, expired, recovered, table, dlq, budget>>

SpawnUnreferenced(k) ==
    /\ Goto(k, "claim", "spawn")
    /\ at[k] \notin claims
    /\ claims' = claims \cup {at[k]}
    /\ UNCHANGED <<stop, db, kafka, batch, expired, tasks, table, dlq, budget>>

\* _spawn_background: the task is created and registered, and runs up to its
\* first statement as soon as the commit that follows is awaited.
Spawn(k) ==
    /\ Goto(k, "claim", "spawn")
    /\ at[k] \notin claims
    /\ claims' = claims \cup {at[k]}
    /\ task' = [task EXCEPT ![k][at[k]] = "insert"]
    /\ held' = [held EXCEPT ![k] = Connect(at[k], @)]
    /\ UNCHANGED <<stop, db, kafka, batch, expired, recovered, table, dlq, budget>>

\* Mutant of Duplicate: the offset of a duplicate is not committed.
DuplicateUncommitted(k) ==
    /\ Goto(k, "claim", "loop")
    /\ at[k] \in claims
    /\ UNCHANGED <<stop, db, kafka, batch, redis, tasks, table, dlq, budget>>

Duplicate(k) ==
    /\ Goto(k, "claim", "settle")
    /\ at[k] \in claims
    /\ UNCHANGED <<stop, db, kafka, batch, redis, tasks, table, dlq, budget>>

\* Mutant of CommitOk: one offset too far.
CommitAhead(k) ==
    /\ \E from \in {"spawn", "settle"} : Goto(k, from, "loop")
    /\ owner = k
    /\ committed' = at[k] + 1
    /\ UNCHANGED <<stop, db, owner, position, batch, redis, tasks, table, dlq, budget>>

CommitOk(k) ==
    /\ \E from \in {"spawn", "settle"} : Goto(k, from, "loop")
    /\ owner = k
    /\ committed' = at[k]
    /\ UNCHANGED <<stop, db, owner, position, batch, redis, tasks, table, dlq, budget>>

\* Where the exception of a commit goes: that of _spawn_background is raised
\* inside the try of _process_with_retry, and the event is dead-lettered while
\* its task goes on; any other leaves the loop.
CommitRaises(k) == Goto(k, "spawn", "dlq") \/ Goto(k, "settle", "on_stop")

\* The partition belongs to another pod now.
CommitRejected(k) ==
    /\ CommitRaises(k)
    /\ owner # k
    /\ UNCHANGED <<stop, db, kafka, batch, redis, tasks, table, dlq, budget>>

CommitError(k) ==
    /\ Goto(k, "spawn", "dlq")
    /\ owner = k
    /\ Spend("error")
    /\ committed' \in {committed, at[k]}
    /\ UNCHANGED <<stop, db, owner, position, batch, redis, tasks, table, dlq>>

\* Mutant of SendDlq: the loop goes on without a commit.
SendDlqUnsettled(k) ==
    /\ Goto(k, "dlq", "loop")
    /\ dlq' = dlq \cup {at[k]}
    /\ UNCHANGED <<stop, db, kafka, batch, redis, tasks, table, budget>>

SendDlq(k) ==
    /\ Goto(k, "dlq", "settle")
    /\ dlq' = dlq \cup {at[k]}
    /\ UNCHANGED <<stop, db, kafka, batch, redis, tasks, table, budget>>

-----------------------------------------------------------------------------
(***************************************************************************)
(* The tasks.  One whose statement has no connection waits for one in      *)
(* acquire(), or sleeps before the next attempt of retry_async.            *)
(***************************************************************************)

\* What the statement of a task writes to the row of its event.
Status(k, e) == IF task[k][e] = "insert" THEN "processing" ELSE task[k][e]

SetRow(e, status) == row' = [row EXCEPT ![e] = status]

Worked(e) == worked' = [worked EXCEPT ![e] = @ + 1]

\* The task runs up to its next statement.  A pool that is closing or gone
\* refuses every statement that begins, so that the task raises at once.
Proceed(k, e, used, to) ==
    /\ task' = [task EXCEPT ![k][e] = IF db[k] = "open" THEN to ELSE "none"]
    /\ held' = [held EXCEPT ![k] = IF db[k] = "open" THEN Connect(e, used) ELSE used]
    /\ UNCHANGED <<process, kafka, batch, redis, recovered, dlq>>

\* The task goes on, or ends, without a statement.
Release(k, e, to) ==
    /\ task' = [task EXCEPT ![k][e] = to]
    /\ held' = [held EXCEPT ![k] = @ \ {e}]
    /\ UNCHANGED <<process, kafka, batch, redis, recovered, dlq>>

\* The statement of a task runs on a connection, or does not have one yet.
Statement(k, e) == task[k][e] \in {"insert", "done", "failed"}
Served(k, e) == Statement(k, e) /\ e \in held[k]
Unserved(k, e) == Statement(k, e) /\ e \notin held[k]

Acquire(k, e) ==
    /\ Unserved(k, e)
    /\ db[k] # "none"
    /\ Cardinality(held[k]) < MaxSize
    /\ held' = [held EXCEPT ![k] = @ \cup {e}]
    /\ UNCHANGED <<process, kafka, batch, redis, task, recovered, table, dlq, budget>>

Insert(k, e) ==
    /\ Served(k, e)
    /\ task[k][e] = "insert"
    /\ Release(k, e, "work")
    /\ SetRow(e, "processing")
    /\ UNCHANGED <<worked, budget>>

\* Mutant of Work: success is reported before the work is carried out.
WorkLater(k, e) ==
    /\ task[k][e] = "work"
    /\ \E to \in {"done", "failed"} : Proceed(k, e, held[k], to)
    /\ UNCHANGED <<table, budget>>

Work(k, e) ==
    /\ task[k][e] = "work"
    /\ \/ Proceed(k, e, held[k], "done") /\ Worked(e)
       \/ Proceed(k, e, held[k], "failed") /\ UNCHANGED worked
    /\ UNCHANGED <<row, budget>>

Record(k, e) ==
    /\ Served(k, e)
    /\ task[k][e] \in {"done", "failed"}
    /\ Release(k, e, "none")
    /\ SetRow(e, task[k][e])
    /\ UNCHANGED <<worked, budget>>

\* The statement raises.  Nothing catches the exception of the first one, and
\* when success is not recorded the task records a failure instead; what a task
\* raises is logged by _on_background_done and goes no further.
Raise(k, e) ==
    \/ task[k][e] \in {"insert", "failed"} /\ Release(k, e, "none")
    \/ task[k][e] = "done" /\ Proceed(k, e, held[k] \ {e}, "failed")

\* A failed statement may have taken effect.  It is tried again after a sleep,
\* or raises.
StatementError(k, e) ==
    /\ Served(k, e)
    /\ Raise(k, e) \/ Release(k, e, task[k][e])
    /\ SetRow(e, Status(k, e)) \/ UNCHANGED row
    /\ Spend("error")
    /\ UNCHANGED worked

\* The pool is closing when the attempt asks for a connection, or when the one it
\* waited for is free: asyncpg's close() cancels a statement that has just begun,
\* which may have taken effect.
Refused(k, e) ==
    /\ Unserved(k, e)
    /\ db[k] # "open"
    /\ Cardinality(held[k]) < MaxSize
    /\ Raise(k, e)
    /\ SetRow(e, Status(k, e)) \/ UNCHANGED row
    /\ UNCHANGED <<worked, budget>>

\* A recovered task does the work but does not touch the row.
Recover(k, e) ==
    /\ e \in recovered[k]
    /\ recovered' = [recovered EXCEPT ![k] = @ \ {e}]
    /\ Worked(e)
    /\ UNCHANGED <<process, kafka, batch, redis, task, held, row, dlq, budget>>

RecoverError(k, e) ==
    /\ e \in recovered[k]
    /\ recovered' = [recovered EXCEPT ![k] = @ \ {e}]
    /\ Spend("error")
    /\ UNCHANGED <<process, kafka, batch, redis, task, held, table, dlq>>

-----------------------------------------------------------------------------
(***************************************************************************)
(* _shutdown()                                                             *)
(***************************************************************************)

\* on_stop() closes the pool, before the tasks are waited for, and waits without
\* a limit until no connection is in use.
OnStop(k) ==
    /\ pc[k] = "on_stop"
    /\ db[k] = "open"
    /\ db' = [db EXCEPT ![k] = "closing"]
    /\ UNCHANGED <<pc, stop, kafka, batch, redis, tasks, table, dlq, budget>>

OnStopDone(k) ==
    /\ Goto(k, "on_stop", "drain")
    /\ db[k] # "open"
    /\ held[k] = {}
    /\ db' = [db EXCEPT ![k] = "none"]
    /\ UNCHANGED <<stop, kafka, batch, redis, tasks, table, dlq, budget>>

\* An exception of on_stop() is logged and dropped.
OnStopError(k) ==
    /\ Goto(k, "on_stop", "drain")
    /\ Spend("error")
    /\ UNCHANGED <<stop, db, kafka, batch, redis, tasks, table, dlq>>

Drain(k) ==
    /\ Goto(k, "drain", "close")
    /\ Tracked(k) = {}
    /\ UNCHANGED <<stop, db, kafka, batch, redis, tasks, table, dlq, budget>>

\* Mutant of DrainTimeout: gather() is awaited without wait_for().
DrainForEver(k) ==
    /\ FALSE
    /\ UNCHANGED vars

\* 30 seconds are over: wait_for() cancels the tasks.  A statement cut off here,
\* or by the end of the process, that took effect is one that ended before.
DrainTimeout(k) ==
    /\ Goto(k, "drain", "close")
    /\ Tracked(k) # {}
    /\ task' = [task EXCEPT ![k] = NoTasks]
    /\ held' = [held EXCEPT ![k] = {}]
    /\ UNCHANGED <<stop, db, kafka, batch, redis, recovered, table, dlq, budget>>

\* The process is gone, with what it held in memory, and leaves the group.
EndProcess(k) ==
    /\ pc' = [pc EXCEPT ![k] = "off"]
    /\ stop' = [stop EXCEPT ![k] = FALSE]
    /\ db' = [db EXCEPT ![k] = "none"]
    /\ owner' = IF owner = k THEN NoPod ELSE owner
    /\ position' = [position EXCEPT ![k] = 0]
    /\ at' = [at EXCEPT ![k] = 0]
    /\ upto' = [upto EXCEPT ![k] = 0]
    /\ task' = [task EXCEPT ![k] = NoTasks]
    /\ held' = [held EXCEPT ![k] = {}]
    /\ recovered' = [recovered EXCEPT ![k] = {}]
    /\ UNCHANGED <<committed, redis, table, dlq>>

\* The clients are stopped, or one of them raises: the process ends, and
\* asyncio.run() cancels what still runs.
Close(k) ==
    /\ pc[k] = "close"
    /\ EndProcess(k)
    /\ UNCHANGED budget

Kill(k) ==
    /\ pc[k] # "off"
    /\ EndProcess(k)
    /\ Spend("kill")

-----------------------------------------------------------------------------

\* An await of run() has its answer.
Progress(k) ==
    \/ Start(k) \/ OnStart(k) \/ LeaveLoop(k) \/ Poll(k) \/ Take(k)
    \/ Spawn(k) \/ Duplicate(k) \/ CommitOk(k) \/ CommitRejected(k)
    \/ SendDlq(k) \/ OnStop(k) \/ OnStopDone(k) \/ Drain(k) \/ DrainTimeout(k) \/ Close(k)

TaskStep(k, e) ==
    \/ Acquire(k, e) \/ Refused(k, e) \/ StatementError(k, e)
    \/ Insert(k, e) \/ Work(k, e) \/ Record(k, e)
    \/ Recover(k, e) \/ RecoverError(k, e)

Next ==
    \/ \E k \in Pods :
         \/ Assign(k) \/ Progress(k)
         \/ Signal(k) \/ Kill(k) \/ RunError(k) \/ CommitError(k) \/ OnStopError(k)
         \/ \E e \in Events : TaskStep(k, e)
    \/ Rebalance
    \/ \E e \in Events : Expire(e)

Spec == Init /\ [][Next]_vars

\* K8s restarts the pods, their event loops resume what has its answer, the
\* coordinator ends a rebalance and the database answers a statement; the work of
\* a task may take for ever.
FairSpec ==
    /\ Spec
    /\ \A k \in Pods : WF_vars(Progress(k))
    /\ \A k \in Pods, e \in Events : WF_vars(Insert(k, e) \/ Record(k, e))
    /\ WF_vars(\E k \in Pods : Assign(k))

\* Every task comes to an end when the process lives long enough.
TasksEnd == \A k \in Pods, e \in Events : WF_vars(TaskStep(k, e))

-----------------------------------------------------------------------------
(***************************************************************************)
(* Properties                                                              *)
(***************************************************************************)

\* Every variable has its type.
TypeOK ==
    /\ pc \in [Pods -> RunStates]
    /\ stop \in [Pods -> BOOLEAN]
    /\ db \in [Pods -> {"none", "open", "closing"}]
    /\ owner \in Pods \cup {NoPod}
    /\ committed \in 0 .. Last
    /\ position \in [Pods -> 0 .. Last]
    /\ at \in [Pods -> 0 .. Last]
    /\ upto \in [Pods -> 0 .. Last]
    /\ claims \subseteq Events
    /\ expired \subseteq Events
    /\ held \in [Pods -> SUBSET Events]
    /\ task \in [Pods -> [Events -> TaskStates]]
    /\ recovered \in [Pods -> SUBSET Events]
    /\ row \in [Events -> {"none", "processing", "done", "failed"}]
    /\ worked \in [Events -> Nat]
    /\ dlq \subseteq Events
    /\ budget \in [FaultKinds -> Nat]

\* A committed event that no table, no task and no dead letter knows.
Lost ==
    {e \in 1 .. committed :
        row[e] = "none" /\ e \notin dlq /\ \A k \in Pods : task[k][e] = "none"}

\* An event is lost only when a process ends or a request fails: while there is
\* no fault, each committed event is in the table, in a task or in the DLQ,
\* however the tasks interleave with the loops of all pods.
LossNeedsFault == Lost # {} => AllSpent > 0

\* An event has at most one task in all pods.  Until its claim expires, a pod
\* that works on its task does not recover it as well, although a crash before
\* the commit makes on_start() recover it and Kafka deliver it again (the claim
\* outlives the process).
NoConcurrentWork ==
    \A e \in Events, k \in Pods :
        task[k][e] # "none" =>
            /\ e \notin recovered[k] \ expired
            /\ \A j \in Pods \ {k} : task[j][e] = "none"

\* The work of an event is repeated only by the recovery of a process that
\* starts while its row is in progress, and when its claim expired: once for
\* every pod but the one that began it, once for every process that a fault has
\* ended and once for every expiry.
WorkBounded == \A e \in Events : worked[e] <= Cardinality(Pods) + AllSpent

\* An accepted event is dead-lettered, although its task works on it or has
\* even succeeded, only when its commit failed: at most once per failed request
\* and per partition lost to a rebalance.
DeadLettersBounded == Cardinality(dlq) <= Spent("error") + Spent("rebalance")

\* The shutdown ends even when the work of tasks takes for ever: on_stop() waits
\* only for statements, and the drain has a limit.
ShutdownEnds == \A k \in Pods : stop[k] ~> pc[k] = "off"

\* As long as tasks end and no request fails, what the table has in progress is
\* worked on or recorded as failed in the end, whatever process that takes.
ProcessingIsRecovered ==
    TasksEnd =>
        \A e \in Events :
            row[e] = "processing" ~>
                (worked[e] > 0 \/ row[e] = "failed" \/ Spent("error") > 0)

\* Every event is accepted and its offset committed in the end, although pods
\* die, are stopped and lose the partition between any two steps.
EventsAreCommitted == <>(committed = Last)

-----------------------------------------------------------------------------
(***************************************************************************)
(* The pattern implements Jobs: no event is committed or dead-lettered     *)
(* before it is accepted, none is worked on before the table knows it, and *)
(* none that has ended begins again before its claim expires.              *)
(***************************************************************************)

JobState(e) ==
    CASE row[e] = "processing" -> "begun"
      [] row[e] = "done" -> "finished"
      [] row[e] = "failed" -> "failed"
      [] OTHER -> IF e \in Accepted THEN "accepted" ELSE "new"

Promise == INSTANCE Jobs WITH job <- [e \in Events |-> JobState(e)]

ImplementsJobs == Promise!Spec

-----------------------------------------------------------------------------
(***************************************************************************)
(* What the documentation says and the code does not do                    *)
(***************************************************************************)

\* docs/patterns/background-tasks.md:71-73: the tasks are tracked for a clean
\* shutdown, which waits for them.  Here: SIGTERM alone loses no event.  It does
\* when more tasks than connections are at their first statement.
GracefulStopKeepsWork ==
    Lost # {} => Spent("kill") + Spent("rebalance") + Spent("error") > 0
=============================================================================
