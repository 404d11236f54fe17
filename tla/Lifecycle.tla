------------------------------ MODULE Lifecycle ------------------------------
(***************************************************************************)
(* One container from the entry point to its end and its next start:       *)
(* _build() and run() of the example consumer, BaseConsumer.run() and      *)
(* _shutdown() (src/src/core/consumer.py), and what they start and stop:   *)
(* the Kafka clients, the health file and the pool, whose calls go on      *)
(* while the process is shut down.                                         *)
(***************************************************************************)
EXTENDS DatabasePool

CONSTANT Budget  \* how often each kind of fault may strike

\* A start or a stop that raises; any other exception; signals; the end of the
\* process without notice, which the grace period makes of a long shutdown.
FaultKinds == {"start", "stop", "error", "signal", "kill"}

ASSUME BudgetAssumption == Budget \in [FaultKinds -> Nat]

VARIABLES
    background,  \* the subclass overrides process_message_background()
    phase,       \* what the entry point is waiting for
    state,       \* _state, the gauge CONSUMER_STATE
    stop,        \* _stop_event
    member,      \* the broker takes the consumer for a member of its group
    producer,    \* the producer is started
    file,        \* the health file exists
    budget       \* faults that may still strike

process == <<background, phase, state, stop>>
clients == <<member, producer, file>>
vars == <<process, clients, budget, database>>

\* ConsumerState.  ERROR is set, and overwritten before anything is awaited.
States == {"STOPPED", "STARTING", "RUNNING", "STOPPING", "ERROR"}

ShutdownPhases == {"on_stop", "drain", "consumer_stop", "producer_stop", "health_stop"}
Phases == ShutdownPhases \cup
    {"off", "build", "consumer_start", "producer_start", "health_start", "on_start", "loop"}

LifeInit ==
    /\ Init
    /\ background \in BOOLEAN
    /\ phase = "off"
    /\ state = "STOPPED"
    /\ stop = FALSE
    /\ member = FALSE
    /\ producer = FALSE
    /\ file = FALSE
    /\ budget = Budget

Spent(fault) == Budget[fault] - budget[fault]

Spend(fault) ==
    /\ budget[fault] > 0
    /\ budget' = [budget EXCEPT ![fault] = @ - 1]

Goto(from, to) ==
    /\ phase = from
    /\ phase' = to
    /\ UNCHANGED background

\* The process is gone, and with it the pool and every call.  The broker and
\* the file system do not notice.
EndProcess ==
    /\ phase' = "off"
    /\ state' = "STOPPED"
    /\ stop' = FALSE
    /\ producer' = FALSE
    /\ pool' = "none"
    /\ free' = 0
    /\ call' = [c \in Callers |-> "idle"]
    /\ try' = [c \in Callers |-> 0]
    /\ UNCHANGED background

-----------------------------------------------------------------------------
(***************************************************************************)
(* Start                                                                   *)
(***************************************************************************)

\* Kubernetes starts the container; __init__ sets the gauge.
Boot ==
    /\ Goto("off", "build")
    /\ UNCHANGED <<state, stop, clients, budget, database>>

\* _build() is done: run() installs the signal handlers and makes the clients.
Run ==
    /\ Goto("build", "consumer_start")
    /\ state' = "STARTING"
    /\ UNCHANGED <<stop, clients, budget, database>>

ConsumerStarted ==
    /\ Goto("consumer_start", "producer_start")
    /\ member' = TRUE
    /\ UNCHANGED <<state, stop, producer, file, budget, database>>

ProducerStarted ==
    /\ Goto("producer_start", "health_start")
    /\ producer' = TRUE
    /\ UNCHANGED <<state, stop, member, file, budget, database>>

HealthStarted ==
    /\ Goto("health_start", "on_start")
    /\ file' = TRUE
    /\ UNCHANGED <<state, stop, member, producer, budget, database>>

\* All that is before the try of run(): nothing is stopped.
StartError ==
    /\ phase \in {"build", "consumer_start", "producer_start", "health_start"}
    /\ EndProcess
    /\ Spend("start")
    /\ UNCHANGED <<member, file>>

\* Mutant of Started: the event is cleared when the loop begins.
StartedClears ==
    /\ Goto("on_start", "loop")
    /\ Connect
    /\ state' = "RUNNING"
    /\ stop' = FALSE
    /\ UNCHANGED <<clients, budget>>

\* on_start() connects to the database.
Started ==
    /\ Goto("on_start", "loop")
    /\ Connect
    /\ state' = "RUNNING"
    /\ UNCHANGED <<stop, clients, budget>>

-----------------------------------------------------------------------------
(***************************************************************************)
(* The loop and its calls                                                  *)
(***************************************************************************)

\* The loop hands a message to the handler, which it awaits, or to a task.
Dispatch(c) ==
    /\ phase = "loop"
    /\ ~stop
    /\ background \/ Idle
    /\ Begin(c)
    /\ UNCHANGED <<process, clients, budget>>

Call(c) ==
    /\ CallStep(c)
    /\ UNCHANGED <<process, clients, budget>>

FailedCall(c) ==
    /\ CallError(c)
    /\ Spend("error")
    /\ UNCHANGED <<process, clients>>

\* Mutant of LeaveLoop: the handler is not waited for.
LeaveLoopAtOnce ==
    /\ stop
    /\ Goto("loop", "on_stop")
    /\ state' = "STOPPING"
    /\ UNCHANGED <<stop, clients, budget, database>>

LeaveLoop ==
    /\ stop
    /\ background \/ Idle
    /\ Goto("loop", "on_stop")
    /\ state' = "STOPPING"
    /\ UNCHANGED <<stop, clients, budget, database>>

\* Mutant of RunError: nothing is shut down.
RunErrorLeaves ==
    /\ \/ phase = "on_start"
       \/ phase = "loop" /\ (background \/ Idle)
    /\ EndProcess
    /\ Spend("error")
    /\ UNCHANGED <<member, file>>

\* on_start() or the loop raises: ERROR is overwritten at once by STOPPING.
RunError ==
    /\ \/ Goto("on_start", "on_stop")
       \/ Goto("loop", "on_stop") /\ (background \/ Idle)
    /\ state' = "STOPPING"
    /\ Spend("error")
    /\ UNCHANGED <<stop, clients, database>>

\* After run() has installed its handlers a signal sets the event, however
\* often it comes.
Signal ==
    /\ phase \notin {"off", "build"}
    /\ Spend("signal")
    /\ stop' = TRUE
    /\ UNCHANGED <<background, phase, state, clients, database>>

\* Before that SIGINT ends the process, and SIGTERM is lost: the kernel drops it
\* for the first process of a container, which has no handler.
EarlySignal ==
    /\ phase = "build"
    /\ Spend("signal")
    /\ EndProcess \/ UNCHANGED <<process, producer, database>>
    /\ UNCHANGED <<member, file>>

Kill ==
    /\ phase # "off"
    /\ EndProcess
    /\ Spend("kill")
    /\ UNCHANGED <<member, file>>

-----------------------------------------------------------------------------
(***************************************************************************)
(* _shutdown()                                                             *)
(***************************************************************************)

\* on_stop() closes the pool, if there is one.
OnStop ==
    /\ phase = "on_stop"
    /\ Close
    /\ UNCHANGED <<process, clients, budget>>

OnStopDone ==
    /\ Goto("on_stop", "drain")
    /\ \/ pool = "none" /\ UNCHANGED database
       \/ Closed
    /\ UNCHANGED <<state, stop, clients, budget>>

\* The exception of on_stop() is logged.
OnStopError ==
    /\ Goto("on_stop", "drain")
    /\ pool # "none"
    /\ pool' \in {pool, "closing"}
    /\ Spend("error")
    /\ UNCHANGED <<state, stop, clients, free, call, try>>

\* Mutant of Drain: the tasks are not awaited.
DrainNothing ==
    /\ Goto("drain", "consumer_stop")
    /\ UNCHANGED <<state, stop, clients, budget, database>>

\* gather() of the tasks, cancelled after 30 seconds.
Drain ==
    /\ Goto("drain", "consumer_stop")
    /\ (Idle /\ UNCHANGED database) \/ CancelAll
    /\ UNCHANGED <<state, stop, clients, budget>>

ConsumerStopped ==
    /\ Goto("consumer_stop", "producer_stop")
    /\ member' = FALSE
    /\ UNCHANGED <<state, stop, producer, file, budget, database>>

ProducerStopped ==
    /\ Goto("producer_stop", "health_stop")
    /\ producer' = FALSE
    /\ UNCHANGED <<state, stop, member, file, budget, database>>

\* The file is removed, the state is STOPPED, and asyncio.run() returns.
HealthStopped ==
    /\ phase = "health_stop"
    /\ EndProcess
    /\ file' = FALSE
    /\ UNCHANGED <<member, budget>>

\* A client does not stop, or the health writer had died: what comes after it
\* is not stopped.
StopError ==
    /\ phase \in {"consumer_stop", "producer_stop", "health_stop"}
    /\ EndProcess
    /\ Spend("stop")
    /\ UNCHANGED <<member, file>>

-----------------------------------------------------------------------------
(***************************************************************************)
(* The group coordinator                                                   *)
(***************************************************************************)

\* The membership is lost at any moment: heartbeats have stopped, because the
\* process is gone or its event loop blocked, or max_poll_interval_ms has passed
\* since the last getmany(), as it does while a handler is slow.
SessionTimeout ==
    /\ member
    /\ member' = FALSE
    /\ UNCHANGED <<process, producer, file, budget, database>>

\* A consumer that is started joins its group again, in a task of the client.
Rejoin ==
    /\ ~member
    /\ phase \in {"producer_start", "health_start", "on_start", "loop", "on_stop", "drain"}
    /\ member' = TRUE
    /\ UNCHANGED <<process, producer, file, budget, database>>

-----------------------------------------------------------------------------

\* An await of the entry point has its answer.
Progress ==
    \/ Boot \/ Run \/ ConsumerStarted \/ ProducerStarted \/ HealthStarted \/ Started
    \/ LeaveLoop \/ OnStop \/ OnStopDone \/ Drain
    \/ ConsumerStopped \/ ProducerStopped \/ HealthStopped

Next ==
    \/ Progress
    \/ \E c \in Callers : Dispatch(c) \/ Call(c) \/ FailedCall(c)
    \/ StartError \/ RunError \/ OnStopError \/ StopError
    \/ Signal \/ EarlySignal \/ Kill \/ SessionTimeout \/ Rejoin

Spec == LifeInit /\ [][Next]_vars

\* The event loop goes on, and every statement ends.
FairSpec ==
    /\ Spec
    /\ WF_vars(Progress)
    /\ \A c \in Callers : SF_vars(Call(c))

-----------------------------------------------------------------------------
(***************************************************************************)
(* Properties                                                              *)
(***************************************************************************)

\* Every variable has its type.
TypeOK ==
    /\ PoolTypeOK
    /\ background \in BOOLEAN
    /\ phase \in Phases
    /\ state \in States
    /\ stop \in BOOLEAN
    /\ member \in BOOLEAN
    /\ producer \in BOOLEAN
    /\ file \in BOOLEAN
    /\ budget \in [FaultKinds -> Nat]

\* A process that ends has left its group and removed its file, whatever was
\* raised in on_start(), the loop, on_stop() or a statement, and whenever it
\* was signalled; only a kill, or a start or stop that fails, leaves them.
LeavesNothingBehind ==
    phase = "off" /\ (member \/ file) =>
        Spent("kill") + Spent("start") + Spent("stop") > 0

\* The clients are stopped only when no task is left that could use them.
TasksEndBeforeClients ==
    phase \in {"consumer_stop", "producer_stop", "health_stop"} => Idle

\* In the synchronous pattern no shutdown begins under a handler: as long as its
\* call goes on, whatever signals and exceptions come, the gauge says RUNNING, and
\* that means a producer for the DLQ and an open pool.  It does not mean that the
\* pod is still a member of the group.
HandlersAreServed ==
    /\ state = "RUNNING" => producer /\ pool = "open"
    /\ ~background /\ ~Idle => state = "RUNNING"

\* Once the event is set, the process ends, although close() waits for every
\* connection in use and nobody limits that.
ShutdownCompletes == stop ~> phase = "off"

\* Every call comes to an end, however many share the pool, and also when it is
\* closed under them.
CallsEnd == \A c \in Callers : call[c] # "idle" ~> call[c] = "idle"
=============================================================================
