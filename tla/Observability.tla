---------------------------- MODULE Observability ----------------------------
(***************************************************************************)
(* What an operator sees of one process: the log lines, which carry the    *)
(* context variables (src/src/core/context.py, logging.py), and the        *)
(* metrics (src/src/core/metrics.py), as _dispatch, _process_with_retry    *)
(* and the background tasks (src/src/core/consumer.py) leave them.         *)
(***************************************************************************)
EXTENDS Integers, FiniteSets

CONSTANTS
    Last,        \* the loop dispatches the messages 1 .. Last
    MaxRetries,  \* BaseConsumer.max_retries
    MaxErrors    \* how often a request to Kafka or Redis, or a hook, may fail

ASSUME LastAssumption == Last \in Nat
ASSUME BoundsAssumption == MaxRetries \in Nat /\ MaxErrors \in Nat

Messages == 1 .. Last
Statuses == {"success", "retry", "dlq", "duplicate"}
Reasons == {"parse_error", "max_retries", "non_retryable", "unhandled_exception"}

\* The values of the context variables, and those outside any dispatch.
Contexts == [message : 0 .. Last, attempt : 0 .. MaxRetries]
NoContext == [message |-> 0, attempt |-> 0]

VARIABLES
    background,  \* the subclass overrides process_message_background()
    pc,          \* what _dispatch is waiting for
    at,          \* raw_message
    attempt,     \* attempt of _process_with_retry
    reason,      \* why the message goes to the DLQ
    context,     \* the context variables of the loop
    task,        \* task[m]: the task of m runs, has ended, or is not tracked
    copy,        \* copy[m]: the context that create_task() copied for it
    line,        \* the last log line: what it is about, and what it shows
    messages,    \* MESSAGES_TOTAL by status
    dlq,         \* DLQ_TOTAL by reason
    retries,     \* RETRY_TOTAL
    durations,   \* observations of MESSAGE_DURATION
    pending,     \* the gauge BACKGROUND_TASKS_PENDING
    uncommitted, \* commits that failed after a success was counted
    errors       \* failures that may still strike

dispatch == <<background, pc, at, attempt, reason, context>>
tasks == <<task, copy, pending>>
counters == <<messages, dlq, retries, durations, uncommitted>>
vars == <<dispatch, tasks, line, counters, errors>>

Init ==
    /\ background \in BOOLEAN
    /\ pc = "loop"
    /\ at = 0
    /\ attempt = 0
    /\ reason = "parse_error"
    /\ context = NoContext
    /\ task = [m \in Messages |-> "none"]
    /\ copy = [m \in Messages |-> NoContext]
    /\ line = [about |-> NoContext, shows |-> NoContext]
    /\ messages = [s \in Statuses |-> 0]
    /\ dlq = [r \in Reasons |-> 0]
    /\ retries = 0
    /\ durations = 0
    /\ pending = 0
    /\ uncommitted = 0
    /\ errors = MaxErrors

Goto(from, to) ==
    /\ pc = from
    /\ pc' = to
    /\ UNCHANGED background

Fails ==
    /\ errors > 0
    /\ errors' = errors - 1

\* _inject_context_vars adds the context of whoever logs to what is logged.
Log(about, shows) == line' = [about |-> about, shows |-> shows]
Current == [message |-> at, attempt |-> attempt]
LogCurrent == Log(Current, context)

CountMessage(status) == messages' = [messages EXCEPT ![status] = @ + 1]
Observe == durations' = durations + 1

-----------------------------------------------------------------------------
(***************************************************************************)
(* _dispatch                                                               *)
(***************************************************************************)

\* The context variables are set before the message is looked at.
Dispatch ==
    /\ at < Last
    /\ \E to \in {"claim", "dlq"} : Goto("loop", to)
    /\ at' = at + 1
    /\ attempt' = 0
    /\ reason' = "parse_error"
    /\ context' = [message |-> at', attempt |-> 0]
    /\ UNCHANGED <<tasks, line, counters, errors>>

\* The finally of _dispatch: the tokens restore what was there before.
Return(from) ==
    /\ Goto(from, "loop")
    /\ context' = NoContext
    /\ UNCHANGED <<at, attempt, reason>>

\* An exception leaves _dispatch; run() logs it as consumer_crashed.
Crash(from) ==
    /\ Goto(from, "over")
    /\ context' = NoContext
    /\ Log(NoContext, context')
    /\ Fails
    /\ UNCHANGED <<at, attempt, reason>>

ClaimDuplicate ==
    /\ Goto("claim", "settle")
    /\ CountMessage("duplicate")
    /\ LogCurrent
    /\ UNCHANGED <<at, attempt, reason, context, tasks, dlq, retries, durations, uncommitted, errors>>

ClaimNew ==
    /\ Goto("claim", "handle")
    /\ UNCHANGED <<at, attempt, reason, context, tasks, line, counters, errors>>

\* SET NX, on_message_retry(), the DLQ or the commit behind it fails.
RequestError ==
    /\ \E from \in {"claim", "backoff", "dlq", "settle"} : Crash(from)
    /\ UNCHANGED <<tasks, counters>>

\* The commit that ends a message.
Settle ==
    /\ Return("settle")
    /\ UNCHANGED <<tasks, line, counters, errors>>

-----------------------------------------------------------------------------
(***************************************************************************)
(* _process_with_retry                                                     *)
(***************************************************************************)

HandlerLogs ==
    /\ pc = "handle" /\ ~background
    /\ LogCurrent
    /\ UNCHANGED <<dispatch, tasks, counters, errors>>

HandlerReturns ==
    /\ ~background
    /\ Goto("handle", "commit")
    /\ CountMessage("success")
    /\ Observe
    /\ UNCHANGED <<at, attempt, reason, context, tasks, line, dlq, retries, uncommitted, errors>>

Commit ==
    /\ Return("commit")
    /\ UNCHANGED <<tasks, line, counters, errors>>

\* The message was counted as a success and goes to the DLQ as well.
CommitError ==
    /\ Goto("commit", "dlq")
    /\ reason' = "unhandled_exception"
    /\ uncommitted' = uncommitted + 1
    /\ LogCurrent
    /\ Fails
    /\ UNCHANGED <<at, attempt, context, tasks, messages, dlq, retries, durations>>

\* Mutant of HandlerRetries: one attempt more.
RetriesLate ==
    /\ ~background
    /\ attempt <= MaxRetries
    /\ Goto("handle", "backoff")
    /\ retries' = retries + 1
    /\ CountMessage("retry")
    /\ Observe
    /\ LogCurrent
    /\ UNCHANGED <<at, attempt, reason, context, tasks, dlq, uncommitted, errors>>

\* A RetryableError: another attempt, or the DLQ after the last one.
HandlerRetries ==
    /\ ~background
    /\ \/ /\ attempt < MaxRetries
          /\ Goto("handle", "backoff")
          /\ retries' = retries + 1
          /\ UNCHANGED reason
       \/ /\ attempt = MaxRetries
          /\ Goto("handle", "dlq")
          /\ reason' = "max_retries"
          /\ UNCHANGED retries
    /\ CountMessage("retry")
    /\ Observe
    /\ LogCurrent
    /\ UNCHANGED <<at, attempt, context, tasks, dlq, uncommitted, errors>>

Backoff ==
    /\ Goto("backoff", "handle")
    /\ attempt' = attempt + 1
    /\ context' = [context EXCEPT !.attempt = attempt']
    /\ UNCHANGED <<at, reason, tasks, line, counters, errors>>

HandlerFails ==
    /\ ~background
    /\ Goto("handle", "dlq")
    /\ reason' \in {"non_retryable", "unhandled_exception"}
    /\ Observe
    /\ LogCurrent
    /\ UNCHANGED <<at, attempt, context, tasks, messages, dlq, retries, uncommitted, errors>>

\* Mutant of SendDlq: only one of the two counters.
SendDlqUncounted ==
    /\ Goto("dlq", "settle")
    /\ dlq' = [dlq EXCEPT ![reason] = @ + 1]
    /\ LogCurrent
    /\ UNCHANGED <<at, attempt, reason, context, tasks, messages, retries, durations, uncommitted, errors>>

SendDlq ==
    /\ Goto("dlq", "settle")
    /\ dlq' = [dlq EXCEPT ![reason] = @ + 1]
    /\ CountMessage("dlq")
    /\ LogCurrent
    /\ UNCHANGED <<at, attempt, reason, context, tasks, retries, durations, uncommitted, errors>>

-----------------------------------------------------------------------------
(***************************************************************************)
(* Background tasks                                                        *)
(***************************************************************************)

Tracked == {m \in Messages : task[m] # "none"}

\* create_task() copies the context of the dispatch that spawns the task.
Spawn ==
    /\ background
    /\ Goto("handle", "spawn")
    /\ task' = [task EXCEPT ![at] = "running"]
    /\ copy' = [copy EXCEPT ![at] = context]
    /\ pending' = Cardinality(Tracked')
    /\ UNCHANGED <<at, attempt, reason, context, line, counters, errors>>

\* A success is counted when the task is accepted, not when it ends.
SpawnCommit ==
    /\ Return("spawn")
    /\ CountMessage("success")
    /\ Observe
    /\ UNCHANGED <<tasks, line, dlq, retries, uncommitted, errors>>

SpawnCommitError ==
    /\ Goto("spawn", "dlq")
    /\ reason' = "unhandled_exception"
    /\ Observe
    /\ LogCurrent
    /\ Fails
    /\ UNCHANGED <<at, attempt, context, tasks, messages, dlq, retries, uncommitted>>

\* Mutant of TaskLogs: the task sees the variables of the loop.
TaskLogsShared(m) ==
    /\ task[m] = "running"
    /\ Log([message |-> m, attempt |-> 0], context)
    /\ UNCHANGED <<dispatch, tasks, counters, errors>>

TaskLogs(m) ==
    /\ task[m] = "running"
    /\ Log([message |-> m, attempt |-> 0], copy[m])
    /\ UNCHANGED <<dispatch, tasks, counters, errors>>

TaskEnds(m) ==
    /\ task[m] = "running"
    /\ task' = [task EXCEPT ![m] = "ended"]
    /\ UNCHANGED <<dispatch, copy, pending, line, counters, errors>>

\* Mutant of TaskDone: the gauge is set when a task is spawned, and only then.
TaskDoneUnseen(m) ==
    /\ task[m] = "ended"
    /\ task' = [task EXCEPT ![m] = "none"]
    /\ UNCHANGED <<dispatch, copy, pending, line, counters, errors>>

\* _on_background_done, in the context in which it was registered: a failure is
\* logged, and counted nowhere.
TaskDone(m) ==
    /\ task[m] = "ended"
    /\ task' = [task EXCEPT ![m] = "none"]
    /\ pending' = Cardinality(Tracked')
    /\ UNCHANGED line \/ Log([message |-> m, attempt |-> 0], copy[m])
    /\ UNCHANGED <<dispatch, copy, counters, errors>>

-----------------------------------------------------------------------------

Next ==
    \/ Dispatch \/ ClaimDuplicate \/ ClaimNew \/ Settle \/ RequestError
    \/ HandlerLogs \/ HandlerReturns \/ Commit \/ CommitError
    \/ HandlerRetries \/ Backoff \/ HandlerFails \/ SendDlq
    \/ Spawn \/ SpawnCommit \/ SpawnCommitError
    \/ \E m \in Messages : TaskLogs(m) \/ TaskEnds(m) \/ TaskDone(m)

Spec == Init /\ [][Next]_vars

\* Every task ends, and the event loop runs its callback.
FairSpec == Spec /\ \A m \in Messages : WF_vars(TaskEnds(m)) /\ WF_vars(TaskDone(m))

-----------------------------------------------------------------------------
(***************************************************************************)
(* Properties                                                              *)
(***************************************************************************)

\* Every variable has its type.
TypeOK ==
    /\ background \in BOOLEAN
    /\ pc \in {"loop", "claim", "handle", "spawn", "commit", "backoff", "dlq", "settle", "over"}
    /\ at \in 0 .. Last
    /\ attempt \in 0 .. MaxRetries
    /\ reason \in Reasons
    /\ context \in Contexts
    /\ task \in [Messages -> {"none", "running", "ended"}]
    /\ copy \in [Messages -> Contexts]
    /\ line \in [about : Contexts, shows : Contexts]
    /\ messages \in [Statuses -> Nat]
    /\ dlq \in [Reasons -> Nat]
    /\ retries \in Nat
    /\ durations \in Nat
    /\ pending \in 0 .. Last
    /\ uncommitted \in 0 .. MaxErrors
    /\ errors \in 0 .. MaxErrors

\* Every log line shows the message and the attempt it is about, whether the
\* loop, a handler, a task or a callback writes it, and none shows a message
\* that is over: tasks log while the loop dispatches other messages.
LinesAreAttributed == line.shows = line.about

\* Between two dispatches the metrics tell what happened.  Each message is counted
\* once, as a success, a dead letter or a duplicate, except that one whose commit
\* failed in the synchronous pattern is a success and a dead letter too; the
\* messages of status retry are the retries and the messages given up; and every
\* attempt was timed once.
MetricsAgree ==
    pc = "loop" =>
        /\ messages["success"] + messages["dlq"] + messages["duplicate"] = at + uncommitted
        /\ background => uncommitted = 0
        /\ messages["retry"] = retries + dlq["max_retries"]
        /\ durations + uncommitted =
             messages["success"] + messages["retry"]
                 + dlq["non_retryable"] + dlq["unhandled_exception"]

\* docs/observability.md:152: the gauge of the pending tasks comes back to zero
\* when the burst is over.
PendingReturnsToZero == <>[](pending = 0)
=============================================================================
