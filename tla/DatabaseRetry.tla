--------------------------- MODULE DatabaseRetry ---------------------------
(***************************************************************************)
(* One event on its way through the two nested retry loops: the loop of    *)
(* _process_with_retry (src/src/core/consumer.py) around a handler of the  *)
(* example consumer, which calls a statement of Database                   *)
(* (src/src/db/database.py), which retry_async (src/src/core/retry.py)     *)
(* repeats.  Any request may fail any number of times, and may take as     *)
(* long as its client lets it.  Time is in quarters of a second.           *)
(***************************************************************************)
EXTENDS Integers

CONSTANTS
    MaxRetries,  \* BaseConsumer.max_retries
    DbAttempts,  \* Database.max_retries: the max_attempts of retry_async
    RetryBase,   \* BaseConsumer.retry_base_delay
    RetryCap,    \* BaseConsumer.retry_cap_delay, and the default of retry_async
    DbBase,      \* Database.retry_base_delay
    Command,     \* Database.command_timeout
    Connect,     \* connection timeout of asyncpg, which the code leaves as it is
    Forever,     \* longer than any time that has a limit
    MaxTime      \* the time within which a message is to be handled

ASSUME MaxRetriesAssumption == MaxRetries \in Nat
ASSUME DbAttemptsAssumption == DbAttempts \in Nat \ {0}
ASSUME TimesAssumption ==
    /\ {RetryBase, RetryCap, DbBase, Command, Connect, Forever} \subseteq Nat
    /\ MaxTime \in 0 .. Forever - 1

Handlers == {"greeting", "farewell"}
Engines == {"mariadb", "postgresql"}
Operations == {"execute", "fetch", "call_procedure"}

\* A request can fail to get a connection, with an error that the engine lists
\* as retryable, or with any other error.
Failures == {"connect", "transient", "permanent"}

VARIABLES
    handler,  \* the function the event is for
    engine,   \* the subclass of Database
    op,       \* the operation the handler calls
    valid,    \* the event passes its schema and its handler's checks
    pc,       \* what the handling is waiting for
    attempt,  \* attempt of _process_with_retry
    try,      \* attempt of retry_async
    stored,   \* the database holds what the operation writes
    failed,   \* failed[f]: how often a request failed in this way
    elapsed   \* the time since the handling began, at most Forever

call == <<handler, engine, op, valid>>
vars == <<call, pc, attempt, try, stored, failed, elapsed>>

Ended == {"ok", "dlq"}

Init ==
    /\ handler \in Handlers
    /\ engine \in Engines
    /\ op \in Operations
    /\ valid \in BOOLEAN
    /\ pc = "handle"
    /\ attempt = 0
    /\ try = 0
    /\ stored = FALSE
    /\ failed = [f \in Failures |-> 0]
    /\ elapsed = 0

Goto(from, to) ==
    /\ pc = from
    /\ pc' = to

\* Failures are counted up to one more than both loops allow.
FailureCap == DbAttempts * (MaxRetries + 1) + 1

Fail(f) == failed' = [failed EXCEPT ![f] = IF @ < FailureCap THEN @ + 1 ELSE @]

\* Fetches leave nothing behind, and only MariaDB needs a commit of its own.
Writes == op # "fetch"
Commits == engine = "mariadb" /\ Writes

Least(a, b) == IF a < b THEN a ELSE b

\* A request takes no time worth counting, or all that its client allows.
\* MariaDB's command_timeout limits the connecting only, not the statements.  For
\* asyncpg it limits the statement, and the one that resets the connection when
\* it is given back.
Takes(limit) == elapsed' \in {elapsed, Least(elapsed + limit, Forever)}
Connecting == Takes(IF engine = "mariadb" THEN Command ELSE Connect)
Statement == Takes(IF engine = "mariadb" THEN Forever ELSE 2 * Command)

\* backoff_with_jitter: the doubled delay, of which the jitter makes one and a
\* half at most, capped.
Sleeps(base, n) ==
    elapsed' = Least(elapsed + Least((3 * base * 2^n) \div 2, RetryCap), Forever)

-----------------------------------------------------------------------------
(***************************************************************************)
(* Where an exception goes                                                 *)
(***************************************************************************)

\* Mutant of GiveUp: one attempt less.
GiveUpEarly(retryable) ==
    IF retryable /\ attempt + 1 < MaxRetries
    THEN pc' = "backoff"
    ELSE pc' = "dlq"

\* Mutant of GiveUp: one attempt more.
GiveUpLate(retryable) ==
    IF retryable /\ attempt <= MaxRetries
    THEN pc' = "backoff"
    ELSE pc' = "dlq"

\* Mutant of GiveUp: the loop runs out, and nothing is done about the message.
GiveUpRunsOut(retryable) ==
    pc' = IF ~retryable THEN "dlq" ELSE IF attempt < MaxRetries THEN "backoff" ELSE "over"

\* _process_with_retry: a RetryableError is tried again while attempts are
\* left, and every other exception ends in the DLQ.
GiveUp(retryable) ==
    IF retryable /\ attempt < MaxRetries
    THEN pc' = "backoff"
    ELSE pc' = "dlq"

\* An exception leaves the database: handle_greeting turns any of them into a
\* RetryableError, handle_farewell lets it pass.
Raise(retryable) ==
    GiveUp(retryable \/ handler = "greeting") /\ UNCHANGED try

\* Mutant of RaiseTransient: the loop ends one attempt too late.
RaiseTransientLate ==
    IF try <= DbAttempts
    THEN pc' = "db_backoff" /\ UNCHANGED try
    ELSE Raise(TRUE)

\* retry_async: a RetryableError is repeated until the attempts are used up,
\* and then raised.
RaiseTransient ==
    IF try < DbAttempts
    THEN pc' = "db_backoff" /\ UNCHANGED try
    ELSE Raise(TRUE)

-----------------------------------------------------------------------------
(***************************************************************************)
(* The handling                                                            *)
(***************************************************************************)

\* process_message(): the event is valid and its handler calls the database.
Handle ==
    /\ valid
    /\ Goto("handle", "acquire")
    /\ try' = 1
    /\ UNCHANGED <<call, attempt, stored, failed, elapsed>>

\* A NonRetryableError: the schema, or an empty greeting.
Reject ==
    /\ ~valid
    /\ Goto("handle", "dlq")
    /\ UNCHANGED <<call, attempt, try, stored, failed, elapsed>>

Acquire ==
    /\ Goto("acquire", "statement")
    /\ Connecting
    /\ UNCHANGED <<call, attempt, try, stored, failed>>

\* The pool cannot connect.  That is outside the try of _op, so the exception
\* is no RetryableError whatever its class.
AcquireError ==
    /\ pc = "acquire"
    /\ Fail("connect")
    /\ Raise(FALSE)
    /\ Connecting
    /\ UNCHANGED <<call, attempt, stored>>

\* Mutant of Execute: MariaDB's statement is not committed.
ExecuteOnly ==
    /\ Goto("statement", "ok")
    /\ stored' = IF Commits THEN stored ELSE (stored \/ Writes)
    /\ Statement
    /\ UNCHANGED <<call, attempt, try, failed>>

\* The statement is done; unless a commit has to follow, so is the handler.
Execute ==
    /\ Goto("statement", IF Commits THEN "commit" ELSE "ok")
    /\ stored' = (stored \/ (Writes /\ ~Commits))
    /\ Statement
    /\ UNCHANGED <<call, attempt, try, failed>>

Commit ==
    /\ Goto("commit", "ok")
    /\ stored' = TRUE
    /\ Statement
    /\ UNCHANGED <<call, attempt, try, failed>>

\* A request that fails may have taken effect, unless the commit is yet to come.
MayStore ==
    stored' \in IF pc = "commit" \/ (Writes /\ ~Commits) THEN {stored, TRUE} ELSE {stored}

\* The connection is lost, or the server gives up on the transaction.
TransientError ==
    /\ pc \in {"statement", "commit"}
    /\ Fail("transient")
    /\ RaiseTransient
    /\ MayStore
    /\ Statement
    /\ UNCHANGED <<call, attempt>>

\* Any other error of the statement or its commit, its time limit among them.
PermanentError ==
    /\ pc \in {"statement", "commit"}
    /\ Fail("permanent")
    /\ Raise(FALSE)
    /\ MayStore
    /\ Statement
    /\ UNCHANGED <<call, attempt>>

\* The sleep of retry_async; the connection was released before.
DbBackoff ==
    /\ Goto("db_backoff", "acquire")
    /\ try' = try + 1
    /\ Sleeps(DbBase, try - 1)
    /\ UNCHANGED <<call, attempt, stored, failed>>

\* on_message_retry() and the sleep of _process_with_retry.
Backoff ==
    /\ Goto("backoff", "handle")
    /\ attempt' = attempt + 1
    /\ Sleeps(RetryBase, attempt)
    /\ UNCHANGED <<call, try, stored, failed>>

Next ==
    \/ Handle \/ Reject
    \/ Acquire \/ AcquireError
    \/ Execute \/ Commit \/ TransientError \/ PermanentError
    \/ DbBackoff \/ Backoff

Spec == Init /\ [][Next]_vars

FairSpec == Spec /\ WF_vars(Next)

-----------------------------------------------------------------------------
(***************************************************************************)
(* Properties                                                              *)
(***************************************************************************)

\* Every variable has its type; neither loop runs too often.
TypeOK ==
    /\ handler \in Handlers
    /\ engine \in Engines
    /\ op \in Operations
    /\ valid \in BOOLEAN
    /\ pc \in Ended \cup {"handle", "acquire", "statement", "commit", "db_backoff", "backoff"}
    /\ attempt \in 0 .. MaxRetries
    /\ try \in 0 .. DbAttempts
    /\ stored \in BOOLEAN
    /\ failed \in [Failures -> Nat]
    /\ elapsed \in 0 .. Forever

\* When a handler returns, and its offset is about to be committed, what it
\* wrote is in the database, whichever engine and however many attempts.
SuccessIsStored == pc = "ok" /\ Writes => stored

\* A valid event is dead-lettered only after all the attempts it is entitled
\* to: DbAttempts transient failures in each of the MaxRetries + 1 calls of the
\* handler, except that a failure that retry_async does not repeat ends its
\* call (greeting) or the handling (farewell).
DeadLetterIsEarned ==
    pc = "dlq" /\ valid =>
        LET final == failed["connect"] + failed["permanent"] IN
        IF handler = "greeting"
        THEN failed["transient"] >= DbAttempts * (MaxRetries + 1 - final)
        ELSE \/ final = 1
             \/ failed["transient"] = DbAttempts * (MaxRetries + 1)

\* With PostgreSQL, whose requests are limited, a message is handled within
\* MaxTime, however slowly and often its requests fail.  (With MariaDB there is
\* no such time: a statement may take for ever.)
HandledInTime == engine = "postgresql" => elapsed <= MaxTime

\* The handling ends even when every request fails.
HandlingEnds == <>(pc \in Ended)
=============================================================================
