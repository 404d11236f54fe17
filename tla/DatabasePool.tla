---------------------------- MODULE DatabasePool ----------------------------
(***************************************************************************)
(* The connection pool behind Database (src/src/db/database.py), shared by *)
(* concurrent calls: a call acquires a connection, runs its statement and  *)
(* gives the connection back, whatever comes of it, before retry_async     *)
(* sleeps and tries again.  connect() and close() may come in between.     *)
(***************************************************************************)
EXTENDS Integers, FiniteSets

CONSTANTS
    Callers,    \* the handler, or the background tasks, that call Database
    MaxSize,    \* max_size: connections of the pool
    DbAttempts  \* max_retries: the max_attempts of retry_async

ASSUME CallersAssumption == IsFiniteSet(Callers)
ASSUME MaxSizeAssumption == MaxSize \in Nat \ {0}
ASSUME DbAttemptsAssumption == DbAttempts \in Nat \ {0}

VARIABLES
    pool,  \* _pool: none, open, or closing
    free,  \* connections that can be handed out, those not yet opened included
    call,  \* call[c]: what the call of c waits for
    try    \* try[c]: attempt of retry_async

database == <<pool, free, call, try>>

CallStates == {"idle", "acquire", "statement", "backoff"}

\* A connection is held during a statement and at no other time.
Holders == {c \in Callers : call[c] = "statement"}
Idle == \A c \in Callers : call[c] = "idle"

Init ==
    /\ pool = "none"
    /\ free = 0
    /\ call = [c \in Callers |-> "idle"]
    /\ try = [c \in Callers |-> 0]

Move(c, from, to) ==
    /\ call[c] = from
    /\ call' = [call EXCEPT ![c] = to]

Connect ==
    /\ pool = "none"
    /\ pool' = "open"
    /\ free' = MaxSize
    /\ UNCHANGED <<call, try>>

Begin(c) ==
    /\ Move(c, "idle", "acquire")
    /\ try' = [try EXCEPT ![c] = 1]
    /\ UNCHANGED <<pool, free>>

\* Who was waiting when close() began may still be given a connection.
Acquire(c) ==
    /\ pool # "none"
    /\ free > 0
    /\ Move(c, "acquire", "statement")
    /\ free' = free - 1
    /\ UNCHANGED <<pool, try>>

\* acquire() of a closing pool raises, and so does that of None.
Refused(c) ==
    /\ pool # "open"
    /\ Move(c, "acquire", "idle")
    /\ UNCHANGED <<pool, free, try>>

\* No connection can be opened.
AcquireError(c) ==
    /\ pool # "none"
    /\ free > 0
    /\ Move(c, "acquire", "idle")
    /\ UNCHANGED <<pool, free, try>>

\* The statement returns, or raises what retry_async does not repeat.
Finish(c) ==
    /\ Move(c, "statement", "idle")
    /\ free' = free + 1
    /\ UNCHANGED <<pool, try>>

\* Mutants of Retry: one attempt more, and an error path that does not give the
\* connection back.
RetryLate(c) ==
    /\ Move(c, "statement", IF try[c] <= DbAttempts THEN "backoff" ELSE "idle")
    /\ free' = free + 1
    /\ UNCHANGED <<pool, try>>

RetryLeaks(c) ==
    /\ Move(c, "statement", IF try[c] < DbAttempts THEN "backoff" ELSE "idle")
    /\ UNCHANGED <<pool, free, try>>

\* A retryable error leaves the async with of the connection before retry_async
\* sees it.
Retry(c) ==
    /\ Move(c, "statement", IF try[c] < DbAttempts THEN "backoff" ELSE "idle")
    /\ free' = free + 1
    /\ UNCHANGED <<pool, try>>

Wake(c) ==
    /\ Move(c, "backoff", "acquire")
    /\ try' = [try EXCEPT ![c] = @ + 1]
    /\ UNCHANGED <<pool, free>>

\* Every call is cancelled; async with gives the connections back.
CancelAll ==
    /\ call' = [c \in Callers |-> "idle"]
    /\ free' = free + Cardinality(Holders)
    /\ UNCHANGED <<pool, try>>

Close ==
    /\ pool = "open"
    /\ pool' = "closing"
    /\ UNCHANGED <<free, call, try>>

\* Mutant of Closed: close() does not wait for the connections in use.
ClosedInUse ==
    /\ pool = "closing"
    /\ pool' = "none"
    /\ free' = 0
    /\ UNCHANGED <<call, try>>

\* close() waits, without a limit, until every connection is back.
Closed ==
    /\ pool = "closing"
    /\ free = MaxSize
    /\ pool' = "none"
    /\ free' = 0
    /\ UNCHANGED <<call, try>>

\* What a call does when its request has an answer.
CallStep(c) == Acquire(c) \/ Refused(c) \/ Finish(c) \/ Wake(c)

\* A request fails.
CallError(c) == AcquireError(c) \/ Retry(c)

-----------------------------------------------------------------------------

PoolTypeOK ==
    /\ pool \in {"none", "open", "closing"}
    /\ free \in 0 .. MaxSize
    /\ call \in [Callers -> CallStates]
    /\ try \in [Callers -> 0 .. DbAttempts]

\* Connections are neither lost nor handed out twice, on whatever path a call
\* ends, and none is in use when the pool is gone.
PoolIsWhole ==
    free + Cardinality(Holders) = IF pool = "none" THEN 0 ELSE MaxSize
=============================================================================
