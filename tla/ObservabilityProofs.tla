------------------------- MODULE ObservabilityProofs -------------------------
(***************************************************************************)
(* Proofs about Observability, for every number of messages, retries and   *)
(* failures.                                                               *)
(***************************************************************************)
EXTENDS Observability, FiniteSetTheorems, TLAPS

-----------------------------------------------------------------------------
(***************************************************************************)
(* Types                                                                   *)
(***************************************************************************)

\* TypeOK is inductive once a dispatch is known to have a message, a retry to
\* be within the limit, and each uncommitted success to have cost a failure.
TypeInv ==
    /\ TypeOK
    /\ pc # "loop" => at \in Messages
    /\ pc = "backoff" => attempt < MaxRetries
    /\ uncommitted + errors <= MaxErrors

\* The gauge of the pending tasks counts some of the messages.
LEMMA TrackedIsBounded ==
    ASSUME NEW S \in SUBSET Messages
    PROVE  Cardinality(S) \in 0 .. Last
<1>1. IsFiniteSet(Messages) /\ Cardinality(Messages) = Last
  <2>1. 0 \in Int /\ Last \in Int /\ 1 \in Int
    BY LastAssumption
  <2>2. IsFiniteSet(1 .. Last) /\ Cardinality(1 .. Last) = IF 1 > Last THEN 0 ELSE Last - 1 + 1
    BY <2>1, FS_Interval
  <2>3. QED
    BY <2>2, LastAssumption DEF Messages
<1>2. IsFiniteSet(S) /\ Cardinality(S) <= Cardinality(Messages)
  BY <1>1, FS_Subset
<1>3. Cardinality(S) \in Nat
  BY <1>2, FS_CardinalityType
<1>4. QED
  BY <1>1, <1>2, <1>3, LastAssumption

\* The initial state has the types.
LEMMA TypeInit == Init => TypeInv
BY LastAssumption, BoundsAssumption
   DEF Init, TypeInv, TypeOK, NoContext, Contexts, Reasons, Statuses, Messages

\* Counting a message keeps the counter typed.
LEMMA CountType ==
    ASSUME messages \in [Statuses -> Nat], NEW s \in Statuses, CountMessage(s)
    PROVE  messages' \in [Statuses -> Nat]
BY DEF CountMessage

\* So does counting a dead letter.
LEMMA DlqType ==
    ASSUME dlq \in [Reasons -> Nat], NEW r \in Reasons, dlq' = [dlq EXCEPT ![r] = @ + 1]
    PROVE  dlq' \in [Reasons -> Nat]
OBVIOUS

\* The names that are used are statuses and reasons.
LEMMA Names ==
    /\ \A s \in {"success", "retry", "dlq", "duplicate"} : s \in Statuses
    /\ \A r \in {"parse_error", "max_retries", "non_retryable", "unhandled_exception"} : r \in Reasons
BY DEF Statuses, Reasons

\* A message and an attempt make a context.
LEMMA ContextType ==
    /\ \A m \in 0 .. Last, n \in 0 .. MaxRetries : [message |-> m, attempt |-> n] \in Contexts
    /\ NoContext \in Contexts
BY LastAssumption, BoundsAssumption DEF Contexts, NoContext

\* A log line consists of contexts.
LEMMA LogType ==
    ASSUME NEW a \in Contexts, NEW b \in Contexts, Log(a, b)
    PROVE  line' \in [about : Contexts, shows : Contexts]
BY DEF Log

\* What the loop logs about the message in hand consists of contexts.
LEMMA LogCurrentType ==
    ASSUME TypeInv, LogCurrent
    PROVE  line' \in [about : Contexts, shows : Contexts]
<1>1. Current \in Contexts
  BY ContextType DEF TypeInv, TypeOK, Current
<1>2. QED
  BY <1>1, LogType DEF LogCurrent, TypeInv, TypeOK

\* Every step keeps the types.
LEMMA TypeStep == TypeInv /\ [Next]_vars => TypeInv'
<1> SUFFICES ASSUME TypeInv, [Next]_vars PROVE TypeInv'
  OBVIOUS
<1> USE LastAssumption, BoundsAssumption
    DEF TypeInv, TypeOK, Messages, Goto, Fails, Observe, dispatch, tasks, counters, Return
<1>1. CASE Dispatch
  <2>1. context' \in Contexts
    BY <1>1, ContextType DEF Dispatch
  <2>2. QED
    BY <1>1, <2>1, Names DEF Dispatch
<1>2. CASE ClaimDuplicate
  <2>1. line' \in [about : Contexts, shows : Contexts]
    BY <1>2, LogCurrentType DEF ClaimDuplicate
  <2>2. messages' \in [Statuses -> Nat]
    BY <1>2, CountType, Names DEF ClaimDuplicate
  <2>3. QED
    BY <1>2, <2>1, <2>2 DEF ClaimDuplicate
<1>3. CASE ClaimNew
  BY <1>3 DEF ClaimNew
<1>4. CASE Settle
  <2>1. context' \in Contexts
    BY <1>4, ContextType DEF Settle
  <2>2. QED
    BY <1>4, <2>1 DEF Settle
<1>5. CASE RequestError
  <2>1. context' \in Contexts
    BY <1>5, ContextType DEF RequestError, Crash
  <2>2. line' \in [about : Contexts, shows : Contexts]
    BY <1>5, ContextType, LogType DEF RequestError, Crash
  <2>3. QED
    BY <1>5, <2>1, <2>2 DEF RequestError, Crash
<1>6. CASE HandlerLogs
  <2>1. line' \in [about : Contexts, shows : Contexts]
    BY <1>6, LogCurrentType DEF HandlerLogs
  <2>2. QED
    BY <1>6, <2>1 DEF HandlerLogs
<1>7. CASE HandlerReturns
  <2>1. messages' \in [Statuses -> Nat]
    BY <1>7, CountType, Names DEF HandlerReturns
  <2>2. QED
    BY <1>7, <2>1 DEF HandlerReturns
<1>8. CASE Commit
  <2>1. context' \in Contexts
    BY <1>8, ContextType DEF Commit
  <2>2. QED
    BY <1>8, <2>1 DEF Commit
<1>9. CASE CommitError
  <2>1. line' \in [about : Contexts, shows : Contexts]
    BY <1>9, LogCurrentType DEF CommitError
  <2>2. QED
    BY <1>9, <2>1, Names DEF CommitError
<1>10. CASE HandlerRetries
  <2>1. line' \in [about : Contexts, shows : Contexts]
    BY <1>10, LogCurrentType DEF HandlerRetries
  <2>2. messages' \in [Statuses -> Nat]
    BY <1>10, CountType, Names DEF HandlerRetries
  <2>3. CASE attempt < MaxRetries
    BY <1>10, <2>1, <2>2, <2>3 DEF HandlerRetries
  <2>4. CASE attempt = MaxRetries
    BY <1>10, <2>1, <2>2, <2>4, Names DEF HandlerRetries
  <2>5. QED
    BY <1>10, <2>3, <2>4 DEF HandlerRetries
<1>11. CASE Backoff
  <2>1. attempt' \in 0 .. MaxRetries
    BY <1>11 DEF Backoff
  <2>2. context' \in Contexts
    BY <1>11, <2>1 DEF Backoff, Contexts
  <2>3. QED
    BY <1>11, <2>1, <2>2 DEF Backoff
<1>12. CASE HandlerFails
  <2>1. line' \in [about : Contexts, shows : Contexts]
    BY <1>12, LogCurrentType DEF HandlerFails
  <2>2. QED
    BY <1>12, <2>1, Names DEF HandlerFails
<1>13. CASE SendDlq
  <2>1. line' \in [about : Contexts, shows : Contexts]
    BY <1>13, LogCurrentType DEF SendDlq
  <2>2. messages' \in [Statuses -> Nat]
    BY <1>13, CountType, Names DEF SendDlq
  <2>3. dlq' \in [Reasons -> Nat]
    BY <1>13, DlqType DEF SendDlq
  <2>4. QED
    BY <1>13, <2>1, <2>2, <2>3 DEF SendDlq
<1>14. CASE Spawn
  <2>1. pending' \in 0 .. Last
    BY <1>14, TrackedIsBounded DEF Spawn, Tracked
  <2>2. QED
    BY <1>14, <2>1 DEF Spawn
<1>15. CASE SpawnCommit
  <2>1. context' \in Contexts
    BY <1>15, ContextType DEF SpawnCommit
  <2>2. messages' \in [Statuses -> Nat]
    BY <1>15, CountType, Names DEF SpawnCommit
  <2>3. QED
    BY <1>15, <2>1, <2>2 DEF SpawnCommit
<1>16. CASE SpawnCommitError
  <2>1. line' \in [about : Contexts, shows : Contexts]
    BY <1>16, LogCurrentType DEF SpawnCommitError
  <2>2. QED
    BY <1>16, <2>1, Names DEF SpawnCommitError
<1>17. ASSUME NEW m \in Messages, TaskLogs(m) PROVE TypeInv'
  <2>1. line' \in [about : Contexts, shows : Contexts]
    BY <1>17, ContextType, LogType DEF TaskLogs
  <2>2. QED
    BY <1>17, <2>1 DEF TaskLogs
<1>18. ASSUME NEW m \in Messages, TaskEnds(m) PROVE TypeInv'
  BY <1>18 DEF TaskEnds
<1>19. ASSUME NEW m \in Messages, TaskDone(m) PROVE TypeInv'
  <2>1. pending' \in 0 .. Last
    BY <1>19, TrackedIsBounded DEF TaskDone, Tracked
  <2>2. line' \in [about : Contexts, shows : Contexts]
    BY <1>19, ContextType, LogType DEF TaskDone
  <2>3. QED
    BY <1>19, <2>1, <2>2 DEF TaskDone
<1>20. CASE UNCHANGED vars
  BY <1>20 DEF vars
<1>21. QED
  BY <1>1, <1>2, <1>3, <1>4, <1>5, <1>6, <1>7, <1>8, <1>9, <1>10, <1>11, <1>12, <1>13,
     <1>14, <1>15, <1>16, <1>17, <1>18, <1>19, <1>20 DEF Next

\* Every variable of Observability keeps its type.
THEOREM TypeCorrect == Spec => []TypeOK
<1>1. TypeInv => TypeOK
  BY DEF TypeInv
<1>2. QED
  BY TypeInit, TypeStep, <1>1, PTL DEF Spec

-----------------------------------------------------------------------------
(***************************************************************************)
(* The two patterns                                                        *)
(***************************************************************************)

\* With background tasks a handler neither retries nor commits after a success.
PatternInv ==
    background => attempt = 0 /\ pc \notin {"backoff", "commit"} /\ uncommitted = 0

\* Every step keeps the patterns apart.
LEMMA PatternStep == TypeInv /\ PatternInv /\ [Next]_vars => PatternInv'
<1> SUFFICES ASSUME TypeInv, PatternInv, [Next]_vars PROVE PatternInv'
  OBVIOUS
<1> USE DEF PatternInv, Goto, Return, dispatch, counters
<1>1. CASE Dispatch
  BY <1>1 DEF Dispatch
<1>2. CASE ClaimDuplicate
  BY <1>2 DEF ClaimDuplicate
<1>3. CASE ClaimNew
  BY <1>3 DEF ClaimNew
<1>4. CASE Settle
  BY <1>4 DEF Settle
<1>5. CASE RequestError
  BY <1>5 DEF RequestError, Crash
<1>6. CASE HandlerLogs
  BY <1>6 DEF HandlerLogs
<1>7. CASE HandlerReturns
  BY <1>7 DEF HandlerReturns
<1>8. CASE Commit
  BY <1>8 DEF Commit
<1>9. CASE CommitError
  BY <1>9 DEF CommitError
<1>10. CASE HandlerRetries
  BY <1>10 DEF HandlerRetries
<1>11. CASE Backoff
  BY <1>11 DEF Backoff
<1>12. CASE HandlerFails
  BY <1>12 DEF HandlerFails
<1>13. CASE SendDlq
  BY <1>13 DEF SendDlq
<1>14. CASE Spawn
  BY <1>14 DEF Spawn
<1>15. CASE SpawnCommit
  BY <1>15 DEF SpawnCommit
<1>16. CASE SpawnCommitError
  BY <1>16 DEF SpawnCommitError
<1>17. ASSUME NEW m \in Messages, TaskLogs(m) PROVE PatternInv'
  BY <1>17 DEF TaskLogs
<1>18. ASSUME NEW m \in Messages, TaskEnds(m) PROVE PatternInv'
  BY <1>18 DEF TaskEnds
<1>19. ASSUME NEW m \in Messages, TaskDone(m) PROVE PatternInv'
  BY <1>19 DEF TaskDone
<1>20. CASE UNCHANGED vars
  BY <1>20 DEF vars
<1>21. QED
  BY <1>1, <1>2, <1>3, <1>4, <1>5, <1>6, <1>7, <1>8, <1>9, <1>10, <1>11, <1>12, <1>13,
     <1>14, <1>15, <1>16, <1>17, <1>18, <1>19, <1>20 DEF Next

-----------------------------------------------------------------------------
(***************************************************************************)
(* Log lines                                                               *)
(***************************************************************************)

\* The loop has the context of the message in hand, or none, and a task that of
\* its message: what create_task() copied.
LineInv ==
    /\ context = IF pc \in {"loop", "over"} THEN NoContext ELSE Current
    /\ \A m \in Messages : task[m] # "none" => copy[m] = [message |-> m, attempt |-> 0]
    /\ LinesAreAttributed

\* Every step keeps the contexts apart.
LEMMA LineStep == TypeInv /\ PatternInv /\ LineInv /\ [Next]_vars => LineInv'
<1> SUFFICES ASSUME TypeInv, PatternInv, LineInv, [Next]_vars PROVE LineInv'
  OBVIOUS
<1> USE DEF LineInv, LinesAreAttributed, Goto, Return, Log, LogCurrent, Current, NoContext,
        dispatch, tasks
<1>1. CASE Dispatch
  BY <1>1 DEF Dispatch
<1>2. CASE ClaimDuplicate
  BY <1>2 DEF ClaimDuplicate
<1>3. CASE ClaimNew
  BY <1>3 DEF ClaimNew
<1>4. CASE Settle
  BY <1>4 DEF Settle
<1>5. CASE RequestError
  BY <1>5 DEF RequestError, Crash
<1>6. CASE HandlerLogs
  BY <1>6 DEF HandlerLogs
<1>7. CASE HandlerReturns
  BY <1>7 DEF HandlerReturns
<1>8. CASE Commit
  BY <1>8 DEF Commit
<1>9. CASE CommitError
  BY <1>9 DEF CommitError
<1>10. CASE HandlerRetries
  BY <1>10 DEF HandlerRetries
<1>11. CASE Backoff
  BY <1>11 DEF Backoff
<1>12. CASE HandlerFails
  BY <1>12 DEF HandlerFails
<1>13. CASE SendDlq
  BY <1>13 DEF SendDlq
<1>14. CASE Spawn
  BY <1>14 DEF Spawn, TypeInv, TypeOK, PatternInv
<1>15. CASE SpawnCommit
  BY <1>15 DEF SpawnCommit
<1>16. CASE SpawnCommitError
  BY <1>16 DEF SpawnCommitError
<1>17. ASSUME NEW m \in Messages, TaskLogs(m) PROVE LineInv'
  BY <1>17 DEF TaskLogs
<1>18. ASSUME NEW m \in Messages, TaskEnds(m) PROVE LineInv'
  BY <1>18 DEF TaskEnds, TypeInv, TypeOK
<1>19. ASSUME NEW m \in Messages, TaskDone(m) PROVE LineInv'
  BY <1>19 DEF TaskDone, TypeInv, TypeOK
<1>20. CASE UNCHANGED vars
  BY <1>20 DEF vars
<1>21. QED
  BY <1>1, <1>2, <1>3, <1>4, <1>5, <1>6, <1>7, <1>8, <1>9, <1>10, <1>11, <1>12, <1>13,
     <1>14, <1>15, <1>16, <1>17, <1>18, <1>19, <1>20 DEF Next

\* Every log line shows the message it is about, in the loop, in tasks and in
\* callbacks, however they interleave.
THEOREM LinesShowTheirMessage == Spec => []LinesAreAttributed
<1>1. Init => PatternInv /\ LineInv
  BY DEF Init, PatternInv, LineInv, LinesAreAttributed
<1>2. LineInv => LinesAreAttributed
  BY DEF LineInv
<1>3. QED
  BY TypeInit, TypeStep, PatternStep, LineStep, <1>1, <1>2, PTL DEF Spec

-----------------------------------------------------------------------------
(***************************************************************************)
(* Metrics                                                                 *)
(***************************************************************************)

\* One for a message on its way to the DLQ for one of the reasons.
Leaving(reasons) == IF pc = "dlq" /\ reason \in reasons THEN 1 ELSE 0

\* MetricsAgree at every await: the message in hand is not counted yet, or is
\* counted already and waits for its commit.
CountInv ==
    pc # "over" =>
        /\ messages["success"] + messages["dlq"] + messages["duplicate"]
             = uncommitted + (IF pc \in {"loop", "commit", "settle"} THEN at ELSE at - 1)
        /\ messages["retry"] = retries + dlq["max_retries"] + Leaving({"max_retries"})
        /\ durations + uncommitted
             = messages["success"] + messages["retry"]
                 + dlq["non_retryable"] + dlq["unhandled_exception"]
                 + Leaving({"non_retryable", "unhandled_exception"})

\* Every step keeps the counters in agreement.
LEMMA CountStep == TypeInv /\ CountInv /\ [Next]_vars => CountInv'
<1> SUFFICES ASSUME TypeInv, CountInv, [Next]_vars PROVE CountInv'
  OBVIOUS
<1> USE DEF CountInv, Leaving, TypeInv, TypeOK, Statuses, Reasons, Goto, Return, CountMessage, Observe,
        dispatch, counters
<1>1. CASE Dispatch
  BY <1>1 DEF Dispatch
<1>2. CASE ClaimDuplicate
  <2>1. /\ messages'["duplicate"] = messages["duplicate"] + 1
        /\ \A s \in {"success", "dlq", "retry"} : messages'[s] = messages[s]
    BY <1>2 DEF ClaimDuplicate
  <2>2. /\ pc = "claim" /\ pc' = "settle"
        /\ UNCHANGED <<at, reason, dlq, retries, durations, uncommitted>>
    BY <1>2 DEF ClaimDuplicate
  <2>3. QED
    BY <2>1, <2>2
<1>3. CASE ClaimNew
  BY <1>3 DEF ClaimNew
<1>4. CASE Settle
  BY <1>4 DEF Settle
<1>5. CASE RequestError
  BY <1>5 DEF RequestError, Crash
<1>6. CASE HandlerLogs
  BY <1>6 DEF HandlerLogs
<1>7. CASE HandlerReturns
  BY <1>7 DEF HandlerReturns
<1>8. CASE Commit
  BY <1>8 DEF Commit
<1>9. CASE CommitError
  BY <1>9 DEF CommitError
<1>10. CASE HandlerRetries
  BY <1>10 DEF HandlerRetries
<1>11. CASE Backoff
  BY <1>11 DEF Backoff
<1>12. CASE HandlerFails
  BY <1>12 DEF HandlerFails
<1>13. CASE SendDlq
  <2>1. /\ messages'["dlq"] = messages["dlq"] + 1
        /\ \A s \in {"success", "duplicate", "retry"} : messages'[s] = messages[s]
    BY <1>13 DEF SendDlq
  <2>2. /\ dlq'[reason] = dlq[reason] + 1
        /\ \A r \in Reasons \ {reason} : dlq'[r] = dlq[r]
    BY <1>13 DEF SendDlq
  <2>3. /\ pc = "dlq" /\ pc' = "settle"
        /\ UNCHANGED <<at, reason, retries, durations, uncommitted>>
    BY <1>13 DEF SendDlq
  <2>4. QED
    BY <2>1, <2>2, <2>3
<1>14. CASE Spawn
  BY <1>14 DEF Spawn
<1>15. CASE SpawnCommit
  BY <1>15 DEF SpawnCommit
<1>16. CASE SpawnCommitError
  BY <1>16 DEF SpawnCommitError
<1>17. ASSUME NEW m \in Messages, TaskLogs(m) PROVE CountInv'
  BY <1>17 DEF TaskLogs
<1>18. ASSUME NEW m \in Messages, TaskEnds(m) PROVE CountInv'
  BY <1>18 DEF TaskEnds
<1>19. ASSUME NEW m \in Messages, TaskDone(m) PROVE CountInv'
  BY <1>19 DEF TaskDone
<1>20. CASE UNCHANGED vars
  BY <1>20 DEF vars
<1>21. QED
  BY <1>1, <1>2, <1>3, <1>4, <1>5, <1>6, <1>7, <1>8, <1>9, <1>10, <1>11, <1>12, <1>13,
     <1>14, <1>15, <1>16, <1>17, <1>18, <1>19, <1>20 DEF Next

\* The metrics agree between any two dispatches.
THEOREM MetricsTellWhatHappened == Spec => []MetricsAgree
<1>1. Init => PatternInv /\ CountInv
  BY DEF Init, PatternInv, CountInv, Leaving, Statuses, Reasons
<1>2. TypeInv /\ PatternInv /\ CountInv => MetricsAgree
  BY DEF TypeInv, TypeOK, PatternInv, CountInv, Leaving, MetricsAgree, Statuses, Reasons
<1>3. QED
  BY TypeInit, TypeStep, PatternStep, CountStep, <1>1, <1>2, PTL DEF Spec
=============================================================================
