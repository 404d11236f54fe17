--------------------------- MODULE LifecycleProofs ---------------------------
(***************************************************************************)
(* Proofs about Lifecycle, for every number of callers, every size of the  *)
(* pool and every budget of faults.                                        *)
(***************************************************************************)
EXTENDS Lifecycle, FiniteSetTheorems, TLAPS

-----------------------------------------------------------------------------
(***************************************************************************)
(* The pool                                                                *)
(***************************************************************************)

\* The pool is whole, and who backs off has attempts left.
PoolInv ==
    /\ pool \in {"none", "open", "closing"}
    /\ free \in Nat
    /\ call \in [Callers -> CallStates]
    /\ try \in [Callers -> 0 .. DbAttempts]
    /\ \A c \in Callers : call[c] = "backoff" => try[c] < DbAttempts
    /\ PoolIsWhole

\* There are finitely many holders.
LEMMA HoldersFinite == IsFiniteSet(Holders) /\ Cardinality(Holders) \in Nat
<1>1. IsFiniteSet(Holders)
  BY CallersAssumption, FS_Subset DEF Holders
<1>2. QED
  BY <1>1, FS_CardinalityType

\* The free connections are connections of the pool.
LEMMA PoolInvGivesTypes == PoolInv => PoolTypeOK
<1> SUFFICES ASSUME PoolInv PROVE PoolTypeOK
  OBVIOUS
<1>1. free + Cardinality(Holders) \in {0, MaxSize}
  BY DEF PoolInv, PoolIsWhole
<1>2. free \in 0 .. MaxSize
  BY <1>1, HoldersFinite, MaxSizeAssumption DEF PoolInv
<1>3. QED
  BY <1>2 DEF PoolInv, PoolTypeOK

\* A pool that is not there has no holders.
LEMMA NoPoolNoHolders == PoolInv /\ pool = "none" => Holders = {}
<1> SUFFICES ASSUME PoolInv, pool = "none" PROVE Holders = {}
  OBVIOUS
<1>1. Cardinality(Holders) = 0
  BY HoldersFinite DEF PoolInv, PoolIsWhole
<1>2. QED
  BY <1>1, HoldersFinite, FS_EmptySet

\* A step that keeps the holders and the connections keeps the pool whole.
LEMMA SameHolders ==
    ASSUME PoolInv, Holders' = Holders, free' = free,
           pool' = pool \/ {pool, pool'} = {"open", "closing"}
    PROVE  PoolIsWhole'
BY DEF PoolInv, PoolIsWhole

\* Taking a connection.
LEMMA AcquireKeepsPool ==
    ASSUME PoolInv, NEW c \in Callers, Acquire(c)
    PROVE  PoolInv'
<1>1. c \notin Holders /\ Holders' = Holders \cup {c}
  BY DEF Acquire, Move, Holders, PoolInv
<1>2. Cardinality(Holders') = Cardinality(Holders) + 1
  BY <1>1, HoldersFinite, FS_AddElement
<1>3. free' = free - 1 /\ free > 0 /\ pool' = pool
  BY DEF Acquire
<1>4. PoolIsWhole'
  BY <1>2, <1>3, HoldersFinite DEF PoolInv, PoolIsWhole
<1>5. QED
  BY <1>3, <1>4 DEF PoolInv, Acquire, Move, CallStates

\* Giving a connection back.
LEMMA ReleaseKeepsPool ==
    ASSUME PoolInv, NEW c \in Callers, Finish(c) \/ Retry(c)
    PROVE  PoolInv'
<1>1. c \in Holders /\ Holders' = Holders \ {c}
  BY DEF Finish, Retry, Move, Holders, PoolInv
<1>2. Cardinality(Holders') = Cardinality(Holders) - 1
  BY <1>1, HoldersFinite, FS_RemoveElement
<1>3. free' = free + 1 /\ pool' = pool
  BY DEF Finish, Retry
<1>4. PoolIsWhole'
  BY <1>2, <1>3, HoldersFinite DEF PoolInv, PoolIsWhole
<1>5. QED
  BY <1>3, <1>4 DEF PoolInv, Finish, Retry, Move, CallStates

\* Steps of a call that holds no connection.
LEMMA OtherCallKeepsPool ==
    ASSUME PoolInv, NEW c \in Callers, Begin(c) \/ Refused(c) \/ AcquireError(c) \/ Wake(c)
    PROVE  PoolInv'
<1>1. Holders' = Holders
  BY DEF Begin, Refused, AcquireError, Wake, Move, Holders, PoolInv
<1>2. free' = free /\ pool' = pool
  BY DEF Begin, Refused, AcquireError, Wake
<1>3. PoolIsWhole'
  BY <1>1, <1>2, SameHolders
<1>4. QED
  BY <1>2, <1>3, DbAttemptsAssumption
     DEF PoolInv, Begin, Refused, AcquireError, Wake, Move, CallStates

\* Connecting and closing.
LEMMA PoolStepKeepsPool ==
    ASSUME PoolInv, Connect \/ Close \/ Closed
    PROVE  PoolInv'
<1>1. Holders' = Holders /\ call' = call /\ try' = try
  BY DEF Connect, Close, Closed, Holders
<1>2. CASE Connect
  <2>1. Cardinality(Holders') = 0
    BY <1>1, <1>2, NoPoolNoHolders, FS_EmptySet DEF Connect
  <2>2. PoolIsWhole'
    BY <1>2, <2>1, MaxSizeAssumption DEF Connect, PoolIsWhole
  <2>3. QED
    BY <1>1, <1>2, <2>2, MaxSizeAssumption DEF Connect, PoolInv
<1>3. CASE Close
  BY <1>1, <1>3 DEF Close, PoolInv, PoolIsWhole
<1>4. CASE Closed
  BY <1>1, <1>4, HoldersFinite, MaxSizeAssumption DEF Closed, PoolInv, PoolIsWhole
<1>5. QED
  BY <1>2, <1>3, <1>4

\* Nobody holds anything once all calls are over.
LEMMA IdleHasNoHolders ==
    ASSUME PoolInv, call' = [c \in Callers |-> "idle"]
    PROVE  Cardinality(Holders') = 0
<1>1. Holders' = {}
  BY DEF Holders
<1>2. QED
  BY <1>1, FS_EmptySet

\* Cancelling the calls gives back what they held.
LEMMA CancelAllKeepsPool ==
    ASSUME PoolInv, CancelAll
    PROVE  PoolInv'
<1>1. Cardinality(Holders') = 0
  BY IdleHasNoHolders DEF CancelAll
<1>2. PoolIsWhole' /\ free' \in Nat
  BY <1>1, HoldersFinite DEF CancelAll, PoolInv, PoolIsWhole
<1>3. QED
  BY <1>2 DEF CancelAll, PoolInv, CallStates

\* So does the end of the process, which takes the pool with it.
LEMMA EndProcessKeepsPool ==
    ASSUME PoolInv, EndProcess
    PROVE  PoolInv'
<1>1. Cardinality(Holders') = 0
  BY IdleHasNoHolders DEF EndProcess
<1>2. PoolIsWhole'
  BY <1>1 DEF EndProcess, PoolIsWhole
<1>3. QED
  BY <1>2, DbAttemptsAssumption DEF EndProcess, PoolInv, CallStates

\* A step that leaves the database alone.
LEMMA UnchangedKeepsPool ==
    ASSUME PoolInv, UNCHANGED database
    PROVE  PoolInv'
BY DEF PoolInv, PoolIsWhole, Holders, database
\* Every step keeps the pool whole.
LEMMA PoolStep == PoolInv /\ [Next]_vars => PoolInv'
<1> SUFFICES ASSUME PoolInv, [Next]_vars PROVE PoolInv'
  OBVIOUS
<1>1. CASE Boot
  BY <1>1, UnchangedKeepsPool DEF Boot
<1>2. CASE Run
  BY <1>2, UnchangedKeepsPool DEF Run
<1>3. CASE ConsumerStarted
  BY <1>3, UnchangedKeepsPool DEF ConsumerStarted
<1>4. CASE ProducerStarted
  BY <1>4, UnchangedKeepsPool DEF ProducerStarted
<1>5. CASE HealthStarted
  BY <1>5, UnchangedKeepsPool DEF HealthStarted
<1>6. CASE Started
  BY <1>6, PoolStepKeepsPool DEF Started
<1>7. CASE LeaveLoop
  BY <1>7, UnchangedKeepsPool DEF LeaveLoop
<1>8. CASE OnStop
  BY <1>8, PoolStepKeepsPool DEF OnStop
<1>9. CASE OnStopDone
  BY <1>9, UnchangedKeepsPool, PoolStepKeepsPool DEF OnStopDone
<1>10. CASE Drain
  BY <1>10, UnchangedKeepsPool, CancelAllKeepsPool DEF Drain
<1>11. CASE ConsumerStopped
  BY <1>11, UnchangedKeepsPool DEF ConsumerStopped
<1>12. CASE ProducerStopped
  BY <1>12, UnchangedKeepsPool DEF ProducerStopped
<1>13. CASE HealthStopped
  BY <1>13, EndProcessKeepsPool DEF HealthStopped
<1>14. CASE StartError
  BY <1>14, EndProcessKeepsPool DEF StartError
<1>15. CASE RunError
  BY <1>15, UnchangedKeepsPool DEF RunError
<1>16. CASE OnStopError
  <2>1. Holders' = Holders
    BY <1>16 DEF OnStopError, Holders
  <2>2. QED
    BY <1>16, <2>1 DEF OnStopError, PoolInv, PoolIsWhole
<1>17. CASE StopError
  BY <1>17, EndProcessKeepsPool DEF StopError
<1>18. CASE Signal
  BY <1>18, UnchangedKeepsPool DEF Signal
<1>19. CASE EarlySignal
  BY <1>19, EndProcessKeepsPool, UnchangedKeepsPool DEF EarlySignal
<1>20. CASE Kill
  BY <1>20, EndProcessKeepsPool DEF Kill
<1>21. CASE SessionTimeout
  BY <1>21, UnchangedKeepsPool DEF SessionTimeout
<1>22. ASSUME NEW c \in Callers, Dispatch(c) PROVE PoolInv'
  BY <1>22, OtherCallKeepsPool DEF Dispatch
<1>23. ASSUME NEW c \in Callers, Call(c) PROVE PoolInv'
  BY <1>23, AcquireKeepsPool, ReleaseKeepsPool, OtherCallKeepsPool DEF Call, CallStep
<1>24. ASSUME NEW c \in Callers, FailedCall(c) PROVE PoolInv'
  BY <1>24, ReleaseKeepsPool, OtherCallKeepsPool DEF FailedCall, CallError
<1>25. CASE Rejoin
  BY <1>25, UnchangedKeepsPool DEF Rejoin
<1>26. CASE UNCHANGED vars
  BY <1>26, UnchangedKeepsPool DEF vars
<1>27. QED
  BY <1>1, <1>2, <1>3, <1>4, <1>5, <1>6, <1>7, <1>8, <1>9, <1>10, <1>11, <1>12, <1>13,
     <1>14, <1>15, <1>16, <1>17, <1>18, <1>19, <1>20, <1>21, <1>22, <1>23, <1>24, <1>25, <1>26
     DEF Next, Progress

\* The pool is whole at the beginning.
LEMMA PoolInit == LifeInit => PoolInv
<1> SUFFICES ASSUME LifeInit PROVE PoolInv
  OBVIOUS
<1>1. Holders = {}
  BY DEF LifeInit, Init, Holders
<1>2. Cardinality(Holders) = 0
  BY <1>1, FS_EmptySet
<1>3. QED
  BY <1>2, DbAttemptsAssumption DEF LifeInit, Init, PoolInv, PoolIsWhole, CallStates

\* Whatever errors, cancellations, kills and shutdowns interleave with the calls:
\* no connection is lost or handed out twice.
THEOREM ConnectionsAreKept == Spec => []PoolIsWhole
<1>1. PoolInv => PoolIsWhole
  BY DEF PoolInv
<1>2. QED
  BY PoolInit, PoolStep, <1>1, PTL DEF Spec
-----------------------------------------------------------------------------
(***************************************************************************)
(* The process                                                             *)
(***************************************************************************)

\* The types of the variables that Lifecycle adds.
ProcessTypes ==
    /\ background \in BOOLEAN
    /\ phase \in Phases
    /\ state \in States
    /\ stop \in BOOLEAN
    /\ member \in BOOLEAN
    /\ producer \in BOOLEAN
    /\ file \in BOOLEAN
    /\ budget \in [FaultKinds -> Nat]

\* The faults that are spent are kinds of faults.
LEMMA KindsOfFaults == {"start", "stop", "error", "signal", "kill"} \subseteq FaultKinds
BY DEF FaultKinds

\* Spending a fault keeps the budget typed.
LEMMA SpendType ==
    ASSUME ProcessTypes, NEW f \in FaultKinds, Spend(f)
    PROVE  budget' \in [FaultKinds -> Nat]
BY DEF ProcessTypes, Spend

\* Every step keeps these types.
LEMMA TypesStep == ProcessTypes /\ [Next]_vars => ProcessTypes'
<1> SUFFICES ASSUME ProcessTypes, [Next]_vars PROVE ProcessTypes'
  OBVIOUS
<1> USE DEF ProcessTypes, Phases, ShutdownPhases, States, Goto, process, clients
<1>1. CASE Boot
  BY <1>1 DEF Boot
<1>2. CASE Run
  BY <1>2 DEF Run
<1>3. CASE ConsumerStarted
  BY <1>3 DEF ConsumerStarted
<1>4. CASE ProducerStarted
  BY <1>4 DEF ProducerStarted
<1>5. CASE HealthStarted
  BY <1>5 DEF HealthStarted
<1>6. CASE Started
  BY <1>6 DEF Started
<1>7. CASE LeaveLoop
  BY <1>7 DEF LeaveLoop
<1>8. CASE OnStop
  BY <1>8 DEF OnStop
<1>9. CASE OnStopDone
  BY <1>9 DEF OnStopDone
<1>10. CASE Drain
  BY <1>10 DEF Drain
<1>11. CASE ConsumerStopped
  BY <1>11 DEF ConsumerStopped
<1>12. CASE ProducerStopped
  BY <1>12 DEF ProducerStopped
<1>13. CASE HealthStopped
  BY <1>13 DEF HealthStopped, EndProcess
<1>14. CASE StartError
  <2>1. budget' \in [FaultKinds -> Nat]
    BY <1>14, KindsOfFaults, SpendType DEF StartError
  <2>2. QED
    BY <1>14, <2>1 DEF StartError, EndProcess
<1>15. CASE RunError
  BY <1>15, KindsOfFaults, SpendType DEF RunError
<1>16. CASE OnStopError
  BY <1>16, KindsOfFaults, SpendType DEF OnStopError
<1>17. CASE StopError
  <2>1. budget' \in [FaultKinds -> Nat]
    BY <1>17, KindsOfFaults, SpendType DEF StopError
  <2>2. QED
    BY <1>17, <2>1 DEF StopError, EndProcess
<1>18. CASE Signal
  BY <1>18, KindsOfFaults, SpendType DEF Signal
<1>19. CASE EarlySignal
  <2>1. budget' \in [FaultKinds -> Nat]
    BY <1>19, KindsOfFaults, SpendType DEF EarlySignal
  <2>2. QED
    BY <1>19, <2>1 DEF EarlySignal, EndProcess
<1>20. CASE Kill
  <2>1. budget' \in [FaultKinds -> Nat]
    BY <1>20, KindsOfFaults, SpendType DEF Kill
  <2>2. QED
    BY <1>20, <2>1 DEF Kill, EndProcess
<1>21. CASE SessionTimeout
  BY <1>21 DEF SessionTimeout
<1>22. ASSUME NEW c \in Callers, Dispatch(c) PROVE ProcessTypes'
  BY <1>22 DEF Dispatch
<1>23. ASSUME NEW c \in Callers, Call(c) PROVE ProcessTypes'
  BY <1>23 DEF Call
<1>24. ASSUME NEW c \in Callers, FailedCall(c) PROVE ProcessTypes'
  BY <1>24, KindsOfFaults, SpendType DEF FailedCall
<1>25. CASE Rejoin
  BY <1>25 DEF Rejoin
<1>26. CASE UNCHANGED vars
  BY <1>26 DEF vars
<1>27. QED
  BY <1>1, <1>2, <1>3, <1>4, <1>5, <1>6, <1>7, <1>8, <1>9, <1>10, <1>11, <1>12, <1>13,
     <1>14, <1>15, <1>16, <1>17, <1>18, <1>19, <1>20, <1>21, <1>22, <1>23, <1>24, <1>25, <1>26
     DEF Next, Progress

\* Every variable of Lifecycle keeps its type.
THEOREM TypeCorrect == Spec => []TypeOK
<1>1. LifeInit => ProcessTypes
  BY BudgetAssumption DEF LifeInit, ProcessTypes, Phases, States
<1>2. PoolInv /\ ProcessTypes => TypeOK
  BY PoolInvGivesTypes DEF ProcessTypes, TypeOK
<1>3. QED
  BY PoolInit, PoolStep, TypesStep, <1>1, <1>2, PTL DEF Spec

-----------------------------------------------------------------------------
(***************************************************************************)
(* Who is left when something is stopped                                   *)
(***************************************************************************)

Starting == {"off", "build", "consumer_start", "producer_start", "health_start", "on_start"}
Stopping == {"consumer_stop", "producer_stop", "health_stop"}

\* Calls go on in the loop, and in the background pattern until the drain is
\* over; the loop has what it needs.
PhaseInv ==
    /\ phase \in Starting \cup Stopping => Idle
    /\ phase \in Starting => pool = "none"
    /\ phase = "loop" => pool = "open"
    /\ ~background /\ ~Idle => phase = "loop"
    /\ state = "RUNNING" <=> phase = "loop"
    /\ phase \in {"health_start", "on_start", "loop", "on_stop", "drain", "consumer_stop",
                  "producer_stop"} => producer

\* Every step keeps the order of starts and stops.
LEMMA PhaseStep == ProcessTypes /\ PoolInv /\ PhaseInv /\ [Next]_vars => PhaseInv'
<1> SUFFICES ASSUME ProcessTypes, PoolInv, PhaseInv, [Next]_vars PROVE PhaseInv'
  OBVIOUS
<1> USE DEF PhaseInv, Starting, Stopping, Goto, process, clients, database, Idle
<1>1. CASE Boot
  BY <1>1 DEF Boot
<1>2. CASE Run
  BY <1>2 DEF Run
<1>3. CASE ConsumerStarted
  BY <1>3 DEF ConsumerStarted
<1>4. CASE ProducerStarted
  BY <1>4 DEF ProducerStarted
<1>5. CASE HealthStarted
  BY <1>5 DEF HealthStarted
<1>6. CASE Started
  BY <1>6 DEF Started, Connect
<1>7. CASE LeaveLoop
  BY <1>7 DEF LeaveLoop
<1>8. CASE OnStop
  BY <1>8 DEF OnStop, Close
<1>9. CASE OnStopDone
  BY <1>9 DEF OnStopDone, Closed
<1>10. CASE Drain
  BY <1>10 DEF Drain, CancelAll
<1>11. CASE ConsumerStopped
  BY <1>11 DEF ConsumerStopped
<1>12. CASE ProducerStopped
  BY <1>12 DEF ProducerStopped
<1>13. CASE HealthStopped
  BY <1>13 DEF HealthStopped, EndProcess
<1>14. CASE StartError
  BY <1>14 DEF StartError, EndProcess
<1>15. CASE RunError
  BY <1>15 DEF RunError
<1>16. CASE OnStopError
  BY <1>16 DEF OnStopError
<1>17. CASE StopError
  BY <1>17 DEF StopError, EndProcess
<1>18. CASE Signal
  BY <1>18 DEF Signal
<1>19. CASE EarlySignal
  BY <1>19 DEF EarlySignal, EndProcess
<1>20. CASE Kill
  BY <1>20 DEF Kill, EndProcess
<1>21. CASE SessionTimeout
  BY <1>21 DEF SessionTimeout
<1>22. ASSUME NEW c \in Callers, Dispatch(c) PROVE PhaseInv'
  BY <1>22 DEF Dispatch, Begin, Move
<1>23. ASSUME NEW c \in Callers, Call(c) PROVE PhaseInv'
  BY <1>23 DEF Call, CallStep, Acquire, Refused, Finish, Wake, Move, PoolInv
<1>24. ASSUME NEW c \in Callers, FailedCall(c) PROVE PhaseInv'
  BY <1>24 DEF FailedCall, CallError, AcquireError, Retry, Move, PoolInv, Spend
<1>25. CASE Rejoin
  BY <1>25 DEF Rejoin
<1>26. CASE UNCHANGED vars
  BY <1>26 DEF vars
<1>27. QED
  BY <1>1, <1>2, <1>3, <1>4, <1>5, <1>6, <1>7, <1>8, <1>9, <1>10, <1>11, <1>12, <1>13,
     <1>14, <1>15, <1>16, <1>17, <1>18, <1>19, <1>20, <1>21, <1>22, <1>23, <1>24, <1>25, <1>26
     DEF Next, Progress

\* The order of starts and stops at the beginning.
LEMMA PhaseInit == LifeInit => ProcessTypes /\ PhaseInv
BY BudgetAssumption
   DEF LifeInit, Init, ProcessTypes, PhaseInv, Phases, States, Starting, Stopping, Idle

\* The Kafka clients are stopped after the last task.
THEOREM ClientsOutliveTasks == Spec => []TasksEndBeforeClients
<1>1. PhaseInv => TasksEndBeforeClients
  BY DEF PhaseInv, TasksEndBeforeClients, Stopping
<1>2. QED
  BY PoolInit, PoolStep, TypesStep, PhaseInit, PhaseStep, <1>1, PTL DEF Spec

\* No shutdown takes pool and producer away under a handler of the synchronous
\* pattern, nor begins before it has ended.
THEOREM HandlersKeepWhatTheyNeed == Spec => []HandlersAreServed
<1>1. PhaseInv => HandlersAreServed
  BY DEF PhaseInv, HandlersAreServed
<1>2. QED
  BY PoolInit, PoolStep, TypesStep, PhaseInit, PhaseStep, <1>1, PTL DEF Spec

-----------------------------------------------------------------------------
(***************************************************************************)
(* What a process leaves behind                                            *)
(***************************************************************************)

Failed == Spent("kill") + Spent("start") + Spent("stop")

\* Faults are counted, and never taken back.
BudgetInv == \A f \in FaultKinds : budget[f] <= Budget[f]

\* A process that has not joined its group is no member of it, and one that has
\* not written its file finds none, unless an earlier one failed; who has left
\* the group stays out.
RemainsInv ==
    /\ phase \in {"off", "build", "consumer_start"} /\ member => Failed > 0
    /\ phase \in {"off", "build", "consumer_start", "producer_start", "health_start"} /\ file
         => Failed > 0
    /\ phase \in {"producer_stop", "health_stop"} => ~member

\* A fault is counted.
LEMMA SpendCounts ==
    ASSUME ProcessTypes, BudgetInv, NEW f \in FaultKinds, Spend(f)
    PROVE  /\ BudgetInv'
           /\ Failed \in Nat /\ Failed' \in Nat /\ Failed <= Failed'
           /\ f \in {"kill", "start", "stop"} => Failed' > 0
<1>1. \A g \in FaultKinds : budget[g] \in Nat /\ Budget[g] \in Nat
  BY BudgetAssumption DEF ProcessTypes
<1>2. budget' = [budget EXCEPT ![f] = @ - 1] /\ budget[f] > 0
  BY DEF Spend
<1>3. \A g \in FaultKinds : budget'[g] = IF g = f THEN budget[g] - 1 ELSE budget[g]
  BY <1>2 DEF ProcessTypes
<1>4. BudgetInv'
  BY <1>1, <1>3 DEF BudgetInv
<1>5. {"kill", "start", "stop"} \subseteq FaultKinds
  BY DEF FaultKinds
<1>6. QED
  BY <1>1, <1>3, <1>4, <1>5 DEF Failed, Spent, BudgetInv

\* A step without a fault keeps the count.
LEMMA NoSpendKeeps ==
    ASSUME BudgetInv, UNCHANGED budget
    PROVE  BudgetInv' /\ Failed' = Failed
BY DEF BudgetInv, Failed, Spent

\* Every step counts its fault.
LEMMA RemainsStep == ProcessTypes /\ PhaseInv /\ BudgetInv /\ RemainsInv /\ [Next]_vars
    => (BudgetInv /\ RemainsInv)'
<1> SUFFICES ASSUME ProcessTypes, PhaseInv, BudgetInv, RemainsInv, [Next]_vars
             PROVE  (BudgetInv /\ RemainsInv)'
  OBVIOUS
<1> USE DEF RemainsInv, Goto, process, clients
<1>1. CASE Boot
  BY <1>1, NoSpendKeeps DEF Boot
<1>2. CASE Run
  BY <1>2, NoSpendKeeps DEF Run
<1>3. CASE ConsumerStarted
  BY <1>3, NoSpendKeeps DEF ConsumerStarted
<1>4. CASE ProducerStarted
  BY <1>4, NoSpendKeeps DEF ProducerStarted
<1>5. CASE HealthStarted
  BY <1>5, NoSpendKeeps DEF HealthStarted
<1>6. CASE Started
  BY <1>6, NoSpendKeeps DEF Started
<1>7. CASE LeaveLoop
  BY <1>7, NoSpendKeeps DEF LeaveLoop
<1>8. CASE OnStop
  BY <1>8, NoSpendKeeps DEF OnStop
<1>9. CASE OnStopDone
  BY <1>9, NoSpendKeeps DEF OnStopDone
<1>10. CASE Drain
  BY <1>10, NoSpendKeeps DEF Drain
<1>11. CASE ConsumerStopped
  BY <1>11, NoSpendKeeps DEF ConsumerStopped
<1>12. CASE ProducerStopped
  BY <1>12, NoSpendKeeps DEF ProducerStopped
<1>13. CASE HealthStopped
  BY <1>13, NoSpendKeeps DEF HealthStopped, EndProcess
<1>14. CASE StartError
  BY <1>14, KindsOfFaults, SpendCounts DEF StartError, EndProcess
<1>15. CASE RunError
  BY <1>15, KindsOfFaults, SpendCounts DEF RunError
<1>16. CASE OnStopError
  BY <1>16, KindsOfFaults, SpendCounts DEF OnStopError
<1>17. CASE StopError
  BY <1>17, KindsOfFaults, SpendCounts DEF StopError, EndProcess
<1>18. CASE Signal
  BY <1>18, KindsOfFaults, SpendCounts DEF Signal
<1>19. CASE EarlySignal
  BY <1>19, KindsOfFaults, SpendCounts DEF EarlySignal, EndProcess
<1>20. CASE Kill
  BY <1>20, KindsOfFaults, SpendCounts DEF Kill, EndProcess
<1>21. CASE SessionTimeout
  BY <1>21, NoSpendKeeps DEF SessionTimeout
<1>22. ASSUME NEW c \in Callers, Dispatch(c) PROVE (BudgetInv /\ RemainsInv)'
  BY <1>22, NoSpendKeeps DEF Dispatch
<1>23. ASSUME NEW c \in Callers, Call(c) PROVE (BudgetInv /\ RemainsInv)'
  BY <1>23, NoSpendKeeps DEF Call
<1>24. ASSUME NEW c \in Callers, FailedCall(c) PROVE (BudgetInv /\ RemainsInv)'
  BY <1>24, KindsOfFaults, SpendCounts DEF FailedCall
<1>25. CASE Rejoin
  BY <1>25, NoSpendKeeps DEF Rejoin
<1>26. CASE UNCHANGED vars
  BY <1>26, NoSpendKeeps DEF vars
<1>27. QED
  BY <1>1, <1>2, <1>3, <1>4, <1>5, <1>6, <1>7, <1>8, <1>9, <1>10, <1>11, <1>12, <1>13,
     <1>14, <1>15, <1>16, <1>17, <1>18, <1>19, <1>20, <1>21, <1>22, <1>23, <1>24, <1>25, <1>26
     DEF Next, Progress

\* Only a kill, or a start or stop that fails, leaves a membership or a file.
THEOREM EndsLeaveNothing == Spec => []LeavesNothingBehind
<1>1. LifeInit => BudgetInv /\ RemainsInv
  BY BudgetAssumption DEF LifeInit, BudgetInv, RemainsInv
<1>2. RemainsInv => LeavesNothingBehind
  BY DEF RemainsInv, LeavesNothingBehind, Failed
<1>3. QED
  BY PoolInit, PoolStep, TypesStep, PhaseInit, PhaseStep, RemainsStep, <1>1, <1>2, PTL DEF Spec
=============================================================================
