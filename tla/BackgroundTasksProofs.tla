------------------------ MODULE BackgroundTasksProofs ------------------------
(***************************************************************************)
(* Proofs about BackgroundTasks, for every number of pods and events and   *)
(* every budget of faults.                                                 *)
(***************************************************************************)
EXTENDS BackgroundTasks, Counting, TLAPS

-----------------------------------------------------------------------------
(***************************************************************************)
(* Types                                                                   *)
(***************************************************************************)

\* A pod inside _dispatch has an event, and a batch ends where the topic does.
InDispatch(k) == pc[k] \in {"claim", "spawn", "dlq", "settle"}

TypeInv == TypeOK /\ \A k \in Pods : InDispatch(k) => at[k] \in Events

\* Events are positive numbers up to the last one.
LEMMA EventsAreNumbers ==
    /\ Last \in Nat
    /\ \A e \in Events : e \in Nat /\ e > 0 /\ e <= Last
    /\ \A n \in 0 .. Last : n > 0 => n \in Events
BY LastAssumption DEF Events

\* Spending a fault keeps the budget typed.
LEMMA SpendType ==
    ASSUME budget \in [FaultKinds -> Nat], NEW f \in FaultKinds, Spend(f)
    PROVE  budget' \in [FaultKinds -> Nat]
BY DEF Spend

\* The faults that are spent are kinds of faults.
LEMMA KindsOfFaults == {"kill", "signal", "rebalance", "error", "expire"} \subseteq FaultKinds
BY DEF FaultKinds

\* The end of a process keeps the types.
LEMMA EndProcessType ==
    ASSUME TypeInv, NEW k \in Pods, EndProcess(k), budget' \in [FaultKinds -> Nat]
    PROVE  TypeInv'
BY LastAssumption
   DEF EndProcess, TypeInv, TypeOK, InDispatch, RunStates, NoTasks, TaskStates, Events, redis, table

\* Connections go to events.
LEMMA ConnectType ==
    ASSUME NEW used \in SUBSET Events, NEW e \in Events
    PROVE  Connect(e, used) \in SUBSET Events
BY DEF Connect

\* What a step of a task leaves alone, whatever it does.
TaskFrame == UNCHANGED <<process, kafka, batch, redis, recovered, dlq>>

\* What a statement that fails, or is refused, does: the task tries again, records
\* a failure instead of success, or ends; the row may have been written.
LEMMA FailedStatement ==
    ASSUME TypeOK, NEW k \in Pods, NEW e \in Events, StatementError(k, e) \/ Refused(k, e)
    PROVE  /\ \E to \in {"none", "failed", task[k][e]} :
                /\ task' = [task EXCEPT ![k][e] = to]
                /\ to = "failed" => task[k][e] \in {"done", "failed"}
           /\ task[k][e] \in {"insert", "done", "failed"}
           /\ held' \in [Pods -> SUBSET Events]
           /\ row' = row \/ SetRow(e, Status(k, e))
           /\ UNCHANGED worked /\ (UNCHANGED budget \/ Spend("error"))
           /\ TaskFrame
<1>1. Statement(k, e) /\ (row' = row \/ SetRow(e, Status(k, e))) /\ UNCHANGED worked
      /\ (UNCHANGED budget \/ Spend("error"))
  BY DEF StatementError, Refused, Served, Unserved
<1>2. held \in [Pods -> SUBSET Events] /\ held[k] \ {e} \in SUBSET Events
  BY DEF TypeOK
<1>3. CASE \E to \in {"none", task[k][e]} :
             Release(k, e, to) /\ (to = "failed" => task[k][e] = "failed")
  BY <1>1, <1>2, <1>3 DEF Release, Statement, TaskFrame
<1>4. CASE task[k][e] = "done" /\ Proceed(k, e, held[k] \ {e}, "failed")
  <2>1. Connect(e, held[k] \ {e}) \in SUBSET Events
    BY <1>2, ConnectType
  <2>2. held' \in [Pods -> SUBSET Events]
    BY <1>2, <1>4, <2>1 DEF Proceed
  <2>3. QED
    BY <1>1, <1>4, <2>2 DEF Proceed, Statement, TaskFrame
<1>5. Raise(k, e) \/ Release(k, e, task[k][e])
  BY DEF StatementError, Refused
<1>6. QED
  BY <1>3, <1>4, <1>5 DEF Raise

\* What the end of the work does: it may have been carried out, and the task goes
\* on to record how it ended, or raises because there is no pool.
LEMMA WorkedOff ==
    ASSUME TypeOK, NEW k \in Pods, NEW e \in Events, Work(k, e)
    PROVE  /\ \E to \in {"none", "done", "failed"} :
                /\ task' = [task EXCEPT ![k][e] = to]
                /\ to = "done" => Worked(e)
           /\ task[k][e] = "work"
           /\ held' \in [Pods -> SUBSET Events]
           /\ Worked(e) \/ UNCHANGED worked
           /\ UNCHANGED <<row, budget>>
           /\ TaskFrame
<1>1. held \in [Pods -> SUBSET Events] /\ Connect(e, held[k]) \in SUBSET Events
  BY ConnectType DEF TypeOK
<1>2. ASSUME NEW to \in {"done", "failed"}, Proceed(k, e, held[k], to)
      PROVE  /\ held' \in [Pods -> SUBSET Events] /\ TaskFrame
             /\ task' = [task EXCEPT ![k][e] = to] \/ task' = [task EXCEPT ![k][e] = "none"]
  BY <1>1, <1>2 DEF Proceed, TaskFrame
<1>3. task[k][e] = "work" /\ UNCHANGED <<row, budget>>
  BY DEF Work
<1>4. CASE Proceed(k, e, held[k], "done") /\ Worked(e)
  BY <1>2, <1>3, <1>4
<1>5. CASE Proceed(k, e, held[k], "failed") /\ UNCHANGED worked
  BY <1>2, <1>3, <1>5
<1>6. QED
  BY <1>4, <1>5 DEF Work

\* No step of a task moves anything but the task, its row and its connection.
LEMMA TaskMoves ==
    ASSUME TypeOK, NEW k \in Pods, NEW e \in Events, TaskStep(k, e)
    PROVE  /\ UNCHANGED <<pc, stop, db, owner, committed, position, at, upto, claims, expired, dlq>>
           /\ UNCHANGED budget \/ Spend("error")
<1> USE DEF process, kafka, batch, redis, TaskFrame
<1>1. CASE StatementError(k, e) \/ Refused(k, e)
  BY <1>1, FailedStatement
<1>2. CASE Work(k, e)
  BY <1>2, WorkedOff
<1>3. CASE Acquire(k, e) \/ Insert(k, e) \/ Record(k, e)
  BY <1>3 DEF Acquire, Insert, Record, Release
<1>4. CASE Recover(k, e) \/ RecoverError(k, e)
  BY <1>4 DEF Recover, RecoverError
<1>5. QED
  BY <1>1, <1>2, <1>3, <1>4 DEF TaskStep

\* Every step keeps the types.
LEMMA TypeStep == TypeInv /\ [Next]_vars => TypeInv'
<1> SUFFICES ASSUME TypeInv, [Next]_vars PROVE TypeInv'
  OBVIOUS
<1> USE DEF TypeInv, TypeOK, InDispatch, RunStates, TaskStates, NoTasks, Goto,
        Release, SetRow, Worked, process, kafka, batch, redis, tasks, table
<1>1. ASSUME NEW k \in Pods, Assign(k) PROVE TypeInv'
  BY <1>1, EventsAreNumbers DEF Assign
<1>2. ASSUME NEW k \in Pods, Start(k) PROVE TypeInv'
  BY <1>2, EventsAreNumbers DEF Start
<1>3. ASSUME NEW k \in Pods, OnStart(k) PROVE TypeInv'
  BY <1>3, EventsAreNumbers DEF OnStart
<1>4. ASSUME NEW k \in Pods, LeaveLoop(k) PROVE TypeInv'
  BY <1>4, EventsAreNumbers DEF LeaveLoop
<1>5. ASSUME NEW k \in Pods, Poll(k) PROVE TypeInv'
  BY <1>5, EventsAreNumbers DEF Poll
<1>6. ASSUME NEW k \in Pods, Take(k) PROVE TypeInv'
  BY <1>6, EventsAreNumbers DEF Take
<1>7. ASSUME NEW k \in Pods, Spawn(k) PROVE TypeInv'
  <2>1. at[k] \in Events /\ Connect(at[k], held[k]) \in SUBSET Events
    BY <1>7, ConnectType DEF Spawn
  <2>2. QED
    BY <1>7, <2>1, EventsAreNumbers DEF Spawn
<1>8. ASSUME NEW k \in Pods, Duplicate(k) PROVE TypeInv'
  BY <1>8, EventsAreNumbers DEF Duplicate
<1>9. ASSUME NEW k \in Pods, CommitOk(k) PROVE TypeInv'
  BY <1>9, EventsAreNumbers DEF CommitOk
<1>10. ASSUME NEW k \in Pods, CommitRejected(k) PROVE TypeInv'
  BY <1>10, EventsAreNumbers DEF CommitRejected, CommitRaises
<1>11. ASSUME NEW k \in Pods, SendDlq(k) PROVE TypeInv'
  BY <1>11, EventsAreNumbers DEF SendDlq
<1>12. ASSUME NEW k \in Pods, OnStop(k) \/ OnStopDone(k) PROVE TypeInv'
  BY <1>12, EventsAreNumbers DEF OnStop, OnStopDone
<1>13. ASSUME NEW k \in Pods, Drain(k) PROVE TypeInv'
  BY <1>13, EventsAreNumbers DEF Drain
<1>14. ASSUME NEW k \in Pods, DrainTimeout(k) PROVE TypeInv'
  BY <1>14, EventsAreNumbers DEF DrainTimeout
<1>15. ASSUME NEW k \in Pods, Close(k) PROVE TypeInv'
  BY <1>15, EndProcessType DEF Close
<1>16. ASSUME NEW k \in Pods, Signal(k) PROVE TypeInv'
  <2>1. budget' \in [FaultKinds -> Nat]
    BY <1>16, KindsOfFaults, SpendType DEF Signal
  <2>2. QED
    BY <1>16, <2>1, EventsAreNumbers DEF Signal
<1>17. ASSUME NEW k \in Pods, Kill(k) PROVE TypeInv'
  BY <1>17, KindsOfFaults, SpendType, EndProcessType DEF Kill
<1>18. ASSUME NEW k \in Pods, RunError(k) PROVE TypeInv'
  <2>1. budget' \in [FaultKinds -> Nat]
    BY <1>18, KindsOfFaults, SpendType DEF RunError
  <2>2. QED
    BY <1>18, <2>1, EventsAreNumbers DEF RunError
<1>19. ASSUME NEW k \in Pods, CommitError(k) PROVE TypeInv'
  <2>1. budget' \in [FaultKinds -> Nat]
    BY <1>19, KindsOfFaults, SpendType DEF CommitError
  <2>2. QED
    BY <1>19, <2>1, EventsAreNumbers DEF CommitError
<1>20. ASSUME NEW k \in Pods, OnStopError(k) PROVE TypeInv'
  <2>1. budget' \in [FaultKinds -> Nat]
    BY <1>20, KindsOfFaults, SpendType DEF OnStopError
  <2>2. QED
    BY <1>20, <2>1, EventsAreNumbers DEF OnStopError
<1>21. ASSUME NEW k \in Pods, NEW e \in Events, Insert(k, e) PROVE TypeInv'
  BY <1>21, EventsAreNumbers DEF Insert
<1>22. ASSUME NEW k \in Pods, NEW e \in Events, StatementError(k, e) \/ Refused(k, e)
      PROVE TypeInv'
  <2>1. PICK to \in {"none", "failed", task[k][e]} : task' = [task EXCEPT ![k][e] = to]
    BY <1>22, FailedStatement
  <2>2. task' \in [Pods -> [Events -> TaskStates]] /\ held' \in [Pods -> SUBSET Events]
    BY <1>22, <2>1, FailedStatement
  <2>3. row' \in [Events -> {"none", "processing", "done", "failed"}]
    <3>1. row' = row \/ row' = [row EXCEPT ![e] = Status(k, e)]
      BY <1>22, FailedStatement
    <3>2. Status(k, e) \in {"processing", "done", "failed"}
      BY <1>22, FailedStatement DEF Status
    <3>3. QED
      BY <3>1, <3>2
  <2>4. budget' \in [FaultKinds -> Nat]
    BY <1>22, KindsOfFaults, SpendType, FailedStatement
  <2>5. UNCHANGED <<worked, process, kafka, batch, redis, recovered, dlq>>
    BY <1>22, FailedStatement DEF TaskFrame
  <2>6. QED
    BY <2>2, <2>3, <2>4, <2>5
<1>23. ASSUME NEW k \in Pods, NEW e \in Events, Work(k, e) PROVE TypeInv'
  <2>1. PICK to \in {"none", "done", "failed"} : task' = [task EXCEPT ![k][e] = to]
    BY <1>23, WorkedOff
  <2>2. task' \in [Pods -> [Events -> TaskStates]] /\ held' \in [Pods -> SUBSET Events]
    BY <1>23, <2>1, WorkedOff
  <2>3. worked' \in [Events -> Nat]
    <3>1. worked' = worked \/ worked' = [worked EXCEPT ![e] = worked[e] + 1]
      BY <1>23 DEF Work
    <3>2. worked \in [Events -> Nat] /\ worked[e] + 1 \in Nat
      OBVIOUS
    <3>3. QED
      BY <3>1, <3>2
  <2>4. UNCHANGED <<row, budget, process, kafka, batch, redis, recovered, dlq>>
    BY <1>23, WorkedOff DEF TaskFrame
  <2>5. QED
    BY <2>2, <2>3, <2>4
<1>24. ASSUME NEW k \in Pods, NEW e \in Events, Record(k, e) PROVE TypeInv'
  BY <1>24, EventsAreNumbers DEF Record
<1>25. ASSUME NEW k \in Pods, NEW e \in Events, Acquire(k, e) PROVE TypeInv'
  BY <1>25, EventsAreNumbers DEF Acquire
<1>26. ASSUME NEW k \in Pods, NEW e \in Events, Recover(k, e) PROVE TypeInv'
  BY <1>26, EventsAreNumbers DEF Recover
<1>27. ASSUME NEW k \in Pods, NEW e \in Events, RecoverError(k, e) PROVE TypeInv'
  <2>1. budget' \in [FaultKinds -> Nat]
    BY <1>27, KindsOfFaults, SpendType DEF RecoverError
  <2>2. QED
    BY <1>27, <2>1, EventsAreNumbers DEF RecoverError
<1>28. CASE Rebalance
  <2>1. budget' \in [FaultKinds -> Nat]
    BY <1>28, KindsOfFaults, SpendType DEF Rebalance
  <2>2. QED
    BY <1>28, <2>1, EventsAreNumbers DEF Rebalance
<1>29. CASE UNCHANGED vars
  BY <1>29 DEF vars
<1>30. ASSUME NEW e \in Events, Expire(e) PROVE TypeInv'
  <2>1. budget' \in [FaultKinds -> Nat]
    BY <1>30, KindsOfFaults, SpendType DEF Expire
  <2>2. QED
    BY <1>30, <2>1, EventsAreNumbers DEF Expire
<1>31. QED
  BY <1>1, <1>2, <1>3, <1>4, <1>5, <1>6, <1>7, <1>8, <1>9, <1>10, <1>11, <1>12, <1>13, <1>14,
     <1>15, <1>16, <1>17, <1>18, <1>19, <1>20, <1>21, <1>22, <1>23, <1>24, <1>25, <1>26, <1>27,
     <1>28, <1>29, <1>30
     DEF Next, Progress, TaskStep

\* The initial state has the types.
LEMMA TypeInit == Init => TypeInv
BY LastAssumption, BudgetAssumption
   DEF Init, TypeInv, TypeOK, InDispatch, RunStates, TaskStates, NoTasks, Events

\* Every variable of BackgroundTasks keeps its type.
THEOREM TypeCorrect == Spec => []TypeOK
<1>1. TypeInv => TypeOK
  BY DEF TypeInv
<1>2. QED
  BY TypeInit, TypeStep, <1>1, PTL DEF Spec

-----------------------------------------------------------------------------
(***************************************************************************)
(* One task at a time                                                      *)
(***************************************************************************)

\* The claim comes before the task, the task before the row, and what the task
\* is about to do tells what the row may say: only the one task of an event moves
\* it.  A row is ended before its task is new only when the claim has expired.
TaskInv ==
    /\ \A k \in Pods : pc[k] \in {"off", "on_start"} => task[k] = NoTasks
    /\ \A e \in Events : row[e] # "none" => e \in Accepted
    /\ \A k \in Pods, e \in Events :
         /\ task[k][e] # "none" => e \in claims
         /\ task[k][e] = "insert" => row[e] \in {"none", "processing"} \/ e \in expired
         /\ task[k][e] = "work" => row[e] = "processing"
         /\ task[k][e] = "done" => row[e] \in {"processing", "done"} /\ worked[e] > 0
         /\ task[k][e] = "failed" => row[e] # "none"
         /\ e \in recovered[k] => row[e] # "none"
    /\ NoConcurrentWork

\* Every step keeps one task per event.
LEMMA OneTaskStep == TypeInv /\ TaskInv /\ [Next]_vars => TaskInv'
<1> SUFFICES ASSUME TypeInv, TaskInv, [Next]_vars PROVE TaskInv'
  OBVIOUS
<1> USE DEF TaskInv, NoConcurrentWork, Accepted, TypeInv, TypeOK, InDispatch, TaskStates, NoTasks,
        Goto, Release, SetRow, Worked, process, kafka, batch, redis, tasks, table
<1>1. ASSUME NEW k \in Pods, Assign(k) PROVE TaskInv'
  BY <1>1 DEF Assign
<1>2. ASSUME NEW k \in Pods, Start(k) PROVE TaskInv'
  BY <1>2 DEF Start
<1>3. ASSUME NEW k \in Pods, OnStart(k) PROVE TaskInv'
  BY <1>3 DEF OnStart
<1>4. ASSUME NEW k \in Pods, LeaveLoop(k) PROVE TaskInv'
  BY <1>4 DEF LeaveLoop
<1>5. ASSUME NEW k \in Pods, Poll(k) PROVE TaskInv'
  BY <1>5 DEF Poll
<1>6. ASSUME NEW k \in Pods, Take(k) PROVE TaskInv'
  BY <1>6 DEF Take
<1>7. ASSUME NEW k \in Pods, Spawn(k) PROVE TaskInv'
  BY <1>7 DEF Spawn
<1>8. ASSUME NEW k \in Pods, Duplicate(k) PROVE TaskInv'
  BY <1>8 DEF Duplicate
<1>9. ASSUME NEW k \in Pods, CommitOk(k) PROVE TaskInv'
  BY <1>9 DEF CommitOk
<1>10. ASSUME NEW k \in Pods, CommitRejected(k) PROVE TaskInv'
  BY <1>10 DEF CommitRejected, CommitRaises
<1>11. ASSUME NEW k \in Pods, SendDlq(k) PROVE TaskInv'
  BY <1>11 DEF SendDlq
<1>12. ASSUME NEW k \in Pods, OnStop(k) \/ OnStopDone(k) PROVE TaskInv'
  BY <1>12 DEF OnStop, OnStopDone
<1>13. ASSUME NEW k \in Pods, Drain(k) PROVE TaskInv'
  BY <1>13 DEF Drain
<1>14. ASSUME NEW k \in Pods, DrainTimeout(k) PROVE TaskInv'
  BY <1>14 DEF DrainTimeout
<1>15. ASSUME NEW k \in Pods, Close(k) PROVE TaskInv'
  BY <1>15 DEF Close, EndProcess
<1>16. ASSUME NEW k \in Pods, Signal(k) PROVE TaskInv'
  BY <1>16 DEF Signal
<1>17. ASSUME NEW k \in Pods, Kill(k) PROVE TaskInv'
  BY <1>17 DEF Kill, EndProcess
<1>18. ASSUME NEW k \in Pods, RunError(k) PROVE TaskInv'
  BY <1>18 DEF RunError
<1>19. ASSUME NEW k \in Pods, CommitError(k) PROVE TaskInv'
  BY <1>19 DEF CommitError
<1>20. ASSUME NEW k \in Pods, OnStopError(k) PROVE TaskInv'
  BY <1>20 DEF OnStopError
<1>21. ASSUME NEW k \in Pods, NEW e \in Events, Insert(k, e) PROVE TaskInv'
  BY <1>21 DEF Insert
<1>22. ASSUME NEW k \in Pods, NEW e \in Events, StatementError(k, e) \/ Refused(k, e)
      PROVE TaskInv'
  <2>1. PICK to \in {"none", "failed", task[k][e]} :
               /\ task' = [task EXCEPT ![k][e] = to]
               /\ to = "failed" => task[k][e] \in {"done", "failed"}
    BY <1>22, FailedStatement
  <2>2. /\ task[k][e] \in {"insert", "done", "failed"}
        /\ row' = row \/ row' = [row EXCEPT ![e] = Status(k, e)]
        /\ UNCHANGED <<pc, claims, expired, recovered, worked>>
    BY <1>22, FailedStatement DEF TaskFrame
  <2>3. CASE row' = row
    BY <2>1, <2>2, <2>3
  <2>4. CASE row' = [row EXCEPT ![e] = Status(k, e)]
    <3>1. Status(k, e) = IF task[k][e] = "insert" THEN "processing" ELSE task[k][e]
      BY DEF Status
    <3>2. \A j \in Pods \ {k} : task[j][e] = "none" /\ task'[j] = task[j]
      BY <2>1, <2>2
    <3>3. QED
      BY <2>1, <2>2, <2>4, <3>1, <3>2
  <2>5. QED
    BY <2>2, <2>3, <2>4
<1>23. ASSUME NEW k \in Pods, NEW e \in Events, Work(k, e) PROVE TaskInv'
  <2>1. PICK to \in {"none", "done", "failed"} :
               task' = [task EXCEPT ![k][e] = to] /\ (to = "done" => Worked(e))
    BY <1>23, WorkedOff
  <2>2. /\ task[k][e] = "work" /\ (Worked(e) \/ UNCHANGED worked)
        /\ UNCHANGED <<pc, claims, expired, recovered, row>>
    BY <1>23, WorkedOff DEF TaskFrame
  <2>3. QED
    BY <2>1, <2>2
<1>24. ASSUME NEW k \in Pods, NEW e \in Events, Record(k, e) PROVE TaskInv'
  BY <1>24 DEF Record
<1>25. ASSUME NEW k \in Pods, NEW e \in Events, Acquire(k, e) PROVE TaskInv'
  BY <1>25 DEF Acquire
<1>26. ASSUME NEW k \in Pods, NEW e \in Events, Recover(k, e) PROVE TaskInv'
  BY <1>26 DEF Recover
<1>27. ASSUME NEW k \in Pods, NEW e \in Events, RecoverError(k, e) PROVE TaskInv'
  BY <1>27 DEF RecoverError
<1>28. CASE Rebalance
  BY <1>28 DEF Rebalance
<1>29. CASE UNCHANGED vars
  BY <1>29 DEF vars
<1>30. ASSUME NEW e \in Events, Expire(e) PROVE TaskInv'
  BY <1>30 DEF Expire
<1>31. QED
  BY <1>1, <1>2, <1>3, <1>4, <1>5, <1>6, <1>7, <1>8, <1>9, <1>10, <1>11, <1>12, <1>13, <1>14,
     <1>15, <1>16, <1>17, <1>18, <1>19, <1>20, <1>21, <1>22, <1>23, <1>24, <1>25, <1>26, <1>27,
     <1>28, <1>29, <1>30
     DEF Next, Progress, TaskStep

\* There is no task at the beginning.
LEMMA TaskInit == Init => TaskInv
BY DEF Init, TaskInv, NoConcurrentWork, NoTasks

\* No event is worked on by two tasks, or by a task and the recovery of its pod.
THEOREM WorkedOnByOneTask == Spec => []NoConcurrentWork
<1>1. TaskInv => NoConcurrentWork
  BY DEF TaskInv
<1>2. QED
  BY TypeInit, TypeStep, TaskInit, OneTaskStep, <1>1, PTL DEF Spec

-----------------------------------------------------------------------------
(***************************************************************************)
(* Offsets                                                                 *)
(***************************************************************************)

\* Whatever a pod has behind it was claimed: what is committed, what it took from
\* its batch, and what it fetched and does not have in hand.
Behind(k) ==
    \A e \in Events :
        /\ e < at[k] => e \in Accepted
        /\ e = at[k] /\ pc[k] \in {"loop", "spawn", "dlq", "settle"} => e \in Accepted
        /\ e <= position[k] => e \in Accepted \/ (at[k] <= e /\ e <= upto[k])

OrderInv ==
    /\ \A e \in Events : e <= committed => e \in Accepted
    /\ \A k \in Pods :
         /\ pc[k] \in {"off", "on_start"} => at[k] = 0
         /\ Behind(k)

\* When a pod commits or dead-letters, it does so behind its claims.
LEMMA SettledAreClaimed ==
    ASSUME TypeInv, OrderInv, NEW k \in Pods, pc[k] \in {"loop", "spawn", "dlq", "settle"}
    PROVE  /\ pc[k] # "loop" => at[k] \in Events
           /\ \A e \in Events : e <= at[k] => e \in Accepted
           /\ \A e \in Events : e <= position[k] /\ at[k] = upto[k] => e \in Accepted
<1>1. at[k] \in Nat /\ position[k] \in Nat /\ upto[k] \in Nat
  BY EventsAreNumbers DEF TypeInv, TypeOK
<1>2. ASSUME NEW e \in Events, e <= at[k] PROVE e \in Accepted
  <2>1. e < at[k] \/ e = at[k]
    BY <1>1, <1>2, EventsAreNumbers
  <2>2. QED
    BY <2>1 DEF OrderInv, Behind
<1>3. ASSUME NEW e \in Events, e <= position[k], at[k] = upto[k] PROVE e \in Accepted
  <2>1. e \in Accepted \/ e <= at[k]
    BY <1>3 DEF OrderInv, Behind
  <2>2. QED
    BY <1>2, <2>1
<1>4. pc[k] # "loop" => at[k] \in Events
  BY DEF TypeInv, InDispatch
<1>5. QED
  BY <1>2, <1>3, <1>4

\* Every step keeps claims before offsets.
LEMMA OrderStep == TypeInv /\ OrderInv /\ [Next]_vars => OrderInv'
<1> SUFFICES ASSUME TypeInv, OrderInv, [Next]_vars PROVE OrderInv'
  OBVIOUS
<1> USE LastAssumption, EventsAreNumbers
       DEF OrderInv, Behind, TypeInv, TypeOK, InDispatch, Goto, Accepted,
           process, kafka, batch, redis, tasks, table
<1>1. ASSUME NEW k \in Pods, Assign(k) PROVE OrderInv'
  BY <1>1 DEF Assign
<1>2. ASSUME NEW k \in Pods, Start(k) PROVE OrderInv'
  BY <1>2 DEF Start
<1>3. ASSUME NEW k \in Pods, OnStart(k) PROVE OrderInv'
  BY <1>3 DEF OnStart
<1>4. ASSUME NEW k \in Pods, LeaveLoop(k) PROVE OrderInv'
  BY <1>4 DEF LeaveLoop
<1>5. ASSUME NEW k \in Pods, Poll(k) PROVE OrderInv'
  <2>1. PICK last \in position[k] + 1 .. Last :
               /\ at' = [at EXCEPT ![k] = position[k]]
               /\ upto' = [upto EXCEPT ![k] = last]
               /\ position' = [position EXCEPT ![k] = last]
    BY <1>5 DEF Poll
  <2>2. at'[k] = position[k] /\ upto'[k] = last /\ position'[k] = last
        /\ pc[k] = "loop" /\ at[k] = upto[k]
    BY <1>5, <2>1 DEF Poll
  <2>3. \A f \in Events : f <= position[k] => f \in Accepted
    BY <2>2, SettledAreClaimed
  <2>4. UNCHANGED <<pc, Accepted, committed>>
        /\ \A j \in Pods \ {k} : UNCHANGED <<at[j], upto[j], position[j]>>
    BY <1>5, <2>1 DEF Poll
  <2>5. ASSUME NEW j \in Pods PROVE Behind(j)'
    <3>1. CASE j = k
      BY <2>2, <2>3, <2>4, <3>1
    <3>2. CASE j # k
      BY <2>4, <3>2
    <3>3. QED
      BY <3>1, <3>2
  <2>6. QED
    BY <2>2, <2>4, <2>5
<1>6. ASSUME NEW k \in Pods, Take(k) PROVE OrderInv'
  <2>1. pc[k] = "loop" /\ at'[k] = at[k] + 1 /\ pc'[k] = "claim" /\ at[k] < upto[k]
    BY <1>6 DEF Take
  <2>2. \A f \in Events : f <= at[k] => f \in Accepted
    BY <2>1, SettledAreClaimed
  <2>3. UNCHANGED <<upto, position, Accepted, committed>>
        /\ \A j \in Pods \ {k} : UNCHANGED <<at[j], pc[j]>>
    BY <1>6 DEF Take
  <2>4. ASSUME NEW j \in Pods PROVE Behind(j)'
    <3>1. CASE j = k
      BY <2>1, <2>2, <2>3, <3>1
    <3>2. CASE j # k
      BY <2>3, <3>2
    <3>3. QED
      BY <3>1, <3>2
  <2>5. QED
    BY <2>1, <2>3, <2>4
<1>7. ASSUME NEW k \in Pods, Spawn(k) PROVE OrderInv'
  BY <1>7 DEF Spawn
<1>8. ASSUME NEW k \in Pods, Duplicate(k) PROVE OrderInv'
  BY <1>8 DEF Duplicate
<1>9. ASSUME NEW k \in Pods, CommitOk(k) PROVE OrderInv'
  <2>1. /\ pc[k] \in {"spawn", "settle"} /\ pc' = [pc EXCEPT ![k] = "loop"] /\ committed' = at[k]
        /\ UNCHANGED <<at, upto, position, Accepted>>
    BY <1>9 DEF CommitOk
  <2>2. \A f \in Events : f <= at[k] => f \in Accepted
    BY <2>1, SettledAreClaimed
  <2>3. QED
    BY <2>1, <2>2
<1>10. ASSUME NEW k \in Pods, CommitRejected(k) PROVE OrderInv'
  BY <1>10 DEF CommitRejected, CommitRaises
<1>11. ASSUME NEW k \in Pods, SendDlq(k) PROVE OrderInv'
  BY <1>11 DEF SendDlq
<1>12. ASSUME NEW k \in Pods, OnStop(k) \/ OnStopDone(k) PROVE OrderInv'
  BY <1>12 DEF OnStop, OnStopDone
<1>13. ASSUME NEW k \in Pods, Drain(k) PROVE OrderInv'
  BY <1>13 DEF Drain
<1>14. ASSUME NEW k \in Pods, DrainTimeout(k) PROVE OrderInv'
  BY <1>14 DEF DrainTimeout
<1>15. ASSUME NEW k \in Pods, Close(k) PROVE OrderInv'
  BY <1>15 DEF Close, EndProcess
<1>16. ASSUME NEW k \in Pods, Signal(k) PROVE OrderInv'
  BY <1>16 DEF Signal
<1>17. ASSUME NEW k \in Pods, Kill(k) PROVE OrderInv'
  BY <1>17 DEF Kill, EndProcess
<1>18. ASSUME NEW k \in Pods, RunError(k) PROVE OrderInv'
  <2>1. pc'[k] = "on_stop" /\ Accepted \subseteq Accepted'
    BY <1>18 DEF RunError
  <2>2. committed' = committed \/ (pc[k] = "settle" /\ committed' = at[k])
    BY <1>18 DEF RunError
  <2>3. \A f \in Events : f <= committed' => f \in Accepted
    <3>1. CASE committed' = committed
      BY <3>1
    <3>2. CASE pc[k] = "settle" /\ committed' = at[k]
      BY <3>2, SettledAreClaimed
    <3>3. QED
      BY <2>2, <3>1, <3>2
  <2>4. UNCHANGED <<at, upto, position>> /\ \A j \in Pods \ {k} : pc'[j] = pc[j]
    BY <1>18 DEF RunError
  <2>5. QED
    BY <2>1, <2>3, <2>4
<1>19. ASSUME NEW k \in Pods, CommitError(k) PROVE OrderInv'
  <2>1. pc[k] = "spawn" /\ pc'[k] = "dlq" /\ (committed' = committed \/ committed' = at[k])
    BY <1>19 DEF CommitError
  <2>2. \A f \in Events : f <= committed' => f \in Accepted
    BY <2>1, SettledAreClaimed
  <2>3. QED
    BY <1>19, <2>1, <2>2 DEF CommitError
<1>20. ASSUME NEW k \in Pods, OnStopError(k) PROVE OrderInv'
  BY <1>20 DEF OnStopError
<1>21. ASSUME NEW k \in Pods, NEW e \in Events, TaskStep(k, e) PROVE OrderInv'
  BY <1>21, TaskMoves
<1>28. CASE Rebalance
  BY <1>28 DEF Rebalance
<1>29. CASE UNCHANGED vars
  BY <1>29 DEF vars
<1>30. ASSUME NEW e \in Events, Expire(e) PROVE OrderInv'
  BY <1>30 DEF Expire
<1>31. QED
  BY <1>1, <1>2, <1>3, <1>4, <1>5, <1>6, <1>7, <1>8, <1>9, <1>10, <1>11, <1>12, <1>13, <1>14,
     <1>15, <1>16, <1>17, <1>18, <1>19, <1>20, <1>21, <1>28, <1>29, <1>30
     DEF Next, Progress

\* Nothing is committed or fetched at the beginning.
LEMMA OrderInit == Init => OrderInv
BY EventsAreNumbers DEF Init, OrderInv, Behind

-----------------------------------------------------------------------------
(***************************************************************************)
(* The pattern implements Jobs                                             *)
(***************************************************************************)

job == [e \in Events |-> JobState(e)]

\* What moves neither claims nor offsets, table or dead letters is not visible.
LEMMA Hidden ==
    ASSUME UNCHANGED <<Accepted, expired, committed, row, worked, dlq>>
    PROVE  UNCHANGED Promise!jobs
BY DEF Promise!jobs, JobState

\* A job that moves alone.
LEMMA MoveJob ==
    ASSUME NEW e \in Events, NEW from, NEW to,
           JobState(e) = from, JobState(e)' = to,
           \A f \in Events \ {e} : JobState(f)' = JobState(f),
           UNCHANGED <<expired, committed, worked, dlq>>
    PROVE  Promise!Move(e, from, to)
<1>1. job' = [job EXCEPT ![e] = to]
  BY DEF job
<1>2. QED
  BY <1>1 DEF job, Promise!Move, Promise!Events, Events

\* An accepted event is not new, and one the table knows is begun or ended.
LEMMA KnownJobs ==
    ASSUME TypeInv, NEW e \in Events
    PROVE  /\ e \in Accepted => JobState(e) # "new"
           /\ row[e] # "none" => JobState(e) \in {"begun", "finished", "failed"}
BY DEF JobState, TypeInv, TypeOK

\* What is accepted can be dead-lettered.
LEMMA DeadLetterJob ==
    ASSUME TypeInv, NEW e \in Events, e \in Accepted, dlq' = dlq \cup {e},
           UNCHANGED <<Accepted, expired, committed, row, worked>>
    PROVE  Promise!Next
<1>1. job' = job
  BY DEF job, JobState
<1>2. Promise!DeadLetter(e)
  BY <1>1, KnownJobs DEF job, Promise!DeadLetter, Promise!Events, Events
<1>3. QED
  BY <1>2 DEF Promise!Next, Promise!Events, Events

\* What is accepted, with all before it, can be committed.
LEMMA AcknowledgeJob ==
    ASSUME TypeInv, NEW e \in Events, \A f \in Events : f <= e => f \in Accepted,
           committed' = e, UNCHANGED <<Accepted, expired, row, worked, dlq>>
    PROVE  Promise!Next
<1>1. job' = job
  BY DEF job, JobState
<1>2. ASSUME NEW f \in 1 .. e PROVE f \in Events /\ job[f] # "new"
  <2>1. f \in Events /\ f <= e
    BY LastAssumption DEF Events
  <2>2. QED
    BY <2>1, KnownJobs DEF job
<1>3. Promise!Acknowledge(e)
  BY <1>1, <1>2 DEF job, Promise!Acknowledge, Promise!Events, Events
<1>4. QED
  BY <1>3 DEF Promise!Next, Promise!Events, Events

\* What the table knows can be worked on.
LEMMA WorkJob ==
    ASSUME TypeInv, NEW e \in Events, row[e] # "none", Worked(e),
           UNCHANGED <<Accepted, expired, committed, row, dlq>>
    PROVE  Promise!Next
<1>1. job' = job
  BY DEF job, JobState
<1>2. Promise!Work(e)
  BY <1>1, KnownJobs DEF job, Worked, Promise!Work, Promise!Events, Events
<1>3. QED
  BY <1>2 DEF Promise!Next, Promise!Events, Events

\* A claim of an event that nobody had accepts it; that of one whose former claim
\* has expired shows nothing.
LEMMA AcceptJob ==
    ASSUME TypeInv, TaskInv, NEW e \in Events, claims' = claims \cup {e},
           UNCHANGED <<expired, committed, row, worked, dlq>>
    PROVE  [Promise!Next]_(Promise!jobs)
<1>1. CASE e \in Accepted
  <2>1. Accepted' = Accepted
    BY <1>1 DEF Accepted
  <2>2. QED
    BY <2>1, Hidden
<1>2. CASE e \notin Accepted
  <2>1. row[e] = "none" /\ Accepted' = Accepted \cup {e}
    BY <1>2 DEF TaskInv, Accepted
  <2>2. JobState(e) = "new" /\ JobState(e)' = "accepted"
    BY <1>2, <2>1 DEF JobState
  <2>3. \A f \in Events \ {e} : JobState(f)' = JobState(f)
    BY <2>1 DEF JobState
  <2>4. Promise!Accept(e)
    BY <2>2, <2>3, MoveJob DEF Promise!Accept
  <2>5. QED
    BY <2>4 DEF Promise!Next, Promise!Events, Events
<1>3. QED
  BY <1>1, <1>2

\* A claim that expires lets its event be taken for a new one.
LEMMA ExpireJob ==
    ASSUME TypeInv, NEW e \in Events, Expire(e)
    PROVE  Promise!Next
<1>1. /\ e \in Accepted /\ Accepted' = Accepted /\ expired' = expired \cup {e}
      /\ UNCHANGED <<row, committed, worked, dlq>>
  BY DEF Expire, Accepted, kafka, table
<1>2. job' = job
  BY <1>1 DEF job, JobState
<1>3. Promise!Expire(e)
  BY <1>1, <1>2, KnownJobs DEF job, Promise!Expire, Promise!Events, Events
<1>4. QED
  BY <1>3 DEF Promise!Next, Promise!Events, Events

\* The first statement of a task begins the job, when it is not begun yet.
LEMMA BeginJob ==
    ASSUME TypeInv, TaskInv, NEW k \in Pods, NEW e \in Events, task[k][e] = "insert",
           SetRow(e, "processing"), UNCHANGED <<Accepted, expired, committed, worked, dlq>>
    PROVE  [Promise!Next]_(Promise!jobs)
<1>1. /\ e \in Accepted
      /\ row[e] \in {"none", "processing"} \/ (e \in expired /\ row[e] \in {"done", "failed"})
      /\ row' = [row EXCEPT ![e] = "processing"]
      /\ row \in [Events -> {"none", "processing", "done", "failed"}]
  BY DEF TaskInv, Accepted, SetRow, TypeInv, TypeOK
<1>2. JobState(e)' = "begun" /\ \A f \in Events \ {e} : JobState(f)' = JobState(f)
  BY <1>1 DEF JobState
<1>3. CASE row[e] = "processing"
  <2>1. row' = row
    BY <1>1, <1>3
  <2>2. QED
    BY <2>1, Hidden
<1>4. CASE row[e] # "processing"
  <2>1. JobState(e) = "accepted" \/ (e \in expired /\ JobState(e) \in {"finished", "failed"})
    BY <1>1, <1>4 DEF JobState
  <2>2. Promise!Begin(e)
    BY <1>2, <2>1, MoveJob DEF Promise!Begin
  <2>3. QED
    BY <2>2 DEF Promise!Next, Promise!Events, Events
<1>5. QED
  BY <1>3, <1>4

\* The last statement of a task ends the job, or records as failed what it could
\* not see to be recorded as done.
LEMMA EndJob ==
    ASSUME TypeInv, TaskInv, NEW k \in Pods, NEW e \in Events, NEW status \in {"done", "failed"},
           task[k][e] = status, SetRow(e, status),
           UNCHANGED <<Accepted, expired, committed, worked, dlq>>
    PROVE  [Promise!Next]_(Promise!jobs)
<1>1. /\ status = "done" => worked[e] > 0 /\ row[e] \in {"processing", "done"}
      /\ row[e] # "none"
      /\ row' = [row EXCEPT ![e] = status]
      /\ row \in [Events -> {"none", "processing", "done", "failed"}]
  BY DEF TaskInv, SetRow, TypeInv, TypeOK
<1>2. \A f \in Events \ {e} : JobState(f)' = JobState(f)
  BY <1>1 DEF JobState
<1>3. CASE row[e] = status
  <2>1. row' = row
    BY <1>1, <1>3
  <2>2. QED
    BY <2>1, Hidden
<1>4. CASE status = "done" /\ row[e] # status
  <2>1. JobState(e) = "begun" /\ JobState(e)' = "finished"
    BY <1>1, <1>4 DEF JobState
  <2>2. Promise!Finish(e)
    BY <1>1, <1>2, <1>4, <2>1, MoveJob DEF Promise!Finish
  <2>3. QED
    BY <2>2 DEF Promise!Next, Promise!Events, Events
<1>5. CASE status = "failed" /\ row[e] # status
  <2>1. JobState(e) \in {"begun", "finished"} /\ JobState(e)' = "failed"
    BY <1>1, <1>5 DEF JobState
  <2>2. Promise!Fail(e)
    BY <1>2, <2>1, MoveJob DEF Promise!Fail
  <2>3. QED
    BY <2>2 DEF Promise!Next, Promise!Events, Events
<1>6. QED
  BY <1>3, <1>4, <1>5

\* The event a pod commits or dead-letters is accepted.
LEMMA ClaimedInHand ==
    ASSUME TypeInv, OrderInv, NEW k \in Pods, pc[k] \in {"spawn", "dlq", "settle"}
    PROVE  at[k] \in Accepted
BY EventsAreNumbers DEF TypeInv, InDispatch, OrderInv, Behind

\* Every step is a step of Jobs, or not visible.
LEMMA JobsStep == TypeInv /\ TaskInv /\ OrderInv /\ [Next]_vars => [Promise!Next]_(Promise!jobs)
<1> SUFFICES ASSUME TypeInv, TaskInv, OrderInv, [Next]_vars PROVE [Promise!Next]_(Promise!jobs)
  OBVIOUS
<1>1. ASSUME NEW k \in Pods, Assign(k) PROVE [Promise!Next]_(Promise!jobs)
  BY <1>1, Hidden DEF Assign, kafka, redis, table, Accepted
<1>2. ASSUME NEW k \in Pods, Start(k) PROVE [Promise!Next]_(Promise!jobs)
  BY <1>2, Hidden DEF Start, kafka, redis, table, Accepted
<1>3. ASSUME NEW k \in Pods, OnStart(k) PROVE [Promise!Next]_(Promise!jobs)
  BY <1>3, Hidden DEF OnStart, kafka, redis, table, Accepted
<1>4. ASSUME NEW k \in Pods, LeaveLoop(k) PROVE [Promise!Next]_(Promise!jobs)
  BY <1>4, Hidden DEF LeaveLoop, kafka, redis, table, Accepted
<1>5. ASSUME NEW k \in Pods, Poll(k) PROVE [Promise!Next]_(Promise!jobs)
  BY <1>5, Hidden DEF Poll, kafka, redis, table, Accepted
<1>6. ASSUME NEW k \in Pods, Take(k) PROVE [Promise!Next]_(Promise!jobs)
  BY <1>6, Hidden DEF Take, kafka, redis, table, Accepted
<1>7. ASSUME NEW k \in Pods, Spawn(k) PROVE [Promise!Next]_(Promise!jobs)
  <2>1. at[k] \in Events
    BY <1>7 DEF Spawn, Goto, TypeInv, InDispatch
  <2>2. QED
    BY <1>7, <2>1, AcceptJob DEF Spawn, kafka, redis, table, Accepted
<1>8. ASSUME NEW k \in Pods, Duplicate(k) PROVE [Promise!Next]_(Promise!jobs)
  BY <1>8, Hidden DEF Duplicate, kafka, redis, table, Accepted
<1>9. ASSUME NEW k \in Pods, CommitOk(k) PROVE [Promise!Next]_(Promise!jobs)
  <2>1. at[k] \in Events /\ \A f \in Events : f <= at[k] => f \in Accepted
    BY <1>9, SettledAreClaimed DEF CommitOk, Goto
  <2>2. QED
    BY <1>9, <2>1, AcknowledgeJob DEF CommitOk, redis, table, Accepted
<1>10. ASSUME NEW k \in Pods, CommitRejected(k) PROVE [Promise!Next]_(Promise!jobs)
  BY <1>10, Hidden DEF CommitRejected, kafka, redis, table, Accepted
<1>11. ASSUME NEW k \in Pods, SendDlq(k) PROVE [Promise!Next]_(Promise!jobs)
  <2>1. at[k] \in Events /\ \A f \in Events : f <= at[k] => f \in Accepted
    BY <1>11, SettledAreClaimed DEF SendDlq, Goto
  <2>2. at[k] \in Accepted
    BY <1>11, ClaimedInHand DEF SendDlq, Goto
  <2>3. QED
    BY <1>11, <2>1, <2>2, DeadLetterJob DEF SendDlq, kafka, redis, table, Accepted
<1>12. ASSUME NEW k \in Pods, OnStop(k) \/ OnStopDone(k) PROVE [Promise!Next]_(Promise!jobs)
  BY <1>12, Hidden DEF OnStop, OnStopDone, kafka, redis, table, Accepted
<1>13. ASSUME NEW k \in Pods, Drain(k) PROVE [Promise!Next]_(Promise!jobs)
  BY <1>13, Hidden DEF Drain, kafka, redis, table, Accepted
<1>14. ASSUME NEW k \in Pods, DrainTimeout(k) PROVE [Promise!Next]_(Promise!jobs)
  BY <1>14, Hidden DEF DrainTimeout, kafka, redis, table, Accepted
<1>15. ASSUME NEW k \in Pods, Close(k) PROVE [Promise!Next]_(Promise!jobs)
  BY <1>15, Hidden DEF Close, EndProcess, redis, table, Accepted
<1>16. ASSUME NEW k \in Pods, Signal(k) PROVE [Promise!Next]_(Promise!jobs)
  BY <1>16, Hidden DEF Signal, kafka, redis, table, Accepted
<1>17. ASSUME NEW k \in Pods, Kill(k) PROVE [Promise!Next]_(Promise!jobs)
  BY <1>17, Hidden DEF Kill, EndProcess, redis, table, Accepted
<1>18. ASSUME NEW k \in Pods, RunError(k) PROVE [Promise!Next]_(Promise!jobs)
  <2>1. UNCHANGED <<row, worked, expired>>
    BY <1>18 DEF RunError, table
  <2>2. CASE pc[k] = "claim"
    <3>1. at[k] \in Events /\ committed' = committed /\ dlq' = dlq
      BY <1>18, <2>2 DEF RunError, TypeInv, InDispatch
    <3>2. CASE claims' = claims
      BY <2>1, <3>1, <3>2, Hidden DEF Accepted
    <3>3. CASE claims' = claims \cup {at[k]}
      BY <2>1, <3>1, <3>3, AcceptJob
    <3>4. QED
      BY <1>18, <2>2, <3>2, <3>3 DEF RunError
  <2>3. CASE pc[k] = "dlq"
    <3>1. at[k] \in Events /\ at[k] \in Accepted
      BY <2>3, SettledAreClaimed, ClaimedInHand
    <3>2. Accepted' = Accepted /\ committed' = committed
      BY <1>18, <2>1, <2>3 DEF RunError, Accepted
    <3>3. CASE dlq' = dlq
      BY <2>1, <3>2, <3>3, Hidden
    <3>4. CASE dlq' = dlq \cup {at[k]}
      BY <2>1, <3>1, <3>2, <3>4, DeadLetterJob
    <3>5. QED
      BY <1>18, <2>3, <3>3, <3>4 DEF RunError
  <2>4. CASE pc[k] = "settle"
    <3>1. at[k] \in Events /\ \A f \in Events : f <= at[k] => f \in Accepted
      BY <2>4, SettledAreClaimed
    <3>2. Accepted' = Accepted /\ dlq' = dlq
      BY <1>18, <2>1, <2>4 DEF RunError, Accepted
    <3>3. CASE committed' = committed
      BY <2>1, <3>2, <3>3, Hidden
    <3>4. CASE committed' = at[k]
      BY <2>1, <3>1, <3>2, <3>4, AcknowledgeJob
    <3>5. QED
      BY <1>18, <2>4, <3>3, <3>4 DEF RunError
  <2>5. CASE pc[k] \notin {"claim", "dlq", "settle"}
    BY <1>18, <2>1, <2>5, Hidden DEF RunError, Accepted
  <2>6. QED
    BY <2>2, <2>3, <2>4, <2>5
<1>19. ASSUME NEW k \in Pods, CommitError(k) PROVE [Promise!Next]_(Promise!jobs)
  <2>1. at[k] \in Events /\ \A f \in Events : f <= at[k] => f \in Accepted
    BY <1>19, SettledAreClaimed DEF CommitError, Goto
  <2>2. CASE committed' = committed
    BY <1>19, <2>2, Hidden DEF CommitError, redis, table, Accepted
  <2>3. CASE committed' = at[k]
    BY <1>19, <2>1, <2>3, AcknowledgeJob DEF CommitError, redis, table, Accepted
  <2>4. QED
    BY <1>19, <2>2, <2>3 DEF CommitError
<1>20. ASSUME NEW k \in Pods, OnStopError(k) PROVE [Promise!Next]_(Promise!jobs)
  BY <1>20, Hidden DEF OnStopError, kafka, redis, table, Accepted
<1>21. ASSUME NEW k \in Pods, NEW e \in Events, Insert(k, e) PROVE [Promise!Next]_(Promise!jobs)
  <2>1. /\ task[k][e] = "insert" /\ SetRow(e, "processing")
        /\ UNCHANGED <<Accepted, expired, committed, worked, dlq>>
    BY <1>21 DEF Insert, Release, kafka, redis, Accepted
  <2>2. QED
    BY <2>1, BeginJob
<1>22. ASSUME NEW k \in Pods, NEW e \in Events, StatementError(k, e) \/ Refused(k, e)
      PROVE [Promise!Next]_(Promise!jobs)
  <2>1. /\ task[k][e] \in {"insert", "done", "failed"}
        /\ row' = row \/ SetRow(e, Status(k, e))
        /\ UNCHANGED <<Accepted, expired, committed, worked, dlq>>
    BY <1>22, FailedStatement DEF TypeInv, TaskFrame, kafka, redis, Accepted
  <2>2. CASE row' = row
    BY <2>1, <2>2, Hidden
  <2>3. CASE SetRow(e, Status(k, e)) /\ task[k][e] = "insert"
    BY <2>1, <2>3, BeginJob DEF Status
  <2>4. CASE SetRow(e, Status(k, e)) /\ task[k][e] \in {"done", "failed"}
    <3>1. Status(k, e) = task[k][e]
      BY <2>4 DEF Status
    <3>2. QED
      BY <2>1, <2>4, <3>1, EndJob
  <2>5. QED
    BY <2>1, <2>2, <2>3, <2>4
<1>23. ASSUME NEW k \in Pods, NEW e \in Events, Work(k, e) PROVE [Promise!Next]_(Promise!jobs)
  <2>1. /\ task[k][e] = "work" /\ (Worked(e) \/ UNCHANGED worked)
        /\ UNCHANGED <<Accepted, expired, committed, row, dlq>>
    BY <1>23, WorkedOff DEF TypeInv, TaskFrame, kafka, redis, Accepted
  <2>2. row[e] # "none"
    BY <2>1 DEF TaskInv
  <2>3. QED
    BY <2>1, <2>2, WorkJob, Hidden
<1>24. ASSUME NEW k \in Pods, NEW e \in Events, Record(k, e) PROVE [Promise!Next]_(Promise!jobs)
  <2>1. /\ task[k][e] \in {"done", "failed"} /\ SetRow(e, task[k][e])
        /\ UNCHANGED <<Accepted, expired, committed, worked, dlq>>
    BY <1>24 DEF Record, Release, kafka, redis, Accepted
  <2>2. QED
    BY <2>1, EndJob
<1>25. ASSUME NEW k \in Pods, NEW e \in Events, Acquire(k, e) PROVE [Promise!Next]_(Promise!jobs)
  BY <1>25, Hidden DEF Acquire, kafka, redis, table, Accepted
<1>26. ASSUME NEW k \in Pods, NEW e \in Events, Recover(k, e) PROVE [Promise!Next]_(Promise!jobs)
  <2>1. row[e] # "none"
    BY <1>26 DEF Recover, TaskInv
  <2>2. QED
    BY <1>26, <2>1, WorkJob DEF Recover, kafka, redis, Accepted
<1>27. ASSUME NEW k \in Pods, NEW e \in Events, RecoverError(k, e) PROVE [Promise!Next]_(Promise!jobs)
  BY <1>27, Hidden DEF RecoverError, kafka, redis, table, Accepted
<1>28. CASE Rebalance
  BY <1>28, Hidden DEF Rebalance, kafka, redis, table, Accepted
<1>29. CASE UNCHANGED vars
  BY <1>29, Hidden DEF vars, kafka, redis, table, Accepted
<1>30. ASSUME NEW e \in Events, Expire(e) PROVE [Promise!Next]_(Promise!jobs)
  BY <1>30, ExpireJob
<1>31. QED
  BY <1>1, <1>2, <1>3, <1>4, <1>5, <1>6, <1>7, <1>8, <1>9, <1>10, <1>11, <1>12, <1>13, <1>14,
     <1>15, <1>16, <1>17, <1>18, <1>19, <1>20, <1>21, <1>22, <1>23, <1>24, <1>25, <1>26, <1>27,
     <1>28, <1>29, <1>30
     DEF Next, Progress, TaskStep

\* Initially no event is accepted.
LEMMA JobsInit == Init => Promise!Init
BY DEF Init, Accepted, JobState, Promise!Init, Promise!Events, Events

\* The background pattern implements Jobs, for any number of pods and events and
\* whatever faults strike: no event is committed or dead-lettered before it is
\* accepted, its job begins, is worked on and ends in this order, and what has
\* ended does not begin again before its claim expires.
THEOREM PatternImplementsJobs == Spec => ImplementsJobs
BY TypeInit, TypeStep, TaskInit, OneTaskStep, OrderInit, OrderStep, JobsInit, JobsStep, PTL
   DEF Spec, ImplementsJobs, Promise!Spec

-----------------------------------------------------------------------------
(***************************************************************************)
(* Without faults nothing is lost                                          *)
(***************************************************************************)

BudgetInv == \A fault \in FaultKinds : budget[fault] \in Nat /\ budget[fault] <= Budget[fault]

\* While no fault struck, every process is in its loop with its pool open, the
\* pod that has a batch owns the partition, and what is claimed is known to the
\* table or to a task.
Quiet ==
    /\ \A k \in Pods :
         /\ pc[k] \in {"off", "on_start", "loop", "claim", "spawn", "settle"}
         /\ ~stop[k]
         /\ pc[k] \notin {"off", "on_start"} => db[k] = "open"
         /\ pc[k] \in {"claim", "spawn", "settle"} => owner = k
         /\ at[k] < upto[k] => owner = k
    /\ expired = {}
    /\ \A e \in claims : row[e] # "none" \/ \E k \in Pods : task[k][e] # "none"

QuietInv == BudgetInv /\ (AllSpent = 0 => Quiet)

\* A fault is counted.
LEMMA SpendCounts ==
    ASSUME TypeInv, BudgetInv, NEW f \in FaultKinds, Spend(f)
    PROVE  BudgetInv' /\ AllSpent' > 0 /\ budget' # budget
<1>1. budget[f] > 0 /\ budget' = [budget EXCEPT ![f] = budget[f] - 1]
  BY DEF Spend
<1>2. DOMAIN budget = FaultKinds /\ \A g \in FaultKinds : budget[g] \in Nat /\ Budget[g] \in Nat
  BY BudgetAssumption DEF TypeInv, TypeOK
<1>3. budget'[f] = budget[f] - 1 /\ \A g \in FaultKinds \ {f} : budget'[g] = budget[g]
  BY <1>1, <1>2
<1>4. BudgetInv'
  BY <1>1, <1>2, <1>3 DEF BudgetInv
<1>5. \A g \in FaultKinds : Spent(g)' \in Nat
  BY <1>2, <1>4 DEF Spent, BudgetInv
<1>6. Spent(f)' > 0
  BY <1>1, <1>2, <1>3 DEF Spent, BudgetInv
<1>7. AllSpent' > 0
  BY <1>5, <1>6 DEF AllSpent, FaultKinds
<1>8. QED
  BY <1>1, <1>2, <1>3, <1>4, <1>7

\* A step counts its fault, or there is none.
BudgetKept == BudgetInv' /\ (budget' = budget \/ AllSpent' > 0)

\* Every step keeps the account of faults.
LEMMA BudgetStep == TypeInv /\ BudgetInv /\ [Next]_vars => BudgetKept
<1> SUFFICES ASSUME TypeInv, BudgetInv, [Next]_vars PROVE BudgetKept
  OBVIOUS
<1> USE DEF BudgetKept
<1>1. ASSUME NEW k \in Pods, Assign(k) PROVE BudgetKept
  BY <1>1 DEF Assign, BudgetInv
<1>2. ASSUME NEW k \in Pods, Start(k) PROVE BudgetKept
  BY <1>2 DEF Start, BudgetInv
<1>3. ASSUME NEW k \in Pods, OnStart(k) PROVE BudgetKept
  BY <1>3 DEF OnStart, BudgetInv
<1>4. ASSUME NEW k \in Pods, LeaveLoop(k) PROVE BudgetKept
  BY <1>4 DEF LeaveLoop, BudgetInv
<1>5. ASSUME NEW k \in Pods, Poll(k) PROVE BudgetKept
  BY <1>5 DEF Poll, BudgetInv
<1>6. ASSUME NEW k \in Pods, Take(k) PROVE BudgetKept
  BY <1>6 DEF Take, BudgetInv
<1>7. ASSUME NEW k \in Pods, Spawn(k) PROVE BudgetKept
  BY <1>7 DEF Spawn, BudgetInv
<1>8. ASSUME NEW k \in Pods, Duplicate(k) PROVE BudgetKept
  BY <1>8 DEF Duplicate, BudgetInv
<1>9. ASSUME NEW k \in Pods, CommitOk(k) PROVE BudgetKept
  BY <1>9 DEF CommitOk, BudgetInv
<1>10. ASSUME NEW k \in Pods, CommitRejected(k) PROVE BudgetKept
  BY <1>10 DEF CommitRejected, BudgetInv
<1>11. ASSUME NEW k \in Pods, SendDlq(k) PROVE BudgetKept
  BY <1>11 DEF SendDlq, BudgetInv
<1>12. ASSUME NEW k \in Pods, OnStop(k) \/ OnStopDone(k) PROVE BudgetKept
  BY <1>12 DEF OnStop, OnStopDone, BudgetInv
<1>13. ASSUME NEW k \in Pods, Drain(k) PROVE BudgetKept
  BY <1>13 DEF Drain, BudgetInv
<1>14. ASSUME NEW k \in Pods, DrainTimeout(k) PROVE BudgetKept
  BY <1>14 DEF DrainTimeout, BudgetInv
<1>15. ASSUME NEW k \in Pods, Close(k) PROVE BudgetKept
  BY <1>15 DEF Close, EndProcess, BudgetInv
<1>16. ASSUME NEW k \in Pods, Signal(k) PROVE BudgetKept
  BY <1>16, KindsOfFaults, SpendCounts DEF Signal
<1>17. ASSUME NEW k \in Pods, Kill(k) PROVE BudgetKept
  BY <1>17, KindsOfFaults, SpendCounts DEF Kill
<1>18. ASSUME NEW k \in Pods, RunError(k) PROVE BudgetKept
  BY <1>18, KindsOfFaults, SpendCounts DEF RunError
<1>19. ASSUME NEW k \in Pods, CommitError(k) PROVE BudgetKept
  BY <1>19, KindsOfFaults, SpendCounts DEF CommitError
<1>20. ASSUME NEW k \in Pods, OnStopError(k) PROVE BudgetKept
  BY <1>20, KindsOfFaults, SpendCounts DEF OnStopError
<1>21. ASSUME NEW k \in Pods, NEW e \in Events, TaskStep(k, e) PROVE BudgetKept
  <2>1. CASE UNCHANGED budget
    BY <2>1 DEF BudgetInv
  <2>2. CASE Spend("error")
    BY <2>2, KindsOfFaults, SpendCounts
  <2>3. QED
    BY <1>21, <2>1, <2>2, TaskMoves DEF TypeInv
<1>28. CASE Rebalance
  BY <1>28, KindsOfFaults, SpendCounts DEF Rebalance
<1>29. CASE UNCHANGED vars
  BY <1>29 DEF vars, BudgetInv
<1>30. ASSUME NEW e \in Events, Expire(e) PROVE BudgetKept
  BY <1>30, KindsOfFaults, SpendCounts DEF Expire
<1>31. QED
  BY <1>1, <1>2, <1>3, <1>4, <1>5, <1>6, <1>7, <1>8, <1>9, <1>10, <1>11, <1>12, <1>13, <1>14,
     <1>15, <1>16, <1>17, <1>18, <1>19, <1>20, <1>21, <1>28, <1>29, <1>30
     DEF Next, Progress

\* A step that is no fault keeps quiet.
LEMMA QuietStep ==
    TypeInv /\ TaskInv /\ OrderInv /\ BudgetInv /\ Quiet /\ budget' = budget /\ [Next]_vars => Quiet'
<1> SUFFICES ASSUME TypeInv, TaskInv, OrderInv, BudgetInv, Quiet, budget' = budget, [Next]_vars
             PROVE  Quiet'
  OBVIOUS
<1> USE DEF Quiet, TaskInv, OrderInv, TypeInv, TypeOK, InDispatch, TaskStates, Goto, Release,
        SetRow, Worked, process, kafka, batch, redis, tasks, table
<1>1. ASSUME NEW k \in Pods, Assign(k) PROVE Quiet'
  BY <1>1, PodsAssumption DEF Assign
<1>2. ASSUME NEW k \in Pods, Start(k) PROVE Quiet'
  BY <1>2 DEF Start
<1>3. ASSUME NEW k \in Pods, OnStart(k) PROVE Quiet'
  BY <1>3 DEF OnStart
<1>4. ASSUME NEW k \in Pods, LeaveLoop(k) PROVE Quiet'
  BY <1>4 DEF LeaveLoop
<1>5. ASSUME NEW k \in Pods, Poll(k) PROVE Quiet'
  BY <1>5 DEF Poll
<1>6. ASSUME NEW k \in Pods, Take(k) PROVE Quiet'
  BY <1>6 DEF Take
<1>7. ASSUME NEW k \in Pods, Spawn(k) PROVE Quiet'
  BY <1>7 DEF Spawn
<1>8. ASSUME NEW k \in Pods, Duplicate(k) PROVE Quiet'
  BY <1>8 DEF Duplicate
<1>9. ASSUME NEW k \in Pods, CommitOk(k) PROVE Quiet'
  BY <1>9 DEF CommitOk
<1>10. ASSUME NEW k \in Pods, CommitRejected(k) PROVE Quiet'
  BY <1>10 DEF CommitRejected, CommitRaises
<1>11. ASSUME NEW k \in Pods, SendDlq(k) PROVE Quiet'
  BY <1>11 DEF SendDlq
<1>12. ASSUME NEW k \in Pods, OnStop(k) \/ OnStopDone(k) PROVE Quiet'
  BY <1>12 DEF OnStop, OnStopDone
<1>13. ASSUME NEW k \in Pods, Drain(k) PROVE Quiet'
  BY <1>13 DEF Drain
<1>14. ASSUME NEW k \in Pods, DrainTimeout(k) PROVE Quiet'
  BY <1>14 DEF DrainTimeout
<1>15. ASSUME NEW k \in Pods, Close(k) PROVE Quiet'
  BY <1>15 DEF Close
<1>16. ASSUME NEW k \in Pods, Signal(k) PROVE Quiet'
  BY <1>16, KindsOfFaults, SpendCounts DEF Signal
<1>17. ASSUME NEW k \in Pods, Kill(k) PROVE Quiet'
  BY <1>17, KindsOfFaults, SpendCounts DEF Kill
<1>18. ASSUME NEW k \in Pods, RunError(k) PROVE Quiet'
  BY <1>18, KindsOfFaults, SpendCounts DEF RunError
<1>19. ASSUME NEW k \in Pods, CommitError(k) PROVE Quiet'
  BY <1>19, KindsOfFaults, SpendCounts DEF CommitError
<1>20. ASSUME NEW k \in Pods, OnStopError(k) PROVE Quiet'
  BY <1>20, KindsOfFaults, SpendCounts DEF OnStopError
<1>21. ASSUME NEW k \in Pods, NEW e \in Events, Insert(k, e) PROVE Quiet'
  BY <1>21 DEF Insert
<1>22. ASSUME NEW k \in Pods, NEW e \in Events, StatementError(k, e) \/ Refused(k, e)
      PROVE Quiet'
  <2>1. task[k][e] # "none"
    BY <1>22, FailedStatement
  <2>2. db[k] = "open"
    BY <2>1 DEF NoTasks
  <2>3. Spend("error")
    BY <1>22, <2>2 DEF StatementError, Refused
  <2>4. QED
    BY <2>3, KindsOfFaults, SpendCounts
<1>23. ASSUME NEW k \in Pods, NEW e \in Events, Work(k, e) PROVE Quiet'
  <2>1. task[k][e] = "work"
    BY <1>23 DEF Work
  <2>2. PICK to \in {"none", "done", "failed"} : task' = [task EXCEPT ![k][e] = to]
    BY <1>23, WorkedOff
  <2>3. UNCHANGED <<pc, stop, db, owner, at, upto, claims, expired, row>>
    BY <1>23, WorkedOff DEF TaskFrame
  <2>4. row[e] # "none"
    BY <2>1
  <2>5. QED
    BY <2>2, <2>3, <2>4
<1>24. ASSUME NEW k \in Pods, NEW e \in Events, Record(k, e) PROVE Quiet'
  BY <1>24 DEF Record
<1>25. ASSUME NEW k \in Pods, NEW e \in Events, Acquire(k, e) PROVE Quiet'
  BY <1>25 DEF Acquire
<1>26. ASSUME NEW k \in Pods, NEW e \in Events, Recover(k, e) PROVE Quiet'
  BY <1>26 DEF Recover
<1>27. ASSUME NEW k \in Pods, NEW e \in Events, RecoverError(k, e) PROVE Quiet'
  BY <1>27, KindsOfFaults, SpendCounts DEF RecoverError
<1>28. CASE Rebalance
  BY <1>28, KindsOfFaults, SpendCounts DEF Rebalance
<1>29. CASE UNCHANGED vars
  BY <1>29 DEF vars
<1>30. ASSUME NEW e \in Events, Expire(e) PROVE Quiet'
  BY <1>30, KindsOfFaults, SpendCounts DEF Expire
<1>31. QED
  BY <1>1, <1>2, <1>3, <1>4, <1>5, <1>6, <1>7, <1>8, <1>9, <1>10, <1>11, <1>12, <1>13, <1>14,
     <1>15, <1>16, <1>17, <1>18, <1>19, <1>20, <1>21, <1>22, <1>23, <1>24, <1>25, <1>26, <1>27,
     <1>28, <1>29, <1>30
     DEF Next, Progress, TaskStep

\* Every step keeps the account, and quiet where there were none.
LEMMA LossStep ==
    TypeInv /\ TaskInv /\ OrderInv /\ QuietInv /\ [Next]_vars => QuietInv'
<1> SUFFICES ASSUME TypeInv, TaskInv, OrderInv, QuietInv, [Next]_vars PROVE QuietInv'
  OBVIOUS
<1>1. BudgetInv' /\ (budget' = budget \/ AllSpent' > 0)
  BY BudgetStep DEF QuietInv, BudgetKept
<1>2. CASE budget' = budget
  <2>1. AllSpent' = AllSpent
    BY <1>2 DEF AllSpent, Spent
  <2>2. QED
    BY <1>1, <1>2, <2>1, QuietStep DEF QuietInv
<1>3. CASE AllSpent' > 0
  BY <1>1, <1>3 DEF QuietInv
<1>4. QED
  BY <1>1, <1>2, <1>3

\* All is quiet at the beginning.
LEMMA QuietInit == Init => QuietInv
<1> SUFFICES ASSUME Init PROVE QuietInv
  OBVIOUS
<1>1. BudgetInv
  BY BudgetAssumption DEF Init, BudgetInv
<1>2. Quiet
  BY DEF Init, Quiet
<1>3. QED
  BY <1>1, <1>2 DEF QuietInv

\* A committed event that no table, no task and no dead letter knows takes a
\* fault, however the tasks interleave with the loops of all pods.
THEOREM LossTakesAFault == Spec => []LossNeedsFault
<1>1. TypeInv /\ OrderInv /\ QuietInv => LossNeedsFault
  <2> SUFFICES ASSUME TypeInv, OrderInv, QuietInv PROVE LossNeedsFault
    OBVIOUS
  <2>1. \A f \in FaultKinds : Spent(f) \in Nat
    BY BudgetAssumption DEF QuietInv, BudgetInv, Spent
  <2>2. AllSpent > 0 \/ AllSpent = 0
    BY <2>1 DEF AllSpent, FaultKinds
  <2>3. ASSUME AllSpent = 0, NEW e \in 1 .. committed
        PROVE  row[e] # "none" \/ \E k \in Pods : task[k][e] # "none"
    <3>1. e \in Events /\ e <= committed
      BY LastAssumption DEF TypeInv, TypeOK, Events
    <3>2. e \in Accepted
      BY <3>1 DEF OrderInv
    <3>3. QED
      BY <2>3, <3>2 DEF QuietInv, Quiet, Accepted
  <2>4. AllSpent = 0 => Lost = {}
    BY <2>3 DEF Lost
  <2>5. QED
    BY <2>2, <2>4 DEF LossNeedsFault
<1>2. QED
  BY TypeInit, TypeStep, TaskInit, OneTaskStep, OrderInit, OrderStep, QuietInit, LossStep, <1>1, PTL
     DEF Spec

-----------------------------------------------------------------------------
(***************************************************************************)
(* Dead letters of accepted events.                                        *)
(*                                                                         *)
(* The only way into the DLQ is a commit that fails after the task was     *)
(* spawned.  A request that fails is spent at once; a rejected commit was  *)
(* spent by the rebalance that took the partition, and from then on the    *)
(* pod is a stray: it goes on with its batch until that commit.            *)
(***************************************************************************)

\* Pod k has lost the partition and is on its way to a rejected commit of a
\* task that it has spawned or is about to spawn.
Stray(k) ==
    /\ owner # k
    /\ pc[k] \in {"claim", "spawn"} \/ (pc[k] = "loop" /\ at[k] < upto[k])

Strays == {k \in Pods : Stray(k)}

\* Events in the DLQ, or in the hands of a pod that sends them there.
Dying == dlq \cup {at[k] : k \in {j \in Pods : pc[j] = "dlq"}}

DyingInv == Cardinality(Dying) + Cardinality(Strays) <= Spent("error") + Spent("rebalance")

\* A pod that is not yet in its loop has no batch and has recovered nothing.
IdleInv ==
    \A k \in Pods : pc[k] \in {"off", "on_start"} => upto[k] = 0 /\ recovered[k] = {}

\* What was spent counts faults: integers that only grow, by one for a fault.
LEMMA SpentMoves ==
    ASSUME TypeInv, TypeInv'
    PROVE  /\ \A f \in FaultKinds : Spent(f) \in Int /\ Spent(f)' \in Int
           /\ UNCHANGED budget => \A f \in FaultKinds : Spent(f)' = Spent(f)
           /\ \A f \in FaultKinds : Spend(f) =>
                /\ Spent(f)' = Spent(f) + 1
                /\ \A g \in FaultKinds \ {f} : Spent(g)' = Spent(g)
<1>1. /\ \A f \in FaultKinds : budget[f] \in Nat /\ budget'[f] \in Nat /\ Budget[f] \in Nat
      /\ budget \in [FaultKinds -> Nat]
  BY BudgetAssumption DEF TypeInv, TypeOK
<1>2. \A f \in FaultKinds : Spent(f) \in Int /\ Spent(f)' \in Int
  BY <1>1 DEF Spent
<1>3. ASSUME NEW f \in FaultKinds, Spend(f)
      PROVE  /\ Spent(f)' = Spent(f) + 1
             /\ \A g \in FaultKinds \ {f} : Spent(g)' = Spent(g)
  <2>1. budget' = [budget EXCEPT ![f] = budget[f] - 1]
    BY <1>3 DEF Spend
  <2>2. budget'[f] = budget[f] - 1 /\ \A g \in FaultKinds \ {f} : budget'[g] = budget[g]
    BY <1>1, <2>1
  <2>3. QED
    BY <1>1, <2>2 DEF Spent
<1>4. UNCHANGED budget => \A f \in FaultKinds : Spent(f)' = Spent(f)
  BY DEF Spent
<1>5. QED
  BY <1>2, <1>3, <1>4

\* The sets that are counted are finite, before and after a step.
LEMMA CountedAreFinite ==
    ASSUME TypeInv, TypeInv'
    PROVE  /\ IsFiniteSet(Dying) /\ Cardinality(Dying) \in Nat
           /\ IsFiniteSet(Strays) /\ Cardinality(Strays) \in Nat
           /\ Cardinality(Dying') \in Nat /\ Cardinality(Strays') \in Nat
<1>1. Dying \subseteq Events /\ Dying' \subseteq Events
  BY DEF Dying, TypeInv, TypeOK, InDispatch
<1>2. IsFiniteSet(Events)
  BY FS_Interval, LastAssumption DEF Events
<1>3. Strays \subseteq Pods /\ Strays' \subseteq Pods
  BY DEF Strays
<1>4. QED
  BY <1>1, <1>2, <1>3, NoneMore, PodsAssumption

\* The bound is kept when the two sets grow by no more than what is spent.
LEMMA DyingCovered ==
    ASSUME TypeInv, TypeInv', DyingInv, NEW d \in Int, NEW s \in Int,
           Cardinality(Dying') <= Cardinality(Dying) + d,
           Cardinality(Strays') <= Cardinality(Strays) + s,
           Spent("error")' + Spent("rebalance")' >= Spent("error") + Spent("rebalance") + d + s
    PROVE  DyingInv'
<1>1. /\ Cardinality(Dying) \in Nat /\ Cardinality(Dying') \in Nat
      /\ Cardinality(Strays) \in Nat /\ Cardinality(Strays') \in Nat
  BY CountedAreFinite
<1>2. /\ Spent("error") \in Int /\ Spent("error")' \in Int
      /\ Spent("rebalance") \in Int /\ Spent("rebalance")' \in Int
  BY SpentMoves, KindsOfFaults
<1>3. Cardinality(Dying) + Cardinality(Strays) <= Spent("error") + Spent("rebalance")
  BY DEF DyingInv
<1>4. Cardinality(Dying') + Cardinality(Strays') <= Spent("error")' + Spent("rebalance")'
  BY <1>1, <1>2, <1>3
<1>5. QED
  BY <1>4 DEF DyingInv

\* A step that brings nothing nearer to the DLQ keeps the bound.
LEMMA NoneDying ==
    ASSUME TypeInv, TypeInv', DyingInv,
           Dying' \subseteq Dying, Strays' \subseteq Strays,
           UNCHANGED budget \/ \E f \in FaultKinds : Spend(f)
    PROVE  DyingInv'
<1>1. /\ Cardinality(Dying') <= Cardinality(Dying) + 0
      /\ Cardinality(Strays') <= Cardinality(Strays) + 0
  BY CountedAreFinite, NoneMore
<1>2. \A f \in {"error", "rebalance"} :
         Spent(f) \in Int /\ Spent(f)' \in Int /\ Spent(f)' >= Spent(f)
  BY SpentMoves, KindsOfFaults
<1>3. Spent("error")' + Spent("rebalance")' >= Spent("error") + Spent("rebalance") + 0 + 0
  BY <1>2
<1>4. QED
  BY <1>1, <1>3, DyingCovered

\* A step of pod k brings nothing nearer to the DLQ when it does not for k itself.
LEMMA NothingNearer ==
    ASSUME NEW k \in Pods,
           dlq' \subseteq Dying,
           pc'[k] = "dlq" => at'[k] \in Dying,
           Stray(k)' => Stray(k),
           \A j \in Pods \ {k} : /\ pc'[j] = pc[j] /\ at'[j] = at[j] /\ upto'[j] = upto[j]
                                 /\ owner = j => owner' = j
    PROVE  Dying' \subseteq Dying /\ Strays' \subseteq Strays
<1>1. ASSUME NEW j \in Pods, pc'[j] = "dlq" PROVE at'[j] \in Dying
  BY <1>1 DEF Dying
<1>2. ASSUME NEW j \in Pods, Stray(j)' PROVE Stray(j)
  BY <1>2 DEF Stray
<1>3. QED
  BY <1>1, <1>2 DEF Dying, Strays

\* A step of a task takes up no other event again.
LEMMA TaskRecovers ==
    ASSUME TypeOK, NEW k \in Pods, NEW e \in Events, TaskStep(k, e), NEW j \in Pods
    PROVE  recovered'[j] \subseteq recovered[j]
<1>1. CASE StatementError(k, e) \/ Refused(k, e)
  BY <1>1, FailedStatement DEF TaskFrame
<1>2. CASE Work(k, e)
  BY <1>2, WorkedOff DEF TaskFrame
<1>3. CASE Acquire(k, e) \/ Insert(k, e) \/ Record(k, e)
  BY <1>3 DEF Acquire, Insert, Record, Release
<1>4. CASE Recover(k, e) \/ RecoverError(k, e)
  BY <1>4 DEF Recover, RecoverError, TypeOK
<1>5. QED
  BY <1>1, <1>2, <1>3, <1>4 DEF TaskStep

\* Every step keeps the pods before their loop without a batch.
LEMMA IdleStep == TypeInv /\ IdleInv /\ [Next]_vars => IdleInv'
<1> SUFFICES ASSUME TypeInv, IdleInv, [Next]_vars PROVE IdleInv'
  OBVIOUS
<1> USE DEF IdleInv, TypeInv, TypeOK, Goto, process, kafka, batch, redis, tasks, table
<1>1. ASSUME NEW k \in Pods,
             Assign(k) \/ Start(k) \/ OnStart(k) \/ LeaveLoop(k) \/ Poll(k) \/ Take(k) \/ Spawn(k)
      PROVE  IdleInv'
  BY <1>1 DEF Assign, Start, OnStart, LeaveLoop, Poll, Take, Spawn
<1>2. ASSUME NEW k \in Pods,
             Duplicate(k) \/ CommitOk(k) \/ CommitRejected(k) \/ SendDlq(k)
             \/ OnStop(k) \/ OnStopDone(k) \/ Drain(k) \/ DrainTimeout(k)
      PROVE  IdleInv'
  BY <1>2 DEF Duplicate, CommitOk, CommitRejected, CommitRaises, SendDlq, OnStop,
              OnStopDone, Drain, DrainTimeout
<1>3. ASSUME NEW k \in Pods,
             Signal(k) \/ RunError(k) \/ CommitError(k) \/ OnStopError(k)
      PROVE  IdleInv'
  BY <1>3 DEF Signal, RunError, CommitError, OnStopError
<1>4. ASSUME NEW k \in Pods, Close(k) \/ Kill(k) PROVE IdleInv'
  BY <1>4 DEF Close, Kill, EndProcess
<1>5. ASSUME NEW k \in Pods, NEW e \in Events, TaskStep(k, e) PROVE IdleInv'
  <2>1. UNCHANGED <<pc, upto>>
    BY <1>5, TaskMoves
  <2>2. \A j \in Pods : recovered'[j] \subseteq recovered[j]
    BY <1>5, TaskRecovers
  <2>3. QED
    BY <2>1, <2>2
<1>6. CASE Rebalance
  BY <1>6 DEF Rebalance
<1>7. ASSUME NEW e \in Events, Expire(e) PROVE IdleInv'
  BY <1>7 DEF Expire
<1>8. CASE UNCHANGED vars
  BY <1>8 DEF vars
<1>9. QED
  BY <1>1, <1>2, <1>3, <1>4, <1>5, <1>6, <1>7, <1>8 DEF Next, Progress

\* At the beginning no pod has a batch.
LEMMA IdleInit == Init => IdleInv
BY DEF Init, IdleInv

\* Most steps of a pod bring nothing nearer to the DLQ.
LEMMA FewStepsDie ==
    ASSUME TypeInv, OrderInv, IdleInv, NEW k \in Pods,
           \/ Assign(k) \/ Start(k) \/ OnStart(k) \/ LeaveLoop(k) \/ Poll(k) \/ Take(k) \/ Spawn(k)
           \/ Duplicate(k) \/ CommitOk(k) \/ SendDlq(k) \/ OnStop(k) \/ OnStopDone(k)
           \/ Drain(k) \/ DrainTimeout(k) \/ Signal(k) \/ RunError(k) \/ OnStopError(k) \/ Close(k) \/ Kill(k)
           \/ \E e \in Events : TaskStep(k, e)
    PROVE  /\ Dying' \subseteq Dying /\ Strays' \subseteq Strays
           /\ UNCHANGED budget \/ \E f \in FaultKinds : Spend(f)
<1>1. dlq \subseteq Dying /\ (pc[k] = "dlq" => at[k] \in Dying)
  BY DEF Dying
<1>2. owner \in Pods \cup {NoPod} /\ NoPod \notin Pods /\ at[k] \in Nat /\ upto[k] \in Nat
  BY PodsAssumption, EventsAreNumbers DEF TypeInv, TypeOK
<1> USE DEF Stray, Goto, process, kafka, batch, redis, tasks, table
<1>3. CASE Assign(k) \/ Start(k) \/ OnStart(k) \/ LeaveLoop(k)
  <2>1. pc \in [Pods -> RunStates] /\ (pc[k] \in {"off", "on_start"} => at[k] = 0 /\ upto[k] = 0)
    BY DEF TypeInv, TypeOK, OrderInv, IdleInv
  <2>2. QED
    BY <1>1, <1>2, <1>3, <2>1, NothingNearer DEF Assign, Start, OnStart, LeaveLoop
<1>4. CASE Poll(k) \/ Take(k) \/ Spawn(k) \/ Duplicate(k)
  <2>1. pc \in [Pods -> RunStates] /\ at \in [Pods -> 0 .. Last] /\ upto \in [Pods -> 0 .. Last]
    BY DEF TypeInv, TypeOK
  <2>2. QED
    BY <1>1, <1>2, <1>4, <2>1, NothingNearer DEF Poll, Take, Spawn, Duplicate
<1>5. CASE CommitOk(k) \/ SendDlq(k) \/ OnStop(k) \/ OnStopDone(k) \/ Drain(k) \/ DrainTimeout(k)
  <2>1. pc \in [Pods -> RunStates]
    BY DEF TypeInv, TypeOK
  <2>2. QED
    BY <1>1, <1>2, <1>5, <2>1, NothingNearer
       DEF CommitOk, SendDlq, OnStop, OnStopDone, Drain, DrainTimeout
<1>6. CASE Signal(k) \/ RunError(k) \/ OnStopError(k)
  <2>1. pc \in [Pods -> RunStates]
    BY DEF TypeInv, TypeOK
  <2>2. QED
    BY <1>1, <1>2, <1>6, <2>1, NothingNearer, KindsOfFaults DEF Signal, RunError, OnStopError
<1>7. CASE Close(k) \/ Kill(k)
  <2>1. pc \in [Pods -> RunStates] /\ at \in [Pods -> 0 .. Last] /\ upto \in [Pods -> 0 .. Last]
    BY DEF TypeInv, TypeOK
  <2>2. QED
    BY <1>1, <1>2, <1>7, <2>1, NothingNearer, KindsOfFaults DEF Close, Kill, EndProcess
<1>8. ASSUME NEW e \in Events, TaskStep(k, e)
      PROVE  /\ Dying' \subseteq Dying /\ Strays' \subseteq Strays
             /\ UNCHANGED budget \/ \E f \in FaultKinds : Spend(f)
  <2>1. UNCHANGED <<pc, owner, at, upto, dlq>> /\ (UNCHANGED budget \/ Spend("error"))
    BY <1>8, TaskMoves DEF TypeInv
  <2>2. QED
    BY <1>1, <2>1, NothingNearer, KindsOfFaults
<1>9. QED
  BY <1>3, <1>4, <1>5, <1>6, <1>7, <1>8

\* A rejected commit of a spawned task pays with the stray that its pod was.
LEMMA RejectionPays ==
    ASSUME TypeInv, TypeInv', DyingInv, NEW k \in Pods, CommitRejected(k)
    PROVE  DyingInv'
<1> USE DEF CommitRejected, CommitRaises, Goto, kafka, batch
<1>1. pc \in [Pods -> RunStates] /\ UNCHANGED <<budget, dlq, at, upto, owner>> /\ owner # k
  BY DEF TypeInv, TypeOK
<1>2. CASE Goto(k, "settle", "on_stop")
  <2>1. Dying' \subseteq Dying /\ Strays' \subseteq Strays
    BY <1>1, <1>2 DEF Dying, Strays, Stray
  <2>2. QED
    BY <1>1, <2>1, NoneDying
<1>3. CASE Goto(k, "spawn", "dlq")
  <2>1. k \in Strays
    BY <1>1, <1>3 DEF Strays, Stray
  <2>2. Strays' \subseteq Strays \ {k}
    BY <1>1, <1>3 DEF Strays, Stray
  <2>3. Dying' \subseteq Dying \cup {at[k]}
    BY <1>1, <1>3 DEF Dying
  <2>4. Cardinality(Dying') <= Cardinality(Dying) + 1
    BY <2>3, OneMore, CountedAreFinite
  <2>5. Cardinality(Strays') <= Cardinality(Strays) - 1 /\ Cardinality(Strays) \in Nat
    BY <2>1, <2>2, OneLess, CountedAreFinite
  <2>6. Spent("error") \in Int /\ Spent("rebalance") \in Int
        /\ Spent("error")' = Spent("error") /\ Spent("rebalance")' = Spent("rebalance")
    BY <1>1, SpentMoves, KindsOfFaults
  <2>7. /\ Cardinality(Strays') <= Cardinality(Strays) + (-1)
        /\ Spent("error")' + Spent("rebalance")' >= Spent("error") + Spent("rebalance") + 1 + (-1)
    BY <2>5, <2>6, CountedAreFinite
  <2>8. QED
    BY <2>4, <2>7, DyingCovered
<1>4. QED
  BY <1>2, <1>3

\* A commit request that fails is spent.
LEMMA FailedCommitPays ==
    ASSUME TypeInv, TypeInv', DyingInv, NEW k \in Pods, CommitError(k)
    PROVE  DyingInv'
<1>1. /\ pc \in [Pods -> RunStates] /\ Goto(k, "spawn", "dlq")
      /\ UNCHANGED <<dlq, at, upto, owner>> /\ Spend("error")
  BY DEF TypeInv, TypeOK, CommitError, batch
<1>2. Dying' \subseteq Dying \cup {at[k]}
  BY <1>1 DEF Dying, Goto
<1>3. Strays' \subseteq Strays
  BY <1>1 DEF Strays, Stray, Goto
<1>4. Cardinality(Dying') <= Cardinality(Dying) + 1
  BY <1>2, OneMore, CountedAreFinite
<1>5. Cardinality(Strays') <= Cardinality(Strays) + 0
  BY <1>3, NoneMore, CountedAreFinite
<1>6. /\ Spent("error") \in Int /\ Spent("rebalance") \in Int
      /\ Spent("error")' = Spent("error") + 1 /\ Spent("rebalance")' = Spent("rebalance")
  BY <1>1, SpentMoves, KindsOfFaults
<1>7. Spent("error")' + Spent("rebalance")' >= Spent("error") + Spent("rebalance") + 1 + 0
  BY <1>6
<1>8. QED
  BY <1>4, <1>5, <1>7, DyingCovered

\* A rebalance makes one stray: the pod that had the partition.
LEMMA RebalancePays ==
    ASSUME TypeInv, TypeInv', DyingInv, Rebalance
    PROVE  DyingInv'
<1>1. UNCHANGED <<pc, dlq, at, upto>> /\ Spend("rebalance")
  BY DEF Rebalance, process, batch
<1>2. Dying' \subseteq Dying
  BY <1>1 DEF Dying
<1>3. Strays' \subseteq Strays \cup {owner}
  BY <1>1 DEF Strays, Stray
<1>4. Cardinality(Dying') <= Cardinality(Dying) + 0
  BY <1>2, NoneMore, CountedAreFinite
<1>5. Cardinality(Strays') <= Cardinality(Strays) + 1
  BY <1>3, OneMore, CountedAreFinite
<1>6. /\ Spent("error") \in Int /\ Spent("rebalance") \in Int
      /\ Spent("error")' = Spent("error") /\ Spent("rebalance")' = Spent("rebalance") + 1
  BY <1>1, SpentMoves, KindsOfFaults
<1>7. Spent("error")' + Spent("rebalance")' >= Spent("error") + Spent("rebalance") + 0 + 1
  BY <1>6
<1>8. QED
  BY <1>4, <1>5, <1>7, DyingCovered

\* Every step keeps what goes to the DLQ, and what may go there, paid for.
LEMMA DyingStep ==
    TypeInv /\ TypeInv' /\ OrderInv /\ IdleInv /\ DyingInv /\ [Next]_vars => DyingInv'
<1> SUFFICES ASSUME TypeInv, TypeInv', OrderInv, IdleInv, DyingInv, [Next]_vars PROVE DyingInv'
  OBVIOUS
<1>1. ASSUME NEW k \in Pods, CommitRejected(k) PROVE DyingInv'
  BY <1>1, RejectionPays
<1>2. ASSUME NEW k \in Pods, CommitError(k) PROVE DyingInv'
  BY <1>2, FailedCommitPays
<1>3. CASE Rebalance
  BY <1>3, RebalancePays
<1>4. ASSUME NEW k \in Pods,
             \/ Assign(k) \/ Start(k) \/ OnStart(k) \/ LeaveLoop(k) \/ Poll(k) \/ Take(k) \/ Spawn(k)
             \/ Duplicate(k) \/ CommitOk(k) \/ SendDlq(k) \/ OnStop(k) \/ OnStopDone(k)
             \/ Drain(k) \/ DrainTimeout(k) \/ Signal(k) \/ RunError(k) \/ OnStopError(k) \/ Close(k) \/ Kill(k)
             \/ \E e \in Events : TaskStep(k, e)
      PROVE  DyingInv'
  BY <1>4, FewStepsDie, NoneDying
<1>5. ASSUME NEW e \in Events, Expire(e) PROVE DyingInv'
  <2>1. Dying' \subseteq Dying /\ Strays' \subseteq Strays /\ Spend("expire")
    BY <1>5 DEF Expire, process, kafka, batch, Dying, Strays, Stray
  <2>2. QED
    BY <2>1, KindsOfFaults, NoneDying
<1>6. CASE UNCHANGED vars
  BY <1>6 DEF vars, process, kafka, batch, DyingInv, Dying, Strays, Stray, Spent
<1>7. QED
  BY <1>1, <1>2, <1>3, <1>4, <1>5, <1>6 DEF Next, Progress

\* At the beginning nothing is in the DLQ, or on its way there.
LEMMA DyingInit == Init => DyingInv
<1> SUFFICES ASSUME Init PROVE DyingInv
  OBVIOUS
<1>1. Dying = {} /\ Strays = {}
  BY DEF Init, Dying, Strays, Stray
<1>2. Cardinality(Dying) = 0 /\ Cardinality(Strays) = 0
  BY <1>1, FS_EmptySet
<1>3. Spent("error") = 0 /\ Spent("rebalance") = 0
  BY BudgetAssumption, KindsOfFaults DEF Init, Spent
<1>4. QED
  BY <1>2, <1>3 DEF DyingInv

\* The background pattern dead-letters no more accepted events than requests
\* fail and partitions are taken away, however long it runs.
THEOREM DeadLettersArePaid == Spec => []DeadLettersBounded
<1>1. TypeInv /\ DyingInv => DeadLettersBounded
  <2> SUFFICES ASSUME TypeInv, DyingInv PROVE DeadLettersBounded
    OBVIOUS
  <2>1. IsFiniteSet(Events)
    BY FS_Interval, LastAssumption DEF Events
  <2>2. Dying \subseteq Events /\ dlq \subseteq Dying /\ Strays \subseteq Pods
    BY DEF Dying, Strays, TypeInv, TypeOK, InDispatch
  <2>3. IsFiniteSet(Dying)
    BY <2>1, <2>2, NoneMore
  <2>4. /\ Cardinality(dlq) \in Nat /\ Cardinality(Dying) \in Nat
        /\ Cardinality(dlq) <= Cardinality(Dying)
    BY <2>2, <2>3, NoneMore
  <2>5. Cardinality(Strays) \in Nat
    BY <2>2, NoneMore, PodsAssumption
  <2>6. Spent("error") \in Int /\ Spent("rebalance") \in Int
    BY BudgetAssumption, KindsOfFaults DEF Spent, TypeInv, TypeOK
  <2>7. QED
    BY <2>4, <2>5, <2>6 DEF DyingInv, DeadLettersBounded
<1>2. QED
  BY TypeInit, TypeStep, OrderInit, OrderStep, IdleInit, IdleStep, DyingInit, DyingStep, <1>1, PTL
     DEF Spec

-----------------------------------------------------------------------------
(***************************************************************************)
(* Repeated work.                                                          *)
(*                                                                         *)
(* The work of an event is begun once by its task, once more by a task for *)
(* every claim of it that expires, and once more by every process that     *)
(* starts while the row is in progress.  A process starts                  *)
(* once for every pod that waits for its start, and once more for every    *)
(* pod whose process is bound to end; what binds a process to end is a     *)
(* fault: a signal, an error of run(), the loss of a partition with a      *)
(* batch in hand, whose next commit is rejected.                           *)
(***************************************************************************)

\* The process of pod k is not yet in its loop: on_start() is still to come.
Waits(k) == pc[k] \in {"off", "on_start"}

\* The process of pod k will end without another fault.
Ends(k) ==
    \/ pc[k] \in {"on_stop", "drain", "close"}
    \/ stop[k]
    \/ owner # k /\ (InDispatch(k) \/ (pc[k] = "loop" /\ at[k] < upto[k]))

Waiting == {k \in Pods : Waits(k)}
Ending == {k \in Pods : Ends(k)}

\* Runs of on_start() still to come that no fault has paid for.
StartsToCome == Cardinality(Waiting) + Cardinality(Ending) - AllSpent

EndingPaid == Cardinality(Ending) <= AllSpent

\* What may carry out the work of an event: the task of a pod, the recovery of a
\* pod, and the task to come when the claim has expired.
Workers == ({"task", "recovery"} \X Pods) \cup {<<"claim", "claim">>}

HasBegun(e, w) ==
    \/ w[1] = "task" /\ task[w[2]][e] \in {"insert", "work"}
    \/ w[1] = "recovery" /\ e \in recovered[w[2]]
    \/ w[1] = "claim" /\ e \in expired \ claims

Begun(e) == {w \in Workers : HasBegun(e, w)}

\* How often the work of e was carried out or may be, without another start.
Shares(e) == worked[e] + Cardinality(Begun(e))

WorkInv ==
    /\ EndingPaid
    /\ \A e \in Events :
         /\ row[e] = "none" => worked[e] = 0
         /\ row[e] # "none" => Shares(e) + StartsToCome <= Cardinality(Pods)

\* What is counted: finite sets of pods, and numbers, before and after a step.
LEMMA FleetNumbers ==
    ASSUME TypeInv, TypeInv'
    PROVE  /\ IsFiniteSet(Waiting) /\ Cardinality(Waiting) \in Nat
           /\ IsFiniteSet(Ending) /\ Cardinality(Ending) \in Nat
           /\ Cardinality(Waiting') \in Nat /\ Cardinality(Ending') \in Nat
           /\ Cardinality(Pods) \in Nat
           /\ AllSpent \in Int /\ AllSpent' \in Int
           /\ UNCHANGED budget => AllSpent' = AllSpent
           /\ \A f \in FaultKinds : Spend(f) => AllSpent' = AllSpent + 1
<1>1. /\ Waiting \subseteq Pods /\ Waiting' \subseteq Pods
      /\ Ending \subseteq Pods /\ Ending' \subseteq Pods
  BY DEF Waiting, Ending
<1>2. \A f \in FaultKinds : Spent(f) \in Int /\ Spent(f)' \in Int
  BY SpentMoves
<1>3. AllSpent \in Int /\ AllSpent' \in Int
  BY <1>2, KindsOfFaults DEF AllSpent
<1>4. UNCHANGED budget => AllSpent' = AllSpent
  BY DEF AllSpent, Spent
<1>5. ASSUME NEW f \in FaultKinds, Spend(f) PROVE AllSpent' = AllSpent + 1
  <2>1. Spent(f)' = Spent(f) + 1 /\ \A g \in FaultKinds \ {f} : Spent(g)' = Spent(g)
    BY <1>5, SpentMoves
  <2>2. QED
    BY <1>2, <2>1 DEF AllSpent, FaultKinds
<1>6. QED
  BY <1>1, <1>3, <1>4, <1>5, NoneMore, PodsAssumption

\* The sum: the two sets grow by no more than what is spent, less c.
LEMMA StartsCovered ==
    ASSUME TypeInv, TypeInv', EndingPaid, NEW w \in Int, NEW d \in Int, NEW c \in Int,
           Cardinality(Waiting') <= Cardinality(Waiting) + w,
           Cardinality(Ending') <= Cardinality(Ending) + d,
           AllSpent' >= AllSpent + d,
           AllSpent' >= AllSpent + w + d + c
    PROVE  EndingPaid' /\ StartsToCome' <= StartsToCome - c
<1>1. /\ Cardinality(Waiting) \in Nat /\ Cardinality(Ending) \in Nat
      /\ Cardinality(Waiting') \in Nat /\ Cardinality(Ending') \in Nat
      /\ AllSpent \in Int /\ AllSpent' \in Int
  BY FleetNumbers
<1>2. Cardinality(Ending') <= AllSpent'
  BY <1>1 DEF EndingPaid
<1>3. Cardinality(Waiting') + Cardinality(Ending') - AllSpent'
        <= Cardinality(Waiting) + Cardinality(Ending) - AllSpent - c
  BY <1>1
<1>4. /\ StartsToCome = Cardinality(Waiting) + Cardinality(Ending) - AllSpent
      /\ StartsToCome' = Cardinality(Waiting') + Cardinality(Ending') - AllSpent'
  BY DEF StartsToCome
<1>5. StartsToCome' <= StartsToCome - c
  BY <1>1, <1>3, <1>4
<1>6. QED
  BY <1>2, <1>5 DEF EndingPaid

\* Every other pod is where it was, and keeps the partition when it has it.
OthersStay(k) ==
    \A j \in Pods \ {k} :
        /\ pc'[j] = pc[j] /\ stop'[j] = stop[j] /\ at'[j] = at[j] /\ upto'[j] = upto[j]
        /\ owner = j => owner' = j

\* A step of pod k moves only k in and out of the two sets.
LEMMA FleetOfOne ==
    ASSUME NEW k \in Pods, OthersStay(k)
    PROVE  /\ Waiting' \subseteq Waiting \cup {k} /\ Ending' \subseteq Ending \cup {k}
           /\ (Waits(k)' => Waits(k)) => Waiting' \subseteq Waiting
           /\ (Ends(k)' => Ends(k)) => Ending' \subseteq Ending
           /\ ~Waits(k)' => Waiting' \subseteq Waiting \ {k}
           /\ ~Ends(k)' => Ending' \subseteq Ending \ {k}
<1>1. ASSUME NEW j \in Pods \ {k} PROVE Waits(j)' => Waits(j)
  BY DEF OthersStay, Waits
<1>2. ASSUME NEW j \in Pods \ {k} PROVE Ends(j)' => Ends(j)
  BY DEF OthersStay, Ends, InDispatch
<1>3. QED
  BY <1>1, <1>2 DEF Waiting, Ending

\* A step that ends no process and starts none.
LEMMA NoneEnds ==
    ASSUME TypeInv, TypeInv', EndingPaid, NEW k \in Pods, OthersStay(k),
           Waits(k)' => Waits(k), Ends(k)' => Ends(k),
           UNCHANGED budget \/ \E f \in FaultKinds : Spend(f)
    PROVE  EndingPaid' /\ StartsToCome' <= StartsToCome - 0
<1>1. /\ Cardinality(Waiting') <= Cardinality(Waiting) + 0
      /\ Cardinality(Ending') <= Cardinality(Ending) + 0
  BY FleetOfOne, FleetNumbers, NoneMore
<1>2. AllSpent' >= AllSpent + 0 /\ AllSpent' >= AllSpent + 0 + 0 + 0
  BY FleetNumbers
<1>3. QED
  BY <1>1, <1>2, StartsCovered

\* A fault may bind one process to end, which still has a start to come then.
LEMMA FaultEnds ==
    ASSUME TypeInv, TypeInv', EndingPaid, NEW k \in Pods, OthersStay(k),
           Waits(k)' => Waits(k), NEW f \in FaultKinds, Spend(f)
    PROVE  EndingPaid' /\ StartsToCome' <= StartsToCome - 0
<1>1. Waiting' \subseteq Waiting /\ Ending' \subseteq Ending \cup {k}
  BY FleetOfOne
<1>2. Cardinality(Waiting') <= Cardinality(Waiting) + 0
  BY <1>1, FleetNumbers, NoneMore
<1>3. Cardinality(Ending') <= Cardinality(Ending) + 1
  BY <1>1, FleetNumbers, OneMore
<1>4. AllSpent' >= AllSpent + 1 /\ AllSpent' >= AllSpent + 0 + 1 + 0
  BY FleetNumbers
<1>5. QED
  BY <1>2, <1>3, <1>4, StartsCovered

\* A process that was killed waits for its next start.
LEMMA KillEnds ==
    ASSUME TypeInv, TypeInv', EndingPaid, NEW k \in Pods, OthersStay(k),
           ~Ends(k)', NEW f \in FaultKinds, Spend(f)
    PROVE  EndingPaid' /\ StartsToCome' <= StartsToCome - 0
<1>1. Waiting' \subseteq Waiting \cup {k} /\ Ending' \subseteq Ending
  BY FleetOfOne
<1>2. Cardinality(Waiting') <= Cardinality(Waiting) + 1
  BY <1>1, FleetNumbers, OneMore
<1>3. Cardinality(Ending') <= Cardinality(Ending) + 0
  BY <1>1, FleetNumbers, NoneMore
<1>4. AllSpent' >= AllSpent + 0 /\ AllSpent' >= AllSpent + 1 + 0 + 0
  BY FleetNumbers
<1>5. QED
  BY <1>2, <1>3, <1>4, StartsCovered

\* A process that ends as it was bound to waits for its next start instead.
LEMMA CloseEnds ==
    ASSUME TypeInv, TypeInv', EndingPaid, NEW k \in Pods, OthersStay(k),
           Ends(k), ~Ends(k)', UNCHANGED budget
    PROVE  EndingPaid' /\ StartsToCome' <= StartsToCome - 0
<1>1. k \in Ending /\ Ending' \subseteq Ending \ {k} /\ Waiting' \subseteq Waiting \cup {k}
  BY FleetOfOne DEF Ending
<1>2. Cardinality(Waiting') <= Cardinality(Waiting) + 1
  BY <1>1, FleetNumbers, OneMore
<1>3. Cardinality(Ending') <= Cardinality(Ending) - 1 /\ Cardinality(Ending) \in Nat
  BY <1>1, FleetNumbers, OneLess
<1>4. Cardinality(Ending') <= Cardinality(Ending) + (-1)
  BY <1>3, FleetNumbers
<1>5. AllSpent' >= AllSpent + (-1) /\ AllSpent' >= AllSpent + 1 + (-1) + 0
  BY FleetNumbers
<1>6. QED
  BY <1>2, <1>4, <1>5, StartsCovered

\* on_start() uses up the start of its pod.
LEMMA StartUsed ==
    ASSUME TypeInv, TypeInv', OrderInv, IdleInv, EndingPaid, NEW k \in Pods, OnStart(k)
    PROVE  EndingPaid' /\ StartsToCome' <= StartsToCome - 1
<1>1. /\ pc \in [Pods -> RunStates] /\ pc[k] = "on_start" /\ at[k] = 0 /\ upto[k] = 0
      /\ UNCHANGED <<stop, owner, at, upto, budget>> /\ pc' = [pc EXCEPT ![k] = "loop"]
  BY DEF TypeInv, TypeOK, OrderInv, IdleInv, OnStart, Goto, kafka, batch
<1>2. OthersStay(k) /\ Waits(k) /\ ~Waits(k)'
  BY <1>1 DEF OthersStay, Waits
<1>3. Ends(k)' => Ends(k)
  BY <1>1 DEF Ends, InDispatch
<1>4. k \in Waiting /\ Waiting' \subseteq Waiting \ {k} /\ Ending' \subseteq Ending
  BY <1>2, <1>3, FleetOfOne DEF Waiting
<1>5. Cardinality(Waiting') <= Cardinality(Waiting) - 1 /\ Cardinality(Waiting) \in Nat
  BY <1>4, FleetNumbers, OneLess
<1>6. Cardinality(Waiting') <= Cardinality(Waiting) + (-1)
  BY <1>5, FleetNumbers
<1>7. Cardinality(Ending') <= Cardinality(Ending) + 0
  BY <1>4, FleetNumbers, NoneMore
<1>8. AllSpent' >= AllSpent + 0 /\ AllSpent' >= AllSpent + (-1) + 0 + 1
  BY <1>1, FleetNumbers
<1>9. QED
  BY <1>6, <1>7, <1>8, StartsCovered

\* Steps of run() and its loop, and faults of a pod.
RunStep(k) ==
    \/ Assign(k) \/ Start(k) \/ LeaveLoop(k) \/ Poll(k) \/ Take(k)
    \/ Spawn(k) \/ Duplicate(k) \/ CommitOk(k) \/ CommitRejected(k)
    \/ SendDlq(k) \/ OnStop(k) \/ OnStopDone(k) \/ Drain(k) \/ DrainTimeout(k) \/ Close(k)
    \/ Signal(k) \/ Kill(k) \/ RunError(k) \/ CommitError(k) \/ OnStopError(k)

\* None of the other steps adds a start that no fault has paid for.
LEMMA StartsOfRun ==
    ASSUME TypeInv, TypeInv', EndingPaid, NEW k \in Pods, RunStep(k)
    PROVE  EndingPaid' /\ StartsToCome' <= StartsToCome - 0
<1>1. /\ pc \in [Pods -> RunStates] /\ stop \in [Pods -> BOOLEAN]
      /\ at \in [Pods -> 0 .. Last] /\ upto \in [Pods -> 0 .. Last]
      /\ owner \in Pods \cup {NoPod} /\ NoPod \notin Pods /\ at[k] \in Nat /\ upto[k] \in Nat
  BY PodsAssumption, EventsAreNumbers DEF TypeInv, TypeOK
<1> USE DEF OthersStay, Waits, Ends, InDispatch, Goto, process, kafka, batch, redis, tasks, table
<1>2. CASE Assign(k) \/ Start(k) \/ LeaveLoop(k)
  BY <1>1, <1>2, NoneEnds DEF Assign, Start, LeaveLoop
<1>3. CASE Poll(k) \/ Take(k) \/ Spawn(k) \/ Duplicate(k)
  BY <1>1, <1>3, NoneEnds DEF Poll, Take, Spawn, Duplicate
<1>4. CASE CommitOk(k) \/ CommitRejected(k) \/ SendDlq(k)
  BY <1>1, <1>4, NoneEnds DEF CommitOk, CommitRejected, CommitRaises, SendDlq
<1>5. CASE OnStop(k) \/ OnStopDone(k) \/ Drain(k) \/ DrainTimeout(k)
  BY <1>1, <1>5, NoneEnds DEF OnStop, OnStopDone, Drain, DrainTimeout
<1>6. CASE CommitError(k) \/ OnStopError(k)
  BY <1>1, <1>6, NoneEnds, KindsOfFaults DEF CommitError, OnStopError
<1>7. CASE Signal(k)
  BY <1>1, <1>7, FaultEnds, KindsOfFaults DEF Signal
<1>8. CASE RunError(k)
  BY <1>1, <1>8, FaultEnds, KindsOfFaults DEF RunError
<1>9. CASE Kill(k)
  BY <1>1, <1>9, KillEnds, KindsOfFaults DEF Kill, EndProcess
<1>10. CASE Close(k)
  BY <1>1, <1>10, CloseEnds DEF Close, EndProcess
<1>11. QED
  BY <1>2, <1>3, <1>4, <1>5, <1>6, <1>7, <1>8, <1>9, <1>10 DEF RunStep

\* A rebalance binds the process of the former owner to end, or none.
LEMMA StartsOfRebalance ==
    ASSUME TypeInv, TypeInv', EndingPaid, Rebalance
    PROVE  EndingPaid' /\ StartsToCome' <= StartsToCome - 0
<1>1. owner \in Pods /\ UNCHANGED <<pc, stop, at, upto>> /\ Spend("rebalance")
  BY DEF Rebalance, TypeInv, TypeOK, process, batch
<1>2. Waiting' \subseteq Waiting /\ Ending' \subseteq Ending \cup {owner}
  BY <1>1 DEF Waiting, Ending, Waits, Ends, InDispatch
<1>3. Cardinality(Waiting') <= Cardinality(Waiting) + 0
  BY <1>2, FleetNumbers, NoneMore
<1>4. Cardinality(Ending') <= Cardinality(Ending) + 1
  BY <1>2, FleetNumbers, OneMore
<1>5. AllSpent' >= AllSpent + 1 /\ AllSpent' >= AllSpent + 0 + 1 + 0
  BY <1>1, FleetNumbers, KindsOfFaults
<1>6. QED
  BY <1>3, <1>4, <1>5, StartsCovered

\* The steps of a task move no pod.
LEMMA StartsOfTask ==
    ASSUME TypeInv, TypeInv', EndingPaid, NEW k \in Pods, NEW e \in Events, TaskStep(k, e)
    PROVE  EndingPaid' /\ StartsToCome' <= StartsToCome - 0
<1>1. UNCHANGED <<pc, stop, owner, at, upto>>
  BY TaskMoves DEF TypeInv
<1>2. UNCHANGED budget \/ Spend("error")
  BY TaskMoves DEF TypeInv
<1>3. OthersStay(k) /\ (Waits(k)' => Waits(k)) /\ (Ends(k)' => Ends(k))
  BY <1>1 DEF OthersStay, Waits, Ends, InDispatch
<1>4. QED
  BY <1>2, <1>3, NoneEnds, KindsOfFaults

\* A claim that expires pays for one more task.
LEMMA StartsOfExpiry ==
    ASSUME TypeInv, TypeInv', EndingPaid, NEW e \in Events, Expire(e)
    PROVE  EndingPaid' /\ StartsToCome' <= StartsToCome - 1
<1>1. UNCHANGED <<pc, stop, owner, at, upto>> /\ Spend("expire")
  BY DEF Expire, process, kafka, batch
<1>2. Waiting' = Waiting /\ Ending' = Ending
  BY <1>1 DEF Waiting, Ending, Waits, Ends, InDispatch
<1>3. Cardinality(Waiting') = Cardinality(Waiting) /\ Cardinality(Ending') = Cardinality(Ending)
  BY <1>2
<1>4. AllSpent' >= AllSpent + 1 /\ AllSpent \in Int /\ AllSpent' \in Int
  BY <1>1, FleetNumbers, KindsOfFaults
<1>5. Cardinality(Waiting) \in Nat /\ Cardinality(Ending) \in Nat
  BY FleetNumbers
<1>6. Cardinality(Ending) <= AllSpent
  BY DEF EndingPaid
<1>7. Cardinality(Ending') <= AllSpent'
  BY <1>3, <1>4, <1>5, <1>6
<1>8. /\ StartsToCome = Cardinality(Waiting) + Cardinality(Ending) - AllSpent
      /\ StartsToCome' = Cardinality(Waiting') + Cardinality(Ending') - AllSpent'
  BY DEF StartsToCome
<1>9. StartsToCome' <= StartsToCome - 1
  BY <1>3, <1>4, <1>5, <1>8
<1>10. QED
  BY <1>7, <1>9 DEF EndingPaid

\* There are finitely many that may work on an event.
LEMMA WorkersFinite == IsFiniteSet(Workers)
<1>1. IsFiniteSet({} \cup {"task"})
  BY FS_EmptySet, FS_AddElement
<1>2. IsFiniteSet({"task", "recovery"})
  <2>1. IsFiniteSet(({} \cup {"task"}) \cup {"recovery"})
    BY <1>1, FS_AddElement
  <2>2. ({} \cup {"task"}) \cup {"recovery"} = {"task", "recovery"}
    OBVIOUS
  <2>3. QED
    BY <2>1, <2>2
<1>3. IsFiniteSet({"task", "recovery"} \X Pods)
  BY <1>2, FS_Product, PodsAssumption
<1>4. QED
  BY <1>3, FS_AddElement DEF Workers

\* Those that have begun the work of e: a finite set, before and after a step.
LEMMA BegunNumbers ==
    ASSUME TypeInv, TypeInv', NEW e \in Events
    PROVE  /\ IsFiniteSet(Begun(e)) /\ Cardinality(Begun(e)) \in Nat
           /\ Cardinality(Begun(e)') \in Nat
           /\ worked[e] \in Nat /\ worked'[e] \in Nat
<1>1. Begun(e) \subseteq Workers /\ Begun(e)' \subseteq Workers
  BY DEF Begun
<1>2. QED
  BY <1>1, NoneMore, WorkersFinite DEF TypeInv, TypeOK

\* A new task takes the place of the claim that expired.
LEMMA ShareHandedOn ==
    ASSUME TypeInv, TypeInv', NEW e \in Events, NEW c \in Begun(e), NEW w,
           Begun(e)' \subseteq (Begun(e) \ {c}) \cup {w}, worked'[e] = worked[e]
    PROVE  Shares(e)' <= Shares(e) + 0
<1>1. /\ Begun(e) \ {c} \subseteq Begun(e) \ {c}
      /\ IsFiniteSet(Begun(e)) /\ Cardinality(Begun(e)) \in Nat
  BY BegunNumbers
<1>2. /\ IsFiniteSet(Begun(e) \ {c}) /\ Cardinality(Begun(e) \ {c}) \in Nat
      /\ Cardinality(Begun(e) \ {c}) <= Cardinality(Begun(e)) - 1
  BY <1>1, OneLess
<1>3. Cardinality(Begun(e)') <= Cardinality(Begun(e) \ {c}) + 1
  BY <1>2, OneMore
<1>4. QED
  BY <1>2, <1>3, BegunNumbers DEF Shares

\* Carrying the work out uses up what one pod has begun.
LEMMA ShareUsed ==
    ASSUME TypeInv, TypeInv', NEW e \in Events, NEW k \in Begun(e),
           Begun(e)' \subseteq Begun(e) \ {k}, worked'[e] = worked[e] + 1
    PROVE  Shares(e)' <= Shares(e) + 0
<1>1. Cardinality(Begun(e)') <= Cardinality(Begun(e)) - 1
  BY BegunNumbers, OneLess
<1>2. QED
  BY <1>1, BegunNumbers DEF Shares

\* A step that begins nothing adds nothing.
LEMMA ShareKept ==
    ASSUME TypeInv, TypeInv', NEW e \in Events,
           Begun(e)' \subseteq Begun(e), worked'[e] = worked[e]
    PROVE  Shares(e)' <= Shares(e) + 0
<1>1. Cardinality(Begun(e)') <= Cardinality(Begun(e))
  BY BegunNumbers, NoneMore
<1>2. QED
  BY <1>1, BegunNumbers DEF Shares

\* The recovery of one pod adds one at most.
LEMMA ShareAdded ==
    ASSUME TypeInv, TypeInv', NEW e \in Events, NEW k,
           Begun(e)' \subseteq Begun(e) \cup {k}, worked'[e] = worked[e]
    PROVE  Shares(e)' <= Shares(e) + 1
<1>1. Cardinality(Begun(e)') <= Cardinality(Begun(e)) + 1
  BY BegunNumbers, OneMore
<1>2. QED
  BY <1>1, BegunNumbers DEF Shares

\* What is added to an event is taken from the starts to come.
LEMMA ShareCovered ==
    ASSUME TypeInv, TypeInv', NEW e \in Events, NEW c \in Int,
           Shares(e) + StartsToCome <= Cardinality(Pods),
           Shares(e)' <= Shares(e) + c, StartsToCome' <= StartsToCome - c
    PROVE  Shares(e)' + StartsToCome' <= Cardinality(Pods)
<1>1. /\ Shares(e) \in Int /\ Shares(e)' \in Int
      /\ StartsToCome \in Int /\ StartsToCome' \in Int /\ Cardinality(Pods) \in Int
  BY BegunNumbers, FleetNumbers DEF Shares, StartsToCome
<1>2. QED
  BY <1>1

\* A row that is new has one task at work, and every other pod may have to start.
LEMMA FirstShare ==
    ASSUME TypeInv, TypeInv', NEW e \in Events, NEW k \in Pods, NEW w,
           EndingPaid', Begun(e)' \subseteq {w}, worked'[e] = 0, ~Waits(k)'
    PROVE  Shares(e)' + StartsToCome' <= Cardinality(Pods)
<1>1. IsFiniteSet({}) /\ Cardinality({}) = 0 /\ Begun(e)' \subseteq {} \cup {w}
  BY FS_EmptySet
<1>2. Cardinality(Begun(e)') <= Cardinality({}) + 1
  BY <1>1, OneMore
<1>3. Waiting' \subseteq Pods \ {k}
  BY DEF Waiting
<1>4. Cardinality(Waiting') <= Cardinality(Pods) - 1
  BY <1>3, OneLess, PodsAssumption
<1>5. /\ Cardinality(Begun(e)') \in Nat /\ Cardinality(Waiting') \in Nat
      /\ Cardinality(Ending') \in Nat /\ Cardinality(Pods) \in Nat /\ AllSpent' \in Int
      /\ Cardinality(Ending') <= AllSpent'
  BY BegunNumbers, FleetNumbers DEF EndingPaid
<1>6. 0 + Cardinality(Begun(e)') + (Cardinality(Waiting') + Cardinality(Ending') - AllSpent')
        <= Cardinality(Pods)
  BY <1>1, <1>2, <1>4, <1>5
<1>7. QED
  BY <1>6 DEF Shares, StartsToCome

\* What a step does to one event: nothing is added to it, or its row is new.
EventKept(e) ==
    \/ row'[e] = "none" /\ row[e] = "none" /\ worked'[e] = worked[e]
    \/ row[e] # "none" /\ row'[e] # "none" /\ Shares(e)' <= Shares(e) + 0
    \/ /\ row[e] = "none" /\ worked'[e] = worked[e]
       /\ \E k \in Pods : Begun(e)' \subseteq {<<"task", k>>} /\ ~Waits(k)'

\* A step that adds no worker keeps an event whose row and work it leaves alone.
LEMMA NothingBegun ==
    ASSUME TypeInv, TypeInv', NEW e \in Events, row'[e] = row[e], worked'[e] = worked[e],
           \A w \in Workers : HasBegun(e, w)' => HasBegun(e, w)
    PROVE  EventKept(e)
<1>1. Begun(e)' \subseteq Begun(e)
  BY DEF Begun
<1>2. Shares(e)' <= Shares(e) + 0
  BY <1>1, ShareKept
<1>3. QED
  BY <1>2 DEF EventKept

\* The bound holds after a step that keeps every event and adds no start.
LEMMA WorkCovered ==
    ASSUME TypeInv, TypeInv', WorkInv, EndingPaid', StartsToCome' <= StartsToCome - 0,
           \A e \in Events : EventKept(e)
    PROVE  WorkInv'
<1>1. ASSUME NEW e \in Events, row'[e] = "none" PROVE worked'[e] = 0
  BY <1>1 DEF WorkInv, EventKept
<1>2. ASSUME NEW e \in Events, row'[e] # "none"
      PROVE  Shares(e)' + StartsToCome' <= Cardinality(Pods)
  <2>1. CASE row[e] # "none"
    <3>1. Shares(e)' <= Shares(e) + 0 /\ Shares(e) + StartsToCome <= Cardinality(Pods)
      BY <1>2, <2>1 DEF EventKept, WorkInv
    <3>2. QED
      BY <3>1, ShareCovered
  <2>2. CASE row[e] = "none"
    <3>1. PICK k \in Pods : Begun(e)' \subseteq {<<"task", k>>} /\ ~Waits(k)'
      BY <1>2, <2>2 DEF EventKept
    <3>2. worked'[e] = 0
      BY <1>2, <2>2 DEF EventKept, WorkInv
    <3>3. QED
      BY <3>1, <3>2, FirstShare
  <2>3. QED
    BY <2>1, <2>2
<1>3. QED
  BY <1>1, <1>2 DEF WorkInv

\* A new task begins the work of a row only in place of a claim that expired.
LEMMA SpawnKeepsEvents ==
    ASSUME TypeInv, TypeInv', TaskInv, NEW k \in Pods, Spawn(k), NEW e \in Events
    PROVE  EventKept(e)
<1>1. /\ UNCHANGED <<row, worked, recovered, expired>> /\ at[k] \notin claims
      /\ task' = [task EXCEPT ![k][at[k]] = "insert"] /\ claims' = claims \cup {at[k]}
      /\ task \in [Pods -> [Events -> TaskStates]] /\ at[k] \in Events
  BY DEF Spawn, Goto, table, TypeInv, TypeOK, InDispatch
<1>2. \A j \in Pods : <<j, e>> # <<k, at[k]>> => task'[j][e] = task[j][e]
  BY <1>1
<1>3. ASSUME NEW w \in Workers, HasBegun(e, w)', e # at[k] \/ w # <<"task", k>>
      PROVE  HasBegun(e, w)
  <2>1. CASE w[1] = "task" /\ w[2] \in Pods /\ w = <<"task", w[2]>>
    BY <1>1, <1>2, <1>3, <2>1 DEF HasBegun
  <2>2. CASE w[1] = "recovery" /\ w[2] \in Pods
    BY <1>1, <1>3, <2>2 DEF HasBegun
  <2>3. CASE w = <<"claim", "claim">>
    BY <1>1, <1>3, <2>3 DEF HasBegun
  <2>4. QED
    BY <2>1, <2>2, <2>3 DEF Workers
<1>4. CASE e # at[k]
  BY <1>1, <1>3, <1>4, NothingBegun
<1>5. CASE e = at[k] /\ row[e] = "none"
  BY <1>1, <1>5 DEF EventKept
<1>6. CASE e = at[k] /\ row[e] # "none"
  <2>1. e \in expired \ claims /\ e \in claims'
    BY <1>1, <1>6 DEF TaskInv, Accepted
  <2>2. <<"claim", "claim">> \in Begun(e)
    BY <2>1 DEF Begun, HasBegun, Workers
  <2>3. ~HasBegun(e, <<"claim", "claim">>)'
    BY <2>1 DEF HasBegun
  <2>4. Begun(e)' \subseteq (Begun(e) \ {<<"claim", "claim">>}) \cup {<<"task", k>>}
    BY <1>3, <2>3 DEF Begun
  <2>5. Shares(e)' <= Shares(e) + 0
    BY <1>1, <2>2, <2>4, ShareHandedOn
  <2>6. QED
    BY <1>1, <1>6, <2>5 DEF EventKept
<1>7. QED
  BY <1>4, <1>5, <1>6

\* The other steps of run() begin no work and carry none out.
LEMMA RunKeepsEvents ==
    ASSUME TypeInv, TypeInv', NEW k \in Pods, RunStep(k), ~Spawn(k), NEW e \in Events
    PROVE  EventKept(e)
<1>1. UNCHANGED <<row, worked, expired>> /\ claims \subseteq claims'
  BY DEF RunStep, Assign, Start, LeaveLoop, Poll, Take, Duplicate, CommitOk, CommitRejected,
         SendDlq, OnStop, OnStopDone, Drain, DrainTimeout, Close, Signal, Kill, RunError,
         CommitError, OnStopError, EndProcess, redis, table
<1>2. ASSUME NEW j \in Pods
      PROVE  /\ e \in recovered'[j] => e \in recovered[j]
             /\ task'[j][e] \in {"insert", "work"} => task[j][e] \in {"insert", "work"}
  <2> USE DEF TypeInv, TypeOK, tasks
  <2>1. CASE DrainTimeout(k)
    BY <2>1 DEF DrainTimeout, NoTasks
  <2>2. CASE Close(k) \/ Kill(k)
    <3>1. /\ task' = [task EXCEPT ![k] = NoTasks] /\ recovered' = [recovered EXCEPT ![k] = {}]
          /\ NoTasks[e] = "none"
      BY <2>2 DEF Close, Kill, EndProcess, NoTasks
    <3>2. QED
      BY <3>1
  <2>3. CASE ~(DrainTimeout(k) \/ Close(k) \/ Kill(k))
    <3>1. UNCHANGED <<task, recovered>>
      BY <2>3 DEF RunStep, Assign, Start, LeaveLoop, Poll, Take, Duplicate, CommitOk,
                  CommitRejected, SendDlq, OnStop, OnStopDone, Drain, Signal, RunError,
                  CommitError, OnStopError
    <3>2. QED
      BY <3>1
  <2>4. QED
    BY <2>1, <2>2, <2>3
<1>3. ASSUME NEW w \in Workers, HasBegun(e, w)' PROVE HasBegun(e, w)
  <2>1. w[2] \in Pods \/ w[1] = "claim"
    BY DEF Workers
  <2>2. QED
    BY <1>1, <1>2, <1>3, <2>1 DEF HasBegun
<1>4. QED
  BY <1>1, <1>3, NothingBegun

\* A step of one task leaves the other events alone.
LEMMA TaskKeepsOthers ==
    ASSUME TypeInv, TypeInv', NEW k \in Pods, NEW f \in Events, TaskStep(k, f),
           NEW e \in Events \ {f}
    PROVE  EventKept(e)
<1>1. /\ task \in [Pods -> [Events -> TaskStates]] /\ worked \in [Events -> Nat]
      /\ row \in [Events -> {"none", "processing", "done", "failed"}]
  BY DEF TypeInv, TypeOK
<1>2. row'[e] = row[e] /\ worked'[e] = worked[e] /\ \A j \in Pods : task'[j][e] = task[j][e]
  <2>1. CASE StatementError(k, f) \/ Refused(k, f)
    <3>1. PICK to : task' = [task EXCEPT ![k][f] = to]
      BY <2>1, FailedStatement DEF TypeInv
    <3>2. (row' = row \/ SetRow(f, Status(k, f))) /\ UNCHANGED worked
      BY <2>1, FailedStatement DEF TypeInv
    <3>3. \A j \in Pods : task'[j][e] = task[j][e]
      BY <1>1, <3>1
    <3>4. QED
      BY <1>1, <3>2, <3>3 DEF SetRow
  <2>2. CASE Work(k, f)
    <3>1. PICK to : task' = [task EXCEPT ![k][f] = to]
      BY <2>2, WorkedOff DEF TypeInv
    <3>2. (Worked(f) \/ UNCHANGED worked) /\ UNCHANGED row
      BY <2>2, WorkedOff DEF TypeInv
    <3>3. \A j \in Pods : task'[j][e] = task[j][e]
      BY <1>1, <3>1
    <3>4. QED
      BY <1>1, <3>2, <3>3 DEF Worked
  <2>3. CASE Acquire(k, f) \/ Insert(k, f) \/ Record(k, f)
    BY <1>1, <2>3 DEF Acquire, Insert, Record, Release, SetRow, table
  <2>4. CASE Recover(k, f) \/ RecoverError(k, f)
    BY <1>1, <2>4 DEF Recover, RecoverError, Worked, table
  <2>5. QED
    BY <2>1, <2>2, <2>3, <2>4 DEF TaskStep
<1>3. UNCHANGED <<claims, expired>>
  BY TaskMoves DEF TypeInv
<1>4. \A j \in Pods : recovered'[j] \subseteq recovered[j]
  BY TaskRecovers DEF TypeInv
<1>5. ASSUME NEW w \in Workers, HasBegun(e, w)' PROVE HasBegun(e, w)
  <2>1. w[2] \in Pods \/ w[1] = "claim"
    BY DEF Workers
  <2>2. QED
    BY <1>2, <1>3, <1>4, <1>5, <2>1 DEF HasBegun
<1>6. QED
  BY <1>2, <1>5, NothingBegun

\* A task that goes on, or ends, begins no other work of its event.
LEMMA TaskBeginsNothing ==
    ASSUME TypeInv, NEW k \in Pods, NEW e \in Events, NEW to,
           task' = [task EXCEPT ![k][e] = to], UNCHANGED <<claims, expired, recovered>>,
           to \in {"insert", "work"} => task[k][e] \in {"insert", "work"}
    PROVE  /\ Begun(e)' \subseteq Begun(e)
           /\ to \notin {"insert", "work"} => Begun(e)' \subseteq Begun(e) \ {<<"task", k>>}
<1>1. task \in [Pods -> [Events -> TaskStates]]
  BY DEF TypeInv, TypeOK
<1>2. task'[k][e] = to /\ \A j \in Pods \ {k} : task'[j][e] = task[j][e]
  BY <1>1
<1>3. ASSUME NEW w \in Workers, HasBegun(e, w)'
      PROVE  HasBegun(e, w) /\ (to \notin {"insert", "work"} => w # <<"task", k>>)
  <2>1. w[2] \in Pods \/ w[1] = "claim"
    BY DEF Workers
  <2>2. QED
    BY <1>2, <1>3, <2>1 DEF HasBegun
<1>4. QED
  BY <1>3 DEF Begun

\* The row of an event is new when its first statement took effect: only its task
\* has begun its work.
LEMMA RowIsNew ==
    ASSUME TypeInv, TypeInv', TaskInv, NEW k \in Pods, NEW e \in Events, NEW to,
           task[k][e] = "insert", row[e] = "none", UNCHANGED <<pc, claims, expired, recovered, worked>>,
           task' = [task EXCEPT ![k][e] = to]
    PROVE  EventKept(e)
<1>1. /\ ~Waits(k)' /\ e \in claims'
      /\ \A j \in Pods : e \notin recovered'[j]
      /\ \A j \in Pods \ {k} : task[j][e] = "none"
  BY DEF TaskInv, NoConcurrentWork, NoTasks, Waits
<1>2. \A j \in Pods \ {k} : task'[j][e] = "none"
  BY <1>1 DEF TypeInv, TypeOK
<1>3. ASSUME NEW w \in Workers, HasBegun(e, w)' PROVE w = <<"task", k>>
  <2>1. (w[2] \in Pods /\ w = <<w[1], w[2]>>) \/ w[1] = "claim"
    BY DEF Workers
  <2>2. QED
    BY <1>1, <1>2, <1>3, <2>1 DEF HasBegun
<1>4. Begun(e)' \subseteq {<<"task", k>>}
  BY <1>3 DEF Begun
<1>5. QED
  BY <1>1, <1>4 DEF EventKept

\* A step of the task of an event, or of its recovery, keeps the event: work is
\* carried out by who has begun it, and a new row has one task at work.
LEMMA TaskKeepsEvent ==
    ASSUME TypeInv, TypeInv', TaskInv, NEW k \in Pods, NEW e \in Events, TaskStep(k, e)
    PROVE  EventKept(e)
<1>1. /\ row \in [Events -> {"none", "processing", "done", "failed"}] /\ worked \in [Events -> Nat]
      /\ task \in [Pods -> [Events -> TaskStates]] /\ recovered \in [Pods -> SUBSET Events]
  BY DEF TypeInv, TypeOK
<1>2. UNCHANGED <<pc, claims, expired>>
  BY TaskMoves DEF TypeInv
<1>3. CASE Insert(k, e)
  <2>1. /\ task[k][e] = "insert" /\ task' = [task EXCEPT ![k][e] = "work"]
        /\ UNCHANGED <<recovered, worked>> /\ row'[e] = "processing"
    BY <1>1, <1>3 DEF Insert, Release, SetRow
  <2>2. CASE row[e] = "none"
    BY <1>2, <2>1, <2>2, RowIsNew
  <2>3. CASE row[e] # "none"
    <3>1. Begun(e)' \subseteq Begun(e)
      BY <1>2, <2>1, TaskBeginsNothing
    <3>2. Shares(e)' <= Shares(e) + 0
      BY <2>1, <3>1, ShareKept
    <3>3. QED
      BY <2>1, <2>3, <3>2 DEF EventKept
  <2>4. QED
    BY <2>2, <2>3
<1>4. CASE StatementError(k, e) \/ Refused(k, e)
  <2>1. PICK to \in {"none", "failed", task[k][e]} : task' = [task EXCEPT ![k][e] = to]
    BY <1>4, FailedStatement DEF TypeInv
  <2>2. /\ task[k][e] \in {"insert", "done", "failed"} /\ UNCHANGED <<recovered, worked>>
        /\ row' = row \/ row' = [row EXCEPT ![e] = Status(k, e)]
    BY <1>4, FailedStatement DEF TypeInv, TaskFrame, SetRow
  <2>3. Status(k, e) # "none"
    BY <2>2 DEF Status
  <2>4. CASE row[e] = "none"
    <3>1. task[k][e] = "insert"
      BY <2>2, <2>4 DEF TaskInv
    <3>2. QED
      BY <1>2, <2>1, <2>2, <2>4, <3>1, RowIsNew
  <2>5. CASE row[e] # "none"
    <3>1. row'[e] # "none"
      BY <1>1, <2>2, <2>3, <2>5
    <3>2. Begun(e)' \subseteq Begun(e)
      BY <1>2, <2>1, <2>2, TaskBeginsNothing
    <3>3. Shares(e)' <= Shares(e) + 0
      BY <2>2, <3>2, ShareKept
    <3>4. QED
      BY <2>5, <3>1, <3>3 DEF EventKept
  <2>6. QED
    BY <2>4, <2>5
<1>5. CASE Work(k, e)
  <2>1. /\ task[k][e] = "work" /\ row[e] # "none" /\ row' = row /\ recovered' = recovered
    BY <1>5, WorkedOff DEF TypeInv, TaskFrame, TaskInv
  <2>2. PICK to \in {"none", "done", "failed"} : task' = [task EXCEPT ![k][e] = to]
    BY <1>5, WorkedOff DEF TypeInv
  <2>3. <<"task", k>> \in Begun(e)
    BY <2>1 DEF Begun, HasBegun, Workers
  <2>4. Begun(e)' \subseteq Begun(e) \ {<<"task", k>>}
    BY <1>2, <2>1, <2>2, TaskBeginsNothing
  <2>5. worked'[e] = worked[e] + 1 \/ worked'[e] = worked[e]
    BY <1>1, <1>5 DEF Work, Worked
  <2>6. Shares(e)' <= Shares(e) + 0
    BY <2>3, <2>4, <2>5, ShareUsed, ShareKept
  <2>7. QED
    BY <2>1, <2>6 DEF EventKept
<1>6. CASE Record(k, e)
  <2>1. /\ task[k][e] \in {"done", "failed"} /\ row[e] # "none" /\ row'[e] # "none"
        /\ UNCHANGED <<recovered, worked>> /\ task' = [task EXCEPT ![k][e] = "none"]
    BY <1>1, <1>6 DEF TaskInv, Record, Release, SetRow
  <2>2. Begun(e)' \subseteq Begun(e)
    BY <1>2, <2>1, TaskBeginsNothing
  <2>3. Shares(e)' <= Shares(e) + 0
    BY <2>1, <2>2, ShareKept
  <2>4. QED
    BY <2>1, <2>3 DEF EventKept
<1>7. CASE Acquire(k, e)
  <2>1. UNCHANGED <<task, recovered, row, worked>>
    BY <1>7 DEF Acquire, table
  <2>2. \A w \in Workers : HasBegun(e, w)' => HasBegun(e, w)
    BY <1>2, <2>1 DEF HasBegun
  <2>3. QED
    BY <2>1, <2>2, NothingBegun
<1>8. CASE Recover(k, e) \/ RecoverError(k, e)
  <2>1. /\ e \in recovered[k] /\ row[e] # "none" /\ row' = row /\ task' = task
        /\ recovered' = [recovered EXCEPT ![k] = recovered[k] \ {e}]
    BY <1>8 DEF TaskInv, Recover, RecoverError, table
  <2>2. <<"recovery", k>> \in Begun(e)
    BY <2>1 DEF Begun, HasBegun, Workers
  <2>3. e \notin recovered'[k] /\ \A j \in Pods : recovered'[j] \subseteq recovered[j]
    BY <1>1, <2>1
  <2>4. ASSUME NEW w \in Workers, HasBegun(e, w)' PROVE HasBegun(e, w) /\ w # <<"recovery", k>>
    <3>1. w[2] \in Pods \/ w[1] = "claim"
      BY DEF Workers
    <3>2. QED
      BY <1>2, <2>1, <2>3, <2>4, <3>1 DEF HasBegun
  <2>5. Begun(e)' \subseteq Begun(e) \ {<<"recovery", k>>}
    BY <2>4 DEF Begun
  <2>6. worked'[e] = worked[e] + 1 \/ worked'[e] = worked[e]
    BY <1>1, <1>8 DEF Recover, RecoverError, Worked, table
  <2>7. Shares(e)' <= Shares(e) + 0
    BY <2>2, <2>5, <2>6, ShareUsed, ShareKept
  <2>8. QED
    BY <2>1, <2>7 DEF EventKept
<1>9. QED
  BY <1>3, <1>4, <1>5, <1>6, <1>7, <1>8 DEF TaskStep

\* on_start() begins the work of what is in progress, in exchange for the start.
LEMMA RecoveryIsCovered ==
    ASSUME TypeInv, TypeInv', OrderInv, IdleInv, WorkInv, NEW k \in Pods, OnStart(k)
    PROVE  WorkInv'
<1>1. EndingPaid' /\ StartsToCome' <= StartsToCome - 1
  BY StartUsed DEF WorkInv
<1>2. UNCHANGED <<row, worked, task, claims, expired>>
      /\ \A j \in Pods \ {k} : recovered'[j] = recovered[j]
  BY DEF OnStart, redis, table
<1>3. ASSUME NEW e \in Events, row[e] # "none"
      PROVE  Shares(e)' + StartsToCome' <= Cardinality(Pods)
  <2>0. ASSUME NEW w \in Workers, HasBegun(e, w)', w # <<"recovery", k>> PROVE HasBegun(e, w)
    <3>1. (w[2] \in Pods /\ w = <<w[1], w[2]>>) \/ w[1] = "claim"
      BY DEF Workers
    <3>2. QED
      BY <1>2, <2>0, <3>1 DEF HasBegun
  <2>1. Begun(e)' \subseteq Begun(e) \cup {<<"recovery", k>>} /\ worked'[e] = worked[e]
    BY <1>2, <2>0 DEF Begun
  <2>2. Shares(e)' <= Shares(e) + 1
    BY <2>1, ShareAdded
  <2>3. Shares(e) + StartsToCome <= Cardinality(Pods)
    BY <1>3 DEF WorkInv
  <2>4. QED
    BY <1>1, <2>2, <2>3, ShareCovered
<1>4. QED
  BY <1>1, <1>2, <1>3 DEF WorkInv

\* A claim that expires stands for a task to come, in exchange for the expiry.
LEMMA ExpiryIsCovered ==
    ASSUME TypeInv, TypeInv', WorkInv, NEW f \in Events, Expire(f)
    PROVE  WorkInv'
<1>1. EndingPaid' /\ StartsToCome' <= StartsToCome - 1
  BY StartsOfExpiry DEF WorkInv
<1>2. UNCHANGED <<row, worked, task, recovered>>
  BY DEF Expire, tasks, table
<1>3. ASSUME NEW e \in Events, row[e] # "none"
      PROVE  Shares(e)' + StartsToCome' <= Cardinality(Pods)
  <2>1. ASSUME NEW w \in Workers, HasBegun(e, w)', w # <<"claim", "claim">> PROVE HasBegun(e, w)
    <3>1. w[1] # "claim"
      BY <2>1 DEF Workers
    <3>2. QED
      BY <1>2, <2>1, <3>1 DEF HasBegun
  <2>2. Begun(e)' \subseteq Begun(e) \cup {<<"claim", "claim">>} /\ worked'[e] = worked[e]
    BY <1>2, <2>1 DEF Begun
  <2>3. Shares(e)' <= Shares(e) + 1
    BY <2>2, ShareAdded
  <2>4. Shares(e) + StartsToCome <= Cardinality(Pods)
    BY <1>3 DEF WorkInv
  <2>5. QED
    BY <1>1, <2>3, <2>4, ShareCovered
<1>4. QED
  BY <1>1, <1>2, <1>3 DEF WorkInv

\* Every step keeps the work of an event within the starts of the pods.
LEMMA WorkStep ==
    TypeInv /\ TypeInv' /\ TaskInv /\ OrderInv /\ IdleInv /\ WorkInv /\ [Next]_vars => WorkInv'
<1> SUFFICES ASSUME TypeInv, TypeInv', TaskInv, OrderInv, IdleInv, WorkInv, [Next]_vars
             PROVE  WorkInv'
  OBVIOUS
<1>1. ASSUME NEW k \in Pods, OnStart(k) PROVE WorkInv'
  BY <1>1, RecoveryIsCovered
<1>2. ASSUME NEW k \in Pods, RunStep(k) PROVE WorkInv'
  <2>1. EndingPaid' /\ StartsToCome' <= StartsToCome - 0
    BY <1>2, StartsOfRun DEF WorkInv
  <2>2. \A e \in Events : EventKept(e)
    BY <1>2, RunKeepsEvents, SpawnKeepsEvents
  <2>3. QED
    BY <2>1, <2>2, WorkCovered
<1>3. ASSUME NEW k \in Pods, NEW f \in Events, TaskStep(k, f) PROVE WorkInv'
  <2>1. EndingPaid' /\ StartsToCome' <= StartsToCome - 0
    BY <1>3, StartsOfTask DEF WorkInv
  <2>2. \A e \in Events : EventKept(e)
    BY <1>3, TaskKeepsEvent, TaskKeepsOthers
  <2>3. QED
    BY <2>1, <2>2, WorkCovered
<1>4. CASE Rebalance
  <2>1. EndingPaid' /\ StartsToCome' <= StartsToCome - 0
    BY <1>4, StartsOfRebalance DEF WorkInv
  <2>2. UNCHANGED <<row, worked, task, recovered, claims, expired>>
    BY <1>4 DEF Rebalance, redis, tasks, table
  <2>3. ASSUME NEW e \in Events PROVE EventKept(e)
    <3>1. \A w \in Workers : HasBegun(e, w)' => HasBegun(e, w)
      BY <2>2 DEF HasBegun
    <3>2. QED
      BY <2>2, <3>1, NothingBegun
  <2>4. QED
    BY <2>1, <2>3, WorkCovered
<1>5. ASSUME NEW e \in Events, Expire(e) PROVE WorkInv'
  BY <1>5, ExpiryIsCovered
<1>6. CASE UNCHANGED vars
  BY <1>6 DEF vars, process, kafka, batch, redis, tasks, table, WorkInv, EndingPaid, StartsToCome,
              Shares, Begun, HasBegun, Waiting, Ending, Waits, Ends, InDispatch, AllSpent, Spent
<1>7. QED
  BY <1>1, <1>2, <1>3, <1>4, <1>5, <1>6 DEF Next, Progress, RunStep

\* At the beginning every pod waits for its start and no work was done.
LEMMA WorkInit == Init => WorkInv
<1> SUFFICES ASSUME Init PROVE WorkInv
  OBVIOUS
<1>1. Ending = {}
  BY PodsAssumption DEF Init, Ending, Ends, InDispatch
<1>2. Cardinality(Ending) = 0
  BY <1>1, FS_EmptySet
<1>3. \A f \in FaultKinds : Spent(f) = 0
  BY BudgetAssumption DEF Init, Spent
<1>4. AllSpent = 0
  BY <1>3, KindsOfFaults DEF AllSpent
<1>5. EndingPaid
  BY <1>2, <1>4 DEF EndingPaid
<1>6. \A e \in Events : row[e] = "none" /\ worked[e] = 0
  BY DEF Init
<1>7. QED
  BY <1>5, <1>6 DEF WorkInv

\* The work of an event is carried out at most once for every pod and once for
\* every fault, the expiry of its claim among them, however often it is recovered
\* while others work on it.
THEOREM WorkIsBounded == Spec => []WorkBounded
<1>1. TypeInv /\ WorkInv => WorkBounded
  <2> SUFFICES ASSUME TypeInv, WorkInv, NEW e \in Events
               PROVE  worked[e] <= Cardinality(Pods) + AllSpent
    BY DEF WorkBounded
  <2>1. Waiting \subseteq Pods /\ Ending \subseteq Pods /\ Begun(e) \subseteq Workers
    BY DEF Waiting, Ending, Begun
  <2>2. /\ Cardinality(Waiting) \in Nat /\ Cardinality(Ending) \in Nat
        /\ Cardinality(Begun(e)) \in Nat /\ Cardinality(Pods) \in Nat
    BY <2>1, NoneMore, PodsAssumption, WorkersFinite
  <2>3. worked[e] \in Nat /\ \A f \in FaultKinds : Spent(f) \in Int
    BY BudgetAssumption DEF TypeInv, TypeOK, Spent
  <2>4. AllSpent \in Int
    BY <2>3, KindsOfFaults DEF AllSpent
  <2>5. CASE row[e] = "none"
    <3>1. worked[e] = 0 /\ Cardinality(Ending) <= AllSpent
      BY <2>5 DEF WorkInv, EndingPaid
    <3>2. QED
      BY <2>2, <2>4, <3>1
  <2>6. CASE row[e] # "none"
    <3>1. Shares(e) + StartsToCome <= Cardinality(Pods)
      BY <2>6 DEF WorkInv
    <3>2. worked[e] + Cardinality(Begun(e)) + (Cardinality(Waiting) + Cardinality(Ending) - AllSpent)
            <= Cardinality(Pods)
      BY <3>1 DEF Shares, StartsToCome
    <3>3. QED
      BY <2>2, <2>3, <2>4, <3>2
  <2>7. QED
    BY <2>5, <2>6
<1>2. QED
  BY TypeInit, TypeStep, TaskInit, OneTaskStep, OrderInit, OrderStep, IdleInit, IdleStep,
     WorkInit, WorkStep, <1>1, PTL
     DEF Spec
=============================================================================
