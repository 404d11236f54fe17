------------------------ MODULE ConsumerGroupProofs ------------------------
(***************************************************************************)
(* Proofs about ConsumerGroup, for every number of pods, every topic and   *)
(* every budget of faults.                                                 *)
(***************************************************************************)
EXTENDS ConsumerGroup, SequenceTheorems, Counting, TLAPS

-----------------------------------------------------------------------------
(***************************************************************************)
(* The topic                                                               *)
(***************************************************************************)

\* The messages are the pairs of a partition and one of its offsets.
LEMMA MessagesDef ==
    \A p, o : <<p, o>> \in Messages <=> p \in Partitions /\ o \in 0 .. Len(Log[p]) - 1
BY DEF Messages, Offsets

\* A message has a partition and an offset below the end of that partition.
LEMMA MessageParts ==
    ASSUME NEW m \in Messages
    PROVE  /\ m[1] \in Partitions
           /\ m[2] \in 0 .. Len(Log[m[1]]) - 1
           /\ m = <<m[1], m[2]>>
BY DEF Messages, Offsets

\* Partitions are finite sequences, and their ends are natural numbers.
LEMMA EndsInNat ==
    /\ \A p \in Partitions : Len(Log[p]) \in Nat
    /\ Ends \subseteq Nat
    /\ \A p \in Partitions : 0 .. Len(Log[p]) \subseteq Ends
<1>1. \A p \in Partitions : Len(Log[p]) \in Nat
  BY LogAssumption
<1>2. QED
  BY <1>1 DEF Ends

\* The record of a message: its kind and its key have their types.
LEMMA RecordTypes ==
    ASSUME NEW m \in Messages
    PROVE  Kind(m) \in MessageKinds /\ Key(m) \in EventIds
<1>1. /\ m[1] \in Partitions
      /\ m[2] \in 0 .. Len(Log[m[1]]) - 1
  BY MessageParts
<1>2. Log[m[1]] \in Seq([kind : MessageKinds, id : EventIds])
  BY <1>1, LogAssumption
<1>3. m[2] + 1 \in 1 .. Len(Log[m[1]])
  BY <1>1, <1>2
<1>4. Log[m[1]][m[2] + 1] \in [kind : MessageKinds, id : EventIds]
  BY <1>2, <1>3, ElementOfSeq
<1>5. QED
  BY <1>4 DEF Kind, Key

-----------------------------------------------------------------------------
(***************************************************************************)
(* Type correctness                                                        *)
(***************************************************************************)

\* TypeOK is inductive once a pod inside _dispatch is known to have a message.
TypeInv == TypeOK /\ \A k \in Pods : Busy(k) => at[k] \in Messages

\* The initial state has the types.
LEMMA TypeInit == Init => TypeInv
<1>1. SUFFICES ASSUME Init PROVE TypeInv
  OBVIOUS
<1>2. \A p \in Partitions : 0 \in Ends /\ 0 <= Len(Log[p])
  BY EndsInNat
<1>3. QED
  BY <1>1, <1>2, BudgetAssumption, MaxRetriesAssumption
     DEF Init, TypeInv, TypeOK, Busy, EmptyBatch, PodStates

\* Spending a fault leaves the budget a vector of natural numbers.
LEMMA SpendType ==
    ASSUME budget \in [FaultKinds -> Nat], NEW f \in FaultKinds, Spend(f)
    PROVE  budget' \in [FaultKinds -> Nat]
BY DEF Spend

\* A dropped batch is an empty batch.
LEMMA DropBatchType ==
    ASSUME TypeOK, NEW k \in Pods, DropBatch(k)
    PROVE  /\ at' = [at EXCEPT ![k] = NoMessage]
           /\ at' \in [Pods -> Messages \cup {NoMessage}]
           /\ next' \in [Pods -> [Partitions -> Ends]]
           /\ last' \in [Pods -> [Partitions -> Ends]]
           /\ \A j \in Pods : \A p \in Partitions : last'[j][p] <= Len(Log[p])
<1>1. EmptyBatch \in [Partitions -> Ends] /\ \A p \in Partitions : EmptyBatch[p] <= Len(Log[p])
  BY EndsInNat DEF EmptyBatch
<1>2. QED
  BY <1>1 DEF TypeOK, DropBatch

\* The offset after a message does not leave its partition.
LEMMA RecordCommitType ==
    ASSUME TypeOK, NEW k \in Pods, at[k] \in Messages, RecordCommit(k)
    PROVE  /\ committed' \in [Partitions -> Ends]
           /\ \A p \in Partitions : committed'[p] <= Len(Log[p])
<1>1. /\ at[k][1] \in Partitions
      /\ at[k][2] + 1 \in 0 .. Len(Log[at[k][1]])
  BY MessageParts, EndsInNat
<1>2. QED
  BY <1>1, EndsInNat DEF TypeOK, RecordCommit

\* Leaving the group leaves owners and positions typed.
LEMMA LeaveGroupType ==
    ASSUME TypeOK, NEW k \in Pods, LeaveGroup(k)
    PROVE  /\ owner' \in [Partitions -> Pods \cup {NoPod}]
           /\ position' \in [Partitions -> Ends \cup {Unresolved}]
           /\ committed' = committed
BY DEF TypeOK, LeaveGroup

\* What the loop takes from a batch is a message of the topic.
LEMMA TakenIsMessage ==
    ASSUME TypeOK, NEW k \in Pods, NEW p \in Upcoming(k)
    PROVE  /\ p \in Partitions
           /\ next[k][p] < last[k][p]
           /\ next[k][p] + 1 \in Ends
           /\ <<p, next[k][p]>> \in Messages
<1>1. p \in Partitions /\ next[k][p] < last[k][p]
  BY DEF Upcoming, Pending
<1>2. /\ next[k][p] \in Nat /\ last[k][p] \in Nat /\ Len(Log[p]) \in Nat
      /\ last[k][p] <= Len(Log[p])
  BY <1>1, EndsInNat DEF TypeOK
<1>3. next[k][p] + 1 \in 0 .. Len(Log[p])
  BY <1>1, <1>2
<1>4. QED
  BY <1>1, <1>2, <1>3, EndsInNat, MessagesDef

\* Every step keeps the types.
LEMMA TypeStep == TypeInv /\ [Next]_vars => TypeInv'
<1> SUFFICES ASSUME TypeInv, [Next]_vars PROVE TypeInv'
  OBVIOUS
<1> USE DEF TypeInv, TypeOK, Busy, PodStates, Goto, kafka, redis,
            outcomes, batch, pod
<1>1. ASSUME NEW k \in Pods, Start(k) PROVE TypeInv'
  BY <1>1 DEF Start
<1>2. ASSUME NEW k \in Pods, Signal(k) PROVE TypeInv'
  BY <1>2, SpendType DEF Signal, FaultKinds
<1>3. ASSUME NEW k \in Pods, Kill(k) PROVE TypeInv'
  <2>1. budget' \in [FaultKinds -> Nat]
    BY <1>3, SpendType DEF Kill, FaultKinds
  <2>2. /\ at' = [at EXCEPT ![k] = NoMessage]
        /\ at' \in [Pods -> Messages \cup {NoMessage}]
        /\ next' \in [Pods -> [Partitions -> Ends]]
        /\ last' \in [Pods -> [Partitions -> Ends]]
        /\ \A j \in Pods : \A p \in Partitions : last'[j][p] <= Len(Log[p])
    BY <1>3, DropBatchType DEF Kill
  <2>3. /\ owner' \in [Partitions -> Pods \cup {NoPod}]
        /\ position' \in [Partitions -> Ends \cup {Unresolved}]
        /\ committed' = committed
    BY <1>3, LeaveGroupType DEF Kill
  <2>4. QED
    BY <1>3, <2>1, <2>2, <2>3 DEF Kill
<1>4. ASSUME NEW k \in Pods, LeaveLoop(k) PROVE TypeInv'
  BY <1>4, DropBatchType DEF LeaveLoop
<1>5. ASSUME NEW k \in Pods, Shutdown(k) PROVE TypeInv'
  BY <1>5, LeaveGroupType DEF Shutdown
<1>6. ASSUME NEW k \in Pods, Poll(k) PROVE TypeInv'
  <2>1. PICK hi \in [Partitions -> Ends] :
           LET fetched == {p \in Partitions : hi[p] > 0} IN
           /\ \A p \in fetched :
                position[p] # Unresolved /\ hi[p] \in position[p] + 1 .. Len(Log[p])
           /\ at' = [at EXCEPT ![k] = NoMessage]
           /\ next' = [next EXCEPT ![k] =
                         [p \in Partitions |-> IF p \in fetched THEN position[p] ELSE 0]]
           /\ last' = [last EXCEPT ![k] = hi]
           /\ position' = [p \in Partitions |-> IF p \in fetched THEN hi[p] ELSE position[p]]
    BY <1>6 DEF Poll
  <2> DEFINE from == [p \in Partitions |-> IF hi[p] > 0 THEN position[p] ELSE 0]
  <2>2. from \in [Partitions -> Ends]
    <3>1. \A p \in Partitions : hi[p] > 0 => position[p] \in Ends
      BY <2>1
    <3>2. QED
      BY <3>1, EndsInNat
  <2>3. \A p \in Partitions : hi[p] <= Len(Log[p])
    <3>1. \A p \in Partitions : hi[p] \in Nat /\ Len(Log[p]) \in Nat
      BY EndsInNat
    <3>2. \A p \in Partitions : hi[p] > 0 => hi[p] \in position[p] + 1 .. Len(Log[p])
      BY <2>1
    <3>3. \A p \in Partitions : hi[p] > 0 => position[p] \in Nat
      BY <2>1, EndsInNat
    <3>4. QED
      BY <3>1, <3>2, <3>3
  <2>4. next' = [next EXCEPT ![k] = from]
    BY <2>1
  <2>5. next' \in [Pods -> [Partitions -> Ends]]
    BY <2>2, <2>4
  <2>6. /\ last' \in [Pods -> [Partitions -> Ends]]
        /\ \A j \in Pods : \A p \in Partitions : last'[j][p] <= Len(Log[p])
    BY <2>1, <2>3
  <2>7. position' \in [Partitions -> Ends \cup {Unresolved}]
    BY <2>1
  <2>8. QED
    BY <1>6, <2>1, <2>5, <2>6, <2>7 DEF Poll
<1>7. ASSUME NEW k \in Pods, TakeMessage(k) PROVE TypeInv'
  <2>1. CASE Crash(k, "loop")
    BY <1>7, <2>1, DropBatchType DEF TakeMessage, Crash
  <2>2. ASSUME NEW p \in Upcoming(k),
               Kind(<<p, next[k][p]>>) # "scalar",
               pc' = [pc EXCEPT ![k] = FirstStep(Kind(<<p, next[k][p]>>))],
               at' = [at EXCEPT ![k] = <<p, next[k][p]>>],
               next' = [next EXCEPT ![k][p] = @ + 1],
               UNCHANGED <<stop, attempt, last>>
        PROVE  TypeInv'
    <3>1. /\ p \in Partitions
          /\ next[k][p] + 1 \in Ends
          /\ <<p, next[k][p]>> \in Messages
      BY <2>2, TakenIsMessage
    <3>4. FirstStep(Kind(<<p, next[k][p]>>)) \in {"claim", "dlq"}
      BY <2>2, <3>1, RecordTypes DEF FirstStep, MessageKinds
    <3>5. next' \in [Pods -> [Partitions -> Ends]]
      BY <1>7, <2>2, <3>1
    <3>6. QED
      BY <1>7, <2>2, <3>1, <3>4, <3>5 DEF TakeMessage
  <2>3. QED
    BY <1>7, <2>1, <2>2 DEF TakeMessage
<1>8. ASSUME NEW k \in Pods, ClaimNew(k) PROVE TypeInv'
  <2>1. at[k] \in Messages /\ Key(at[k]) \in EventIds
    BY <1>8, RecordTypes DEF ClaimNew
  <2>2. wins' \in [EventIds -> Nat] /\ claims' \subseteq EventIds
    BY <1>8, <2>1 DEF ClaimNew
  <2>3. attempt' \in [Pods -> 0 .. MaxRetries]
    BY <1>8, MaxRetriesAssumption DEF ClaimNew
  <2>4. QED
    BY <1>8, <2>1, <2>2, <2>3 DEF ClaimNew
<1>9. ASSUME NEW k \in Pods, ClaimDuplicate(k) PROVE TypeInv'
  BY <1>9 DEF ClaimDuplicate
<1>10. ASSUME NEW k \in Pods, HandlerReturns(k) PROVE TypeInv'
  BY <1>10 DEF HandlerReturns
<1>11. ASSUME NEW k \in Pods, HandlerRetries(k) PROVE TypeInv'
  BY <1>11, MaxRetriesAssumption DEF HandlerRetries
<1>12. ASSUME NEW k \in Pods, HandlerGivesUp(k) PROVE TypeInv'
  BY <1>12 DEF HandlerGivesUp
<1>13. ASSUME NEW k \in Pods, HandlerFails(k) PROVE TypeInv'
  BY <1>13 DEF HandlerFails
<1>14. ASSUME NEW k \in Pods, CommitOk(k) PROVE TypeInv'
  BY <1>14, RecordCommitType DEF CommitOk
<1>15. ASSUME NEW k \in Pods, CommitRejected(k) PROVE TypeInv'
  BY <1>15 DEF CommitRejected
<1>16. ASSUME NEW k \in Pods, SendDlq(k) PROVE TypeInv'
  BY <1>16 DEF SendDlq
<1>17. ASSUME NEW k \in Pods, SettleOk(k) PROVE TypeInv'
  BY <1>17, RecordCommitType DEF SettleOk
<1>18. ASSUME NEW k \in Pods, SettleRejected(k) PROVE TypeInv'
  BY <1>18, DropBatchType DEF SettleRejected, Crash
<1>19. ASSUME NEW k \in Pods, ClaimError(k) PROVE TypeInv'
  <2>1. budget' \in [FaultKinds -> Nat]
    BY <1>19, SpendType DEF ClaimError, FaultKinds
  <2>2. /\ at' = [at EXCEPT ![k] = NoMessage]
        /\ at' \in [Pods -> Messages \cup {NoMessage}]
        /\ next' \in [Pods -> [Partitions -> Ends]]
        /\ last' \in [Pods -> [Partitions -> Ends]]
        /\ \A j \in Pods : \A p \in Partitions : last'[j][p] <= Len(Log[p])
    BY <1>19, DropBatchType DEF ClaimError, Crash
  <2>3. claims' \subseteq EventIds
    BY <1>19, RecordTypes DEF ClaimError, Crash
  <2>4. QED
    BY <1>19, <2>1, <2>2, <2>3 DEF ClaimError, Crash
<1>20. ASSUME NEW k \in Pods, RetryHookError(k) PROVE TypeInv'
  BY <1>20, SpendType, DropBatchType DEF RetryHookError, FaultKinds, Crash
<1>29. ASSUME NEW k \in Pods, PollError(k) PROVE TypeInv'
  BY <1>29, SpendType, DropBatchType DEF PollError, FaultKinds, Crash
<1>21. ASSUME NEW k \in Pods, CommitError(k) PROVE TypeInv'
  BY <1>21, SpendType, RecordCommitType DEF CommitError, FaultKinds
<1>22. ASSUME NEW k \in Pods, DlqError(k) PROVE TypeInv'
  <2>1. budget' \in [FaultKinds -> Nat]
    BY <1>22, SpendType DEF DlqError, FaultKinds
  <2>2. /\ at' = [at EXCEPT ![k] = NoMessage]
        /\ at' \in [Pods -> Messages \cup {NoMessage}]
        /\ next' \in [Pods -> [Partitions -> Ends]]
        /\ last' \in [Pods -> [Partitions -> Ends]]
        /\ \A j \in Pods : \A p \in Partitions : last'[j][p] <= Len(Log[p])
    BY <1>22, DropBatchType DEF DlqError, Crash
  <2>3. dlq' \subseteq Messages
    BY <1>22 DEF DlqError, Crash
  <2>4. QED
    BY <1>22, <2>1, <2>2, <2>3 DEF DlqError, Crash
<1>23. ASSUME NEW k \in Pods, SettleError(k) PROVE TypeInv'
  <2>1. budget' \in [FaultKinds -> Nat]
    BY <1>23, SpendType DEF SettleError, FaultKinds
  <2>2. /\ at' = [at EXCEPT ![k] = NoMessage]
        /\ at' \in [Pods -> Messages \cup {NoMessage}]
        /\ next' \in [Pods -> [Partitions -> Ends]]
        /\ last' \in [Pods -> [Partitions -> Ends]]
        /\ \A j \in Pods : \A p \in Partitions : last'[j][p] <= Len(Log[p])
    BY <1>23, DropBatchType DEF SettleError, Crash
  <2>3. committed' \in [Partitions -> Ends] /\ \A p \in Partitions : committed'[p] <= Len(Log[p])
    BY <1>23, RecordCommitType DEF SettleError, Crash
  <2>4. QED
    BY <1>23, <2>1, <2>2, <2>3 DEF SettleError, Crash
<1>24. ASSUME NEW e \in EventIds, Expire(e) PROVE TypeInv'
  BY <1>24, SpendType DEF Expire, FaultKinds
<1>25. ASSUME NEW p \in Partitions, ResolvePosition(p) PROVE TypeInv'
  BY <1>25 DEF ResolvePosition
<1>26. CASE Rebalance
  BY <1>26, SpendType DEF Rebalance, Live, FaultKinds
<1>27. CASE Assign
  BY <1>27 DEF Assign, Live
<1>28. CASE UNCHANGED vars
  BY <1>28 DEF vars
<1>30. QED
  BY <1>1, <1>2, <1>3, <1>4, <1>5, <1>6, <1>7, <1>8, <1>9, <1>10, <1>11, <1>12, <1>13, <1>14, <1>15, <1>16, <1>17, <1>18, <1>19, <1>20, <1>21, <1>22, <1>23, <1>24, <1>25, <1>26, <1>27, <1>28, <1>29 DEF Next, Progress, Failure, Coordinator

\* Every variable keeps its type, and offsets stay within their partition:
\* of ConsumerGroup as a whole, whatever faults strike.
THEOREM TypeCorrect == Spec => []TypeOK
<1>1. TypeInv => TypeOK
  BY DEF TypeInv
<1>2. QED
  BY <1>1, TypeInit, TypeStep, PTL DEF Spec

-----------------------------------------------------------------------------
(***************************************************************************)
(* Nothing is committed before it ended                                    *)
(*                                                                         *)
(* A step of a pod changes what that pod has in hand and adds to the       *)
(* outcomes.  The lemmas say once what such a step does to PodInv and      *)
(* PartitionInv; InvStep then has one step per action.                     *)
(***************************************************************************)

\* Outcomes and wins are never taken back.
Grows ==
    /\ done \subseteq done'
    /\ dlq \subseteq dlq'
    /\ skipped \subseteq skipped'
    /\ \A e \in EventIds : wins[e] > 0 => wins'[e] > 0

\* A message that ended stays ended.
LEMMA EndedStaysEnded ==
    ASSUME Grows
    PROVE  \A m : AccountedFor(m) => AccountedFor(m)'
BY DEF Grows, AccountedFor, Kind

\* No step takes an outcome or a win back.
LEMMA StepGrows == TypeInv /\ [Next]_vars => Grows
<1> SUFFICES ASSUME TypeInv, [Next]_vars PROVE Grows
  OBVIOUS
<1>1. ASSUME UNCHANGED wins, UNCHANGED outcomes PROVE Grows
  BY <1>1 DEF Grows, outcomes
<1>2. ASSUME NEW k \in Pods, ClaimNew(k) PROVE Grows
  <2>1. wins \in [EventIds -> Nat]
    BY DEF TypeInv, TypeOK
  <2>2. \A e \in EventIds : wins'[e] = wins[e] \/ wins'[e] = wins[e] + 1
    BY <1>2, <2>1 DEF ClaimNew
  <2>3. QED
    BY <1>2, <2>1, <2>2 DEF ClaimNew, Grows, outcomes
<1>3. ASSUME NEW k \in Pods,
             ClaimDuplicate(k) \/ HandlerReturns(k) \/ SendDlq(k) \/ DlqError(k)
      PROVE Grows
  BY <1>3 DEF ClaimDuplicate, HandlerReturns, SendDlq, DlqError, Grows, redis
<1>4. ASSUME NEW k \in Pods,
             \/ Start(k) \/ Signal(k) \/ Kill(k) \/ LeaveLoop(k) \/ Shutdown(k)
             \/ Poll(k) \/ TakeMessage(k) \/ HandlerRetries(k) \/ HandlerGivesUp(k)
             \/ HandlerFails(k) \/ CommitOk(k) \/ CommitRejected(k) \/ SettleOk(k)
             \/ SettleRejected(k) \/ RetryHookError(k) \/ PollError(k) \/ CommitError(k)
             \/ SettleError(k) \/ ClaimError(k)
      PROVE Grows
  <2>1. UNCHANGED wins /\ UNCHANGED outcomes
    BY <1>4 DEF Start, Signal, Kill, LeaveLoop, Shutdown, Poll, TakeMessage,
           HandlerRetries, HandlerGivesUp, HandlerFails, CommitOk, CommitRejected,
           SettleOk, SettleRejected, RetryHookError, PollError, CommitError, SettleError,
           ClaimError, redis
  <2>2. QED
    BY <1>1, <2>1
<1>5. ASSUME NEW e \in EventIds, Expire(e) PROVE Grows
  BY <1>1, <1>5 DEF Expire
<1>6. CASE Coordinator
  BY <1>1, <1>6 DEF Coordinator, Rebalance, Assign, ResolvePosition, redis
<1>7. CASE UNCHANGED vars
  BY <1>1, <1>7 DEF vars, redis
<1>8. QED
  BY <1>2, <1>3, <1>4, <1>5, <1>6, <1>7 DEF Next, Progress, Failure

\* A pod that does not move keeps its invariant.
LEMMA OtherPod ==
    ASSUME TypeInv, Grows, NEW j \in Pods, PodInv(j),
           pc'[j] = pc[j], at'[j] = at[j], next'[j] = next[j]
    PROVE  PodInv(j)'
<1>1. Busy(j) => Key(at[j]) \in EventIds
  BY RecordTypes DEF TypeInv
<1>2. /\ Kind(at[j])' = Kind(at[j])
      /\ Key(at[j])' = Key(at[j])
  BY DEF Kind, Key
<1>3. Busy(j)' <=> Busy(j)
  BY DEF Busy
<1>4. pc[j] \in {"claim", "handle", "commit", "dlq", "settle"} => Busy(j)
  BY DEF Busy
<1>5. AccountedFor(at[j]) => AccountedFor(at[j])'
  BY EndedStaysEnded
<1>6. \A p \in Partitions : \A o \in 0 .. next[j][p] - 1 :
         AccountedFor(<<p, o>>)' \/ (Busy(j) /\ at[j] = <<p, o>>)
  BY EndedStaysEnded DEF PodInv
<1>7. QED
  BY <1>1, <1>2, <1>3, <1>4, <1>5, <1>6 DEF PodInv, Grows

\* A partition keeps its invariant when neither its assignment nor its owner
\* moves.
LEMMA OtherPartition ==
    ASSUME Grows, NEW p \in Partitions, PartitionInv(p),
           position'[p] = position[p], owner'[p] = owner[p],
           owner[p] # NoPod =>
             /\ pc'[owner[p]] = pc[owner[p]]
             /\ at'[owner[p]] = at[owner[p]]
             /\ next'[owner[p]] = next[owner[p]]
             /\ last'[owner[p]] = last[owner[p]]
    PROVE  PartitionInv(p)'
BY EndedStaysEnded DEF PartitionInv, Fetched, Busy

\* A step that commits nothing keeps NoSkippedOffset.
LEMMA NothingCommitted ==
    ASSUME Grows, NoSkippedOffset, committed' = committed
    PROVE  NoSkippedOffset'
BY EndedStaysEnded DEF NoSkippedOffset

\* What a pod commits covers its message and what it took before it.
LEMMA CommitCovers ==
    ASSUME DeliveryInv, Grows, NEW k \in Pods, Busy(k), AccountedFor(at[k]),
           RecordCommit(k)
    PROVE  NoSkippedOffset'
<1> DEFINE q == at[k][1]
<1>1. /\ q \in Partitions /\ at[k] = <<q, at[k][2]>> /\ at[k][2] \in Nat
      /\ next[k][q] = at[k][2] + 1
  BY MessageParts, EndsInNat DEF DeliveryInv, PodInv
<1>2. committed' = [committed EXCEPT ![q] = at[k][2] + 1]
  BY DEF RecordCommit
<1>3. \A o \in 0 .. at[k][2] : AccountedFor(<<q, o>>)
  <2>1. \A o \in 0 .. next[k][q] - 1 : AccountedFor(<<q, o>>) \/ at[k] = <<q, o>>
    BY <1>1 DEF DeliveryInv, PodInv
  <2>2. QED
    BY <1>1, <2>1
<1>4. ASSUME NEW p \in Partitions, NEW o \in 0 .. committed'[p] - 1
      PROVE  AccountedFor(<<p, o>>)'
  <2>1. CASE p = q
    BY <1>1, <1>2, <1>3, <1>4, <2>1, EndedStaysEnded DEF DeliveryInv, TypeOK
  <2>2. CASE p # q
    BY <1>2, <1>4, <2>2, EndedStaysEnded DEF DeliveryInv, NoSkippedOffset, TypeOK
  <2>3. QED
    BY <2>1, <2>2
<1>5. QED
  BY <1>4 DEF NoSkippedOffset

\* A step inside _dispatch: the pod goes on with its message, or is done with
\* it and goes back to the loop.
LEMMA DispatchStep ==
    ASSUME DeliveryInv, TypeInv, Grows, NEW k \in Pods, NEW s,
           Busy(k), pc' = [pc EXCEPT ![k] = s],
           UNCHANGED <<batch, owner, position>>,
           s \in {"loop", "handle", "commit", "dlq", "settle"},
           s \in {"handle", "commit"} => Kind(at[k]) = "event",
           s \in {"handle", "commit", "dlq"} /\ Kind(at[k]) = "event" =>
             wins'[Key(at[k])] > 0,
           s \in {"loop", "commit", "settle"} => AccountedFor(at[k])'
    PROVE  /\ \A j \in Pods : PodInv(j)'
           /\ \A p \in Partitions : PartitionInv(p)'
<1>1. /\ at' = at /\ next' = next /\ last' = last
      /\ pc'[k] = s
      /\ \A j \in Pods : j # k => pc'[j] = pc[j]
  BY DEF batch, TypeInv, TypeOK
<1>2. ASSUME NEW j \in Pods, j # k PROVE PodInv(j)'
  BY <1>1, <1>2, OtherPod DEF DeliveryInv
<1>3. PodInv(k)'
  <2>1. PodInv(k)
    BY DEF DeliveryInv
  <2>2. /\ Kind(at[k])' = Kind(at[k])
        /\ Key(at[k])' = Key(at[k])
    BY <1>1 DEF Kind, Key
  <2>3. ASSUME NEW p \in Partitions, NEW o \in 0 .. next[k][p] - 1
        PROVE  AccountedFor(<<p, o>>)' \/ (Busy(k)' /\ at[k] = <<p, o>>)
    BY <1>1, <2>1, EndedStaysEnded DEF PodInv, Busy
  <2>4. QED
    BY <1>1, <2>1, <2>2, <2>3 DEF PodInv, Busy
<1>4. ASSUME NEW p \in Partitions PROVE PartitionInv(p)'
  <2>1. PartitionInv(p) /\ owner'[p] = owner[p] /\ position'[p] = position[p]
    BY <1>4 DEF DeliveryInv
  <2>2. CASE owner[p] # k
    BY <1>1, <2>1, <2>2, OtherPartition DEF TypeInv, TypeOK
  <2>3. CASE owner[p] = k
    BY <1>1, <2>1, <2>3, EndedStaysEnded DEF PartitionInv, Fetched, Busy
  <2>4. QED
    BY <2>2, <2>3
<1>5. QED
  BY <1>2, <1>3, <1>4

\* A pod that leaves its loop still owns its partitions, but holds nothing.
LEMMA CrashStep ==
    ASSUME DeliveryInv, TypeInv, Grows, NEW k \in Pods,
           pc' = [pc EXCEPT ![k] = "exit"], DropBatch(k),
           UNCHANGED <<owner, position>>
    PROVE  /\ \A j \in Pods : PodInv(j)'
           /\ \A p \in Partitions : PartitionInv(p)'
<1>1. /\ pc'[k] = "exit" /\ next'[k] = EmptyBatch
      /\ \A j \in Pods : j # k =>
           pc'[j] = pc[j] /\ at'[j] = at[j] /\ next'[j] = next[j] /\ last'[j] = last[j]
  BY DEF DropBatch, TypeInv, TypeOK
<1>2. ASSUME NEW j \in Pods, j # k PROVE PodInv(j)'
  BY <1>1, <1>2, OtherPod DEF DeliveryInv
<1>3. PodInv(k)'
  BY <1>1 DEF PodInv, Busy, EmptyBatch
<1>4. ASSUME NEW p \in Partitions PROVE PartitionInv(p)'
  <2>1. PartitionInv(p) /\ owner'[p] = owner[p] /\ position'[p] = position[p]
    BY <1>4 DEF DeliveryInv
  <2>2. CASE owner[p] # k
    BY <1>1, <2>1, <2>2, OtherPartition DEF TypeInv, TypeOK
  <2>3. CASE owner[p] = k
    BY <1>1, <2>1, <2>3 DEF PartitionInv, Fetched
  <2>4. QED
    BY <2>2, <2>3
<1>5. QED
  BY <1>2, <1>3, <1>4

\* A pod that left the group holds nothing and owns nothing.
LEMMA LeaveStep ==
    ASSUME DeliveryInv, TypeInv, Grows, NEW k \in Pods, PodInv(k)',
           pc' = [pc EXCEPT ![k] = "down"], LeaveGroup(k),
           \A j \in Pods : j # k =>
             at'[j] = at[j] /\ next'[j] = next[j] /\ last'[j] = last[j]
    PROVE  /\ \A j \in Pods : PodInv(j)'
           /\ \A p \in Partitions : PartitionInv(p)'
<1>1. \A j \in Pods : j # k => pc'[j] = pc[j]
  BY DEF TypeInv, TypeOK
<1>2. ASSUME NEW j \in Pods, j # k PROVE PodInv(j)'
  BY <1>1, <1>2, OtherPod DEF DeliveryInv
<1>3. ASSUME NEW p \in Partitions PROVE PartitionInv(p)'
  <2>1. PartitionInv(p)
    BY DEF DeliveryInv
  <2>2. CASE owner[p] # k
    BY <1>1, <2>1, <2>2, OtherPartition DEF LeaveGroup, TypeInv, TypeOK
  <2>3. CASE owner[p] = k
    BY <2>3 DEF LeaveGroup, PartitionInv, Fetched
  <2>4. QED
    BY <2>2, <2>3
<1>4. QED
  BY <1>2, <1>3

\* The invariant holds before any pod starts.
LEMMA InvInit == Init => DeliveryInv
<1> SUFFICES ASSUME Init PROVE DeliveryInv
  OBVIOUS
<1>1. TypeOK
  BY TypeInit DEF TypeInv
<1>2. NoSkippedOffset
  BY DEF Init, NoSkippedOffset
<1>3. ASSUME NEW k \in Pods PROVE PodInv(k)
  BY DEF Init, PodInv, Busy, EmptyBatch
<1>4. ASSUME NEW p \in Partitions PROVE PartitionInv(p)
  BY DEF Init, PartitionInv, Fetched
<1>5. QED
  BY <1>1, <1>2, <1>3, <1>4 DEF DeliveryInv

\* The parts of the invariant that the proofs of its steps begin from.
Rest == NoSkippedOffset /\ (\A k \in Pods : PodInv(k)) /\ (\A p \in Partitions : PartitionInv(p))

\* Every step keeps the invariant.
LEMMA InvStep == DeliveryInv /\ [Next]_vars => DeliveryInv'
<1> SUFFICES ASSUME DeliveryInv, [Next]_vars PROVE DeliveryInv'
  OBVIOUS
<1>a. TypeInv
  BY DEF DeliveryInv, TypeInv, PodInv
<1>b. TypeInv' /\ Grows
  BY <1>a, TypeStep, StepGrows
<1>c. SUFFICES Rest'
  BY <1>b DEF Rest, DeliveryInv, TypeInv
<1> USE <1>a, <1>b
<1>d. NoSkippedOffset /\ (\A k \in Pods : PodInv(k)) /\ (\A p \in Partitions : PartitionInv(p))
  BY DEF DeliveryInv
<1>1. ASSUME NEW k \in Pods, ClaimNew(k) PROVE Rest'
  <2>1. /\ pc[k] = "claim" /\ Busy(k) /\ pc' = [pc EXCEPT ![k] = "handle"]
        /\ UNCHANGED <<batch, owner, position, committed>>
    BY <1>1 DEF ClaimNew, Goto, Busy, kafka
  <2>2. Kind(at[k]) = "event" /\ wins'[Key(at[k])] > 0
    <3>1. Key(at[k]) \in EventIds
      BY <2>1, RecordTypes DEF TypeInv
    <3>2. QED
      BY <1>1, <1>d, <2>1, <3>1 DEF ClaimNew, PodInv, TypeInv, TypeOK
  <2>3. (\A j \in Pods : PodInv(j)') /\ (\A p \in Partitions : PartitionInv(p)')
    BY <2>1, <2>2, DispatchStep
  <2>4. QED
    BY <1>d, <2>1, <2>3, NothingCommitted DEF Rest
<1>2. ASSUME NEW k \in Pods, ClaimDuplicate(k) PROVE Rest'
  <2>1. /\ pc[k] = "claim" /\ Busy(k) /\ pc' = [pc EXCEPT ![k] = "settle"]
        /\ UNCHANGED <<batch, owner, position, committed>>
    BY <1>2 DEF ClaimDuplicate, Goto, Busy, kafka
  <2>2. Kind(at[k]) = "event" /\ AccountedFor(at[k])'
    BY <1>2, <1>d, <2>1 DEF ClaimDuplicate, PodInv, AccountedFor, batch, Kind
  <2>3. (\A j \in Pods : PodInv(j)') /\ (\A p \in Partitions : PartitionInv(p)')
    BY <2>1, <2>2, DispatchStep
  <2>4. QED
    BY <1>d, <2>1, <2>3, NothingCommitted DEF Rest
<1>3. ASSUME NEW k \in Pods, HandlerReturns(k) PROVE Rest'
  <2>1. /\ pc[k] = "handle" /\ Busy(k) /\ pc' = [pc EXCEPT ![k] = "commit"]
        /\ UNCHANGED <<batch, owner, position, committed>>
    BY <1>3 DEF HandlerReturns, Goto, Busy, kafka
  <2>2. Kind(at[k]) = "event" /\ wins'[Key(at[k])] > 0 /\ AccountedFor(at[k])'
    BY <1>3, <1>d, <2>1 DEF HandlerReturns, PodInv, AccountedFor, batch, Kind, redis
  <2>3. (\A j \in Pods : PodInv(j)') /\ (\A p \in Partitions : PartitionInv(p)')
    BY <2>1, <2>2, DispatchStep
  <2>4. QED
    BY <1>d, <2>1, <2>3, NothingCommitted DEF Rest
<1>4. ASSUME NEW k \in Pods, HandlerGivesUp(k) PROVE Rest'
  <2>1. /\ pc[k] = "handle" /\ Busy(k) /\ pc' = [pc EXCEPT ![k] = "dlq"]
        /\ UNCHANGED <<batch, owner, position, committed>>
    BY <1>4 DEF HandlerGivesUp, Goto, Busy, kafka
  <2>2. Kind(at[k]) = "event" /\ wins'[Key(at[k])] > 0
    BY <1>4, <1>d, <2>1 DEF HandlerGivesUp, PodInv, redis
  <2>3. (\A j \in Pods : PodInv(j)') /\ (\A p \in Partitions : PartitionInv(p)')
    BY <2>1, <2>2, DispatchStep
  <2>4. QED
    BY <1>d, <2>1, <2>3, NothingCommitted DEF Rest
<1>5. ASSUME NEW k \in Pods, HandlerFails(k) PROVE Rest'
  <2>1. /\ pc[k] = "handle" /\ Busy(k) /\ pc' = [pc EXCEPT ![k] = "dlq"]
        /\ UNCHANGED <<batch, owner, position, committed>>
    BY <1>5 DEF HandlerFails, Goto, Busy, kafka
  <2>2. Kind(at[k]) = "event" /\ wins'[Key(at[k])] > 0
    BY <1>5, <1>d, <2>1 DEF HandlerFails, PodInv, redis
  <2>3. (\A j \in Pods : PodInv(j)') /\ (\A p \in Partitions : PartitionInv(p)')
    BY <2>1, <2>2, DispatchStep
  <2>4. QED
    BY <1>d, <2>1, <2>3, NothingCommitted DEF Rest
<1>6. ASSUME NEW k \in Pods, CommitRejected(k) PROVE Rest'
  <2>1. /\ pc[k] = "commit" /\ Busy(k) /\ pc' = [pc EXCEPT ![k] = "dlq"]
        /\ UNCHANGED <<batch, owner, position, committed>>
    BY <1>6 DEF CommitRejected, Goto, Busy, kafka
  <2>2. Kind(at[k]) = "event" /\ wins'[Key(at[k])] > 0
    BY <1>6, <1>d, <2>1 DEF CommitRejected, PodInv, redis
  <2>3. (\A j \in Pods : PodInv(j)') /\ (\A p \in Partitions : PartitionInv(p)')
    BY <2>1, <2>2, DispatchStep
  <2>4. QED
    BY <1>d, <2>1, <2>3, NothingCommitted DEF Rest
<1>7. ASSUME NEW k \in Pods, SendDlq(k) PROVE Rest'
  <2>1. /\ pc[k] = "dlq" /\ Busy(k) /\ pc' = [pc EXCEPT ![k] = "settle"]
        /\ UNCHANGED <<batch, owner, position, committed>>
    BY <1>7 DEF SendDlq, Goto, Busy, kafka
  <2>2. AccountedFor(at[k])'
    BY <1>7, <1>d, <2>1 DEF SendDlq, PodInv, AccountedFor, batch, Kind
  <2>3. (\A j \in Pods : PodInv(j)') /\ (\A p \in Partitions : PartitionInv(p)')
    BY <2>1, <2>2, DispatchStep
  <2>4. QED
    BY <1>d, <2>1, <2>3, NothingCommitted DEF Rest
<1>8. ASSUME NEW k \in Pods, CommitOk(k) PROVE Rest'
  <2>1. /\ pc[k] = "commit" /\ Busy(k) /\ pc' = [pc EXCEPT ![k] = "loop"]
        /\ UNCHANGED <<batch, owner, position>>
        /\ RecordCommit(k) \/ UNCHANGED committed
    BY <1>8 DEF CommitOk, Goto, Busy
  <2>2. AccountedFor(at[k]) /\ at' = at
    BY <1>d, <2>1 DEF PodInv, batch
  <2>3. AccountedFor(at[k])'
    BY <2>2, EndedStaysEnded
  <2>5. (\A j \in Pods : PodInv(j)') /\ (\A p \in Partitions : PartitionInv(p)')
    BY <2>1, <2>3, DispatchStep
  <2>6. NoSkippedOffset'
    BY <1>d, <2>1, <2>2, CommitCovers, NothingCommitted
  <2>7. QED
    BY <2>5, <2>6 DEF Rest
<1>9. ASSUME NEW k \in Pods, SettleOk(k) PROVE Rest'
  <2>1. /\ pc[k] = "settle" /\ Busy(k) /\ pc' = [pc EXCEPT ![k] = "loop"]
        /\ UNCHANGED <<batch, owner, position>>
        /\ RecordCommit(k) \/ UNCHANGED committed
    BY <1>9 DEF SettleOk, Goto, Busy
  <2>2. AccountedFor(at[k]) /\ at' = at
    BY <1>d, <2>1 DEF PodInv, batch
  <2>3. AccountedFor(at[k])'
    BY <2>2, EndedStaysEnded
  <2>5. (\A j \in Pods : PodInv(j)') /\ (\A p \in Partitions : PartitionInv(p)')
    BY <2>1, <2>3, DispatchStep
  <2>6. NoSkippedOffset'
    BY <1>d, <2>1, <2>2, CommitCovers, NothingCommitted
  <2>7. QED
    BY <2>5, <2>6 DEF Rest
<1>10. ASSUME NEW k \in Pods, CommitError(k) PROVE Rest'
  <2>1. /\ pc[k] = "commit" /\ Busy(k) /\ pc' = [pc EXCEPT ![k] = "dlq"]
        /\ UNCHANGED <<batch, owner, position>>
        /\ RecordCommit(k) \/ UNCHANGED committed
    BY <1>10 DEF CommitError, Goto, Busy
  <2>2. AccountedFor(at[k]) /\ at' = at
    BY <1>d, <2>1 DEF PodInv, batch
  <2>3. AccountedFor(at[k])'
    BY <2>2, EndedStaysEnded
  <2>4. Kind(at[k]) = "event" /\ wins'[Key(at[k])] > 0
    BY <1>10, <1>d, <2>1 DEF CommitError, PodInv, redis
  <2>5. (\A j \in Pods : PodInv(j)') /\ (\A p \in Partitions : PartitionInv(p)')
    BY <2>1, <2>4, DispatchStep
  <2>6. NoSkippedOffset'
    BY <1>d, <2>1, <2>2, CommitCovers, NothingCommitted
  <2>7. QED
    BY <2>5, <2>6 DEF Rest
<1>11. ASSUME NEW k \in Pods, LeaveLoop(k) PROVE Rest'
  <2>1. /\ pc' = [pc EXCEPT ![k] = "exit"] /\ DropBatch(k)
        /\ UNCHANGED <<owner, position, committed>>
    BY <1>11 DEF LeaveLoop, Crash, Goto, kafka
  <2>2. QED
    BY <1>d, <2>1, CrashStep, NothingCommitted DEF Rest
<1>12. ASSUME NEW k \in Pods, ClaimError(k) PROVE Rest'
  <2>1. /\ pc' = [pc EXCEPT ![k] = "exit"] /\ DropBatch(k)
        /\ UNCHANGED <<owner, position, committed>>
    BY <1>12 DEF ClaimError, Crash, Goto, kafka
  <2>2. QED
    BY <1>d, <2>1, CrashStep, NothingCommitted DEF Rest
<1>13. ASSUME NEW k \in Pods, RetryHookError(k) \/ PollError(k) PROVE Rest'
  <2>1. /\ pc' = [pc EXCEPT ![k] = "exit"] /\ DropBatch(k)
        /\ UNCHANGED <<owner, position, committed>>
    BY <1>13 DEF RetryHookError, PollError, Crash, Goto, kafka
  <2>2. QED
    BY <1>d, <2>1, CrashStep, NothingCommitted DEF Rest
<1>14. ASSUME NEW k \in Pods, DlqError(k) PROVE Rest'
  <2>1. /\ pc' = [pc EXCEPT ![k] = "exit"] /\ DropBatch(k)
        /\ UNCHANGED <<owner, position, committed>>
    BY <1>14 DEF DlqError, Crash, Goto, kafka
  <2>2. QED
    BY <1>d, <2>1, CrashStep, NothingCommitted DEF Rest
<1>15. ASSUME NEW k \in Pods, SettleRejected(k) PROVE Rest'
  <2>1. /\ pc' = [pc EXCEPT ![k] = "exit"] /\ DropBatch(k)
        /\ UNCHANGED <<owner, position, committed>>
    BY <1>15 DEF SettleRejected, Crash, Goto, kafka
  <2>2. QED
    BY <1>d, <2>1, CrashStep, NothingCommitted DEF Rest
<1>16. ASSUME NEW k \in Pods, SettleError(k) PROVE Rest'
  <2>1. /\ pc[k] = "settle" /\ Busy(k)
        /\ pc' = [pc EXCEPT ![k] = "exit"] /\ DropBatch(k)
        /\ UNCHANGED <<owner, position>>
        /\ RecordCommit(k) \/ UNCHANGED committed
    BY <1>16 DEF SettleError, Crash, Goto, Busy
  <2>2. AccountedFor(at[k])
    BY <1>d, <2>1 DEF PodInv
  <2>3. NoSkippedOffset'
    BY <1>d, <2>1, <2>2, CommitCovers, NothingCommitted
  <2>4. QED
    BY <2>1, <2>3, CrashStep DEF Rest
<1>17. ASSUME NEW k \in Pods, Shutdown(k) PROVE Rest'
  <2>1. /\ pc[k] = "exit" /\ pc' = [pc EXCEPT ![k] = "down"] /\ LeaveGroup(k)
        /\ UNCHANGED batch
    BY <1>17 DEF Shutdown, Goto
  <2>2. PodInv(k)'
    <3>1. ~Busy(k) /\ ~Busy(k)' /\ pc'[k] = "down" /\ next' = next
      BY <2>1 DEF Busy, batch, TypeInv, TypeOK
    <3>2. \A p \in Partitions : \A o \in 0 .. next[k][p] - 1 : AccountedFor(<<p, o>>)'
      BY <1>d, <3>1, EndedStaysEnded DEF PodInv
    <3>3. QED
      BY <3>1, <3>2 DEF PodInv
  <2>3. QED
    BY <1>d, <2>1, <2>2, LeaveStep, NothingCommitted DEF Rest, LeaveGroup, batch
<1>18. ASSUME NEW k \in Pods, Kill(k) PROVE Rest'
  <2>1. pc' = [pc EXCEPT ![k] = "down"] /\ LeaveGroup(k) /\ DropBatch(k)
    BY <1>18 DEF Kill
  <2>2. pc'[k] = "down" /\ next'[k] = EmptyBatch
    BY <2>1 DEF DropBatch, TypeInv, TypeOK
  <2>3. PodInv(k)'
    BY <2>2 DEF PodInv, Busy, EmptyBatch
  <2>4. \A j \in Pods : j # k => at'[j] = at[j] /\ next'[j] = next[j] /\ last'[j] = last[j]
    BY <2>1 DEF DropBatch, TypeInv, TypeOK
  <2>5. (\A j \in Pods : PodInv(j)') /\ (\A p \in Partitions : PartitionInv(p)')
    BY <2>1, <2>3, <2>4, LeaveStep
  <2>6. QED
    BY <1>d, <2>1, <2>5, NothingCommitted DEF Rest, LeaveGroup
<1>19. ASSUME NEW k \in Pods, Start(k) PROVE Rest'
  <2>1. /\ pc[k] = "down" /\ pc' = [pc EXCEPT ![k] = "loop"]
        /\ UNCHANGED <<batch, kafka>>
    BY <1>19 DEF Start, Goto
  <2>2. /\ at' = at /\ next' = next /\ last' = last
        /\ owner' = owner /\ position' = position /\ committed' = committed
        /\ pc'[k] = "loop" /\ \A j \in Pods : j # k => pc'[j] = pc[j]
    BY <2>1 DEF batch, kafka, TypeInv, TypeOK
  <2>3. ASSUME NEW j \in Pods, j # k PROVE PodInv(j)'
    BY <1>d, <2>2, <2>3, OtherPod
  <2>4. PodInv(k)'
    <3>1. \A p \in Partitions : \A o \in 0 .. next[k][p] - 1 : AccountedFor(<<p, o>>)'
      BY <1>d, <2>1, EndedStaysEnded DEF PodInv, Busy
    <3>2. QED
      BY <2>2, <3>1 DEF PodInv, Busy
  <2>5. ASSUME NEW p \in Partitions PROVE PartitionInv(p)'
    <3>1. owner[p] # k
      BY <1>d, <2>1, NoPodAssumption DEF PartitionInv
    <3>2. owner[p] # NoPod => owner[p] \in Pods
      BY DEF TypeInv, TypeOK
    <3>3. QED
      BY <1>d, <2>2, <3>1, <3>2, OtherPartition
  <2>6. QED
    BY <1>d, <2>2, <2>3, <2>4, <2>5, NothingCommitted DEF Rest
<1>20. ASSUME NEW k \in Pods, Signal(k) PROVE Rest'
  <2>1. /\ pc' = pc /\ at' = at /\ next' = next /\ last' = last
        /\ owner' = owner /\ position' = position /\ committed' = committed
    BY <1>20 DEF Signal, kafka, batch
  <2>2. QED
    BY <1>d, <2>1, OtherPod, OtherPartition, NothingCommitted DEF Rest
<1>21. ASSUME NEW k \in Pods, HandlerRetries(k) PROVE Rest'
  <2>1. /\ pc' = pc /\ at' = at /\ next' = next /\ last' = last
        /\ owner' = owner /\ position' = position /\ committed' = committed
    BY <1>21 DEF HandlerRetries, kafka, batch
  <2>2. QED
    BY <1>d, <2>1, OtherPod, OtherPartition, NothingCommitted DEF Rest
<1>22. ASSUME NEW e \in EventIds, Expire(e) PROVE Rest'
  <2>1. /\ pc' = pc /\ at' = at /\ next' = next /\ last' = last
        /\ owner' = owner /\ position' = position /\ committed' = committed
    BY <1>22 DEF Expire, kafka, pod, batch
  <2>2. QED
    BY <1>d, <2>1, OtherPod, OtherPartition, NothingCommitted DEF Rest
<1>23. CASE UNCHANGED vars
  <2>1. /\ pc' = pc /\ at' = at /\ next' = next /\ last' = last
        /\ owner' = owner /\ position' = position /\ committed' = committed
    BY <1>23 DEF vars, kafka, pod, batch
  <2>2. QED
    BY <1>d, <2>1, OtherPod, OtherPartition, NothingCommitted DEF Rest
<1>24. ASSUME NEW k \in Pods, Poll(k) PROVE Rest'
  <2>1. PICK hi \in [Partitions -> Ends] :
           LET fetched == {p \in Partitions : hi[p] > 0} IN
           /\ \A p \in fetched :
                /\ owner[p] = k
                /\ position[p] # Unresolved
                /\ hi[p] \in position[p] + 1 .. Len(Log[p])
           /\ at' = [at EXCEPT ![k] = NoMessage]
           /\ next' = [next EXCEPT ![k] =
                         [p \in Partitions |-> IF p \in fetched THEN position[p] ELSE 0]]
           /\ last' = [last EXCEPT ![k] = hi]
           /\ position' = [p \in Partitions |-> IF p \in fetched THEN hi[p] ELSE position[p]]
    BY <1>24 DEF Poll
  <2>2. /\ pc[k] = "loop" /\ pc' = pc /\ owner' = owner /\ committed' = committed
        /\ \A p \in Partitions : ~(next[k][p] < last[k][p])
    BY <1>24 DEF Poll, Pending
  <2>3. /\ \A p \in Partitions : next'[k][p] = IF hi[p] > 0 THEN position[p] ELSE 0
        /\ last'[k] = hi
        /\ \A p \in Partitions : position'[p] = IF hi[p] > 0 THEN hi[p] ELSE position[p]
    BY <2>1 DEF TypeInv, TypeOK
  <2>4. \A j \in Pods : j # k => at'[j] = at[j] /\ next'[j] = next[j] /\ last'[j] = last[j]
    BY <2>1 DEF TypeInv, TypeOK
  <2>5. ASSUME NEW p \in Partitions, owner[p] = k, position[p] # Unresolved,
               NEW o \in 0 .. position[p] - 1
        PROVE  AccountedFor(<<p, o>>)
    <3>1. o \notin next[k][p] .. last[k][p] - 1
      <4>1. next[k][p] \in Nat /\ last[k][p] \in Nat
        BY EndsInNat DEF TypeInv, TypeOK
      <4>2. QED
        BY <2>2, <2>5, <4>1
    <3>2. QED
      BY <1>d, <2>2, <2>5, <3>1 DEF PartitionInv, Fetched, Busy
  <2>6. ASSUME NEW j \in Pods, j # k PROVE PodInv(j)'
    BY <1>d, <2>2, <2>4, <2>6, OtherPod
  <2>7. PodInv(k)'
    <3>1. ASSUME NEW p \in Partitions, NEW o \in 0 .. next'[k][p] - 1
          PROVE  AccountedFor(<<p, o>>)'
      BY <2>1, <2>3, <2>5, <3>1, EndedStaysEnded
    <3>2. pc'[k] = "loop"
      BY <2>2
    <3>3. QED
      BY <3>1, <3>2 DEF PodInv, Busy
  <2>8. ASSUME NEW p \in Partitions PROVE PartitionInv(p)'
    <3>1. CASE hi[p] > 0
      <4>1. /\ owner[p] = k /\ position[p] \in Nat /\ position'[p] = hi[p] /\ hi[p] \in Nat
            /\ next'[k][p] = position[p] /\ last'[k][p] = hi[p]
        BY <2>1, <2>3, <3>1, EndsInNat DEF TypeInv, TypeOK
      <4>2. \A o \in 0 .. hi[p] - 1 :
               AccountedFor(<<p, o>>)' \/ o \in next'[k][p] .. last'[k][p] - 1
        BY <2>1, <2>5, <3>1, <4>1, EndedStaysEnded
      <4>3. QED
        BY <1>d, <2>2, <4>1, <4>2, NoPodAssumption DEF PartitionInv, Fetched
    <3>2. CASE ~(hi[p] > 0) /\ owner[p] = k
      <4>1. position'[p] = position[p]
        BY <2>3, <3>2
      <4>2. QED
        BY <1>d, <2>2, <2>5, <3>2, <4>1, EndedStaysEnded DEF PartitionInv, Fetched
    <3>3. CASE ~(hi[p] > 0) /\ owner[p] # k
      BY <1>d, <2>2, <2>3, <2>4, <3>3, OtherPartition DEF TypeInv, TypeOK
    <3>4. QED
      BY <3>1, <3>2, <3>3
  <2>9. QED
    BY <1>d, <2>2, <2>6, <2>7, <2>8, NothingCommitted DEF Rest
<1>25. ASSUME NEW k \in Pods, TakeMessage(k) PROVE Rest'
  <2>1. /\ pc[k] = "loop" /\ owner' = owner /\ position' = position /\ committed' = committed
    BY <1>25 DEF TakeMessage, kafka
  <2>2. CASE Crash(k, "loop")
    BY <1>d, <2>1, <2>2, CrashStep, NothingCommitted DEF Rest, Crash, Goto
  <2>3. ASSUME NEW q \in Upcoming(k),
               Kind(<<q, next[k][q]>>) # "scalar",
               pc' = [pc EXCEPT ![k] = FirstStep(Kind(<<q, next[k][q]>>))],
               at' = [at EXCEPT ![k] = <<q, next[k][q]>>],
               next' = [next EXCEPT ![k][q] = @ + 1],
               last' = last
        PROVE  Rest'
    <3> DEFINE m == <<q, next[k][q]>>
    <3>1. q \in Partitions /\ next[k][q] < last[k][q] /\ m \in Messages
      BY <2>3, TakenIsMessage DEF TypeInv
    <3>2. /\ next[k][q] \in Nat /\ last[k][q] \in Nat /\ Len(Log[q]) \in Nat
          /\ last[k][q] <= Len(Log[q])
      BY <3>1, EndsInNat DEF TypeInv, TypeOK
    <3>3. m \in Messages /\ Kind(m) \in {"event", "malformed"}
      BY <2>3, <3>1, RecordTypes DEF MessageKinds
    <3>4. /\ at'[k] = m
          /\ next'[k][q] = next[k][q] + 1
          /\ \A p \in Partitions : p # q => next'[k][p] = next[k][p]
          /\ \A j \in Pods : j # k =>
               pc'[j] = pc[j] /\ at'[j] = at[j] /\ next'[j] = next[j]
      BY <2>3, <3>1 DEF TypeInv, TypeOK
    <3>5. /\ pc'[k] \in {"claim", "dlq"}
          /\ pc'[k] = "claim" <=> Kind(m) = "event"
      BY <2>3, <3>3 DEF FirstStep, TypeInv, TypeOK
    <3>6. Busy(k)' /\ Kind(at[k])' = Kind(m)
      BY <3>4, <3>5 DEF Busy, Kind
    <3>7. ASSUME NEW j \in Pods, j # k PROVE PodInv(j)'
      BY <1>d, <3>4, <3>7, OtherPod
    <3>8. ASSUME NEW p \in Partitions, NEW o \in 0 .. next'[k][p] - 1
          PROVE  AccountedFor(<<p, o>>)' \/ at'[k] = <<p, o>>
      <4>1. CASE o \in 0 .. next[k][p] - 1
        BY <1>d, <2>1, <4>1, EndedStaysEnded DEF PodInv, Busy
      <4>2. CASE o \notin 0 .. next[k][p] - 1
        BY <3>2, <3>4, <3>8, <4>2
      <4>3. QED
        BY <4>1, <4>2
    <3>9. PodInv(k)'
      BY <3>1, <3>2, <3>3, <3>4, <3>5, <3>6, <3>8 DEF PodInv
    <3>10. ASSUME NEW p \in Partitions PROVE PartitionInv(p)'
      <4>1. CASE owner[p] # k
        BY <1>d, <2>1, <2>3, <3>4, <4>1, OtherPartition DEF TypeInv, TypeOK
      <4>2. CASE owner[p] = k
        <5>1. next[k][p] \in Nat /\ last[k][p] \in Nat
          BY EndsInNat DEF TypeInv, TypeOK
        <5>2. ASSUME NEW o \in 0 .. position[p] - 1, position[p] # Unresolved
              PROVE  \/ AccountedFor(<<p, o>>)'
                     \/ o \in next'[k][p] .. last'[k][p] - 1
                     \/ at'[k] = <<p, o>>
          <6>1. AccountedFor(<<p, o>>) \/ o \in next[k][p] .. last[k][p] - 1
            BY <1>d, <2>1, <4>2, <5>2 DEF PartitionInv, Fetched, Busy
          <6>2. QED
            BY <2>3, <3>4, <5>1, <6>1, EndedStaysEnded
        <5>3. QED
          BY <1>d, <2>1, <3>5, <3>6, <4>2, <5>2 DEF PartitionInv, Fetched
      <4>3. QED
        BY <4>1, <4>2
    <3>11. QED
      BY <1>d, <2>1, <3>7, <3>9, <3>10, NothingCommitted DEF Rest
  <2>4. QED
    BY <1>25, <2>2, <2>3 DEF TakeMessage
<1>26. CASE Rebalance
  <2>1. /\ pc' = pc /\ at' = at /\ next' = next /\ committed' = committed
        /\ position' = [p \in Partitions |-> Unresolved]
        /\ owner' \in [Partitions -> Live \cup {NoPod}]
    BY <1>26 DEF Rebalance, Live, pod, batch, TypeInv, TypeOK
  <2>2. \A p \in Partitions : PartitionInv(p)'
    BY <2>1 DEF PartitionInv, Fetched, Live
  <2>3. QED
    BY <1>d, <2>1, <2>2, OtherPod, NothingCommitted DEF Rest
<1>27. CASE Assign
  <2>1. /\ pc' = pc /\ at' = at /\ next' = next /\ committed' = committed
        /\ position' = [p \in Partitions |-> Unresolved]
        /\ owner' \in [Partitions -> Live \cup {NoPod}]
    BY <1>27 DEF Assign, Live, pod, batch, TypeInv, TypeOK
  <2>2. \A p \in Partitions : PartitionInv(p)'
    BY <2>1 DEF PartitionInv, Fetched, Live
  <2>3. QED
    BY <1>d, <2>1, <2>2, OtherPod, NothingCommitted DEF Rest
<1>28. ASSUME NEW q \in Partitions, ResolvePosition(q) PROVE Rest'
  <2>1. /\ pc' = pc /\ at' = at /\ next' = next /\ last' = last
        /\ owner' = owner /\ committed' = committed
        /\ owner[q] # NoPod
        /\ position'[q] = committed[q]
        /\ \A p \in Partitions : p # q => position'[p] = position[p]
    BY <1>28 DEF ResolvePosition, pod, batch, TypeInv, TypeOK
  <2>2. ASSUME NEW p \in Partitions PROVE PartitionInv(p)'
    <3>1. CASE p # q
      BY <1>d, <2>1, <3>1, OtherPartition
    <3>2. CASE p = q
      <4>1. \A o \in 0 .. committed[q] - 1 : AccountedFor(<<q, o>>)'
        BY <1>d, EndedStaysEnded DEF NoSkippedOffset
      <4>2. QED
        BY <1>d, <2>1, <3>2, <4>1 DEF PartitionInv, Fetched
    <3>3. QED
      BY <3>1, <3>2
  <2>3. QED
    BY <1>d, <2>1, <2>2, OtherPod, NothingCommitted DEF Rest
<1>29. QED
  BY <1>1, <1>2, <1>3, <1>4, <1>5, <1>6, <1>7, <1>8, <1>9, <1>10, <1>11,
     <1>12, <1>13, <1>14, <1>15, <1>16, <1>17, <1>18, <1>19, <1>20, <1>21,
     <1>22, <1>23, <1>24, <1>25, <1>26, <1>27, <1>28
  DEF Next, Progress, Failure, Coordinator

\* Nothing is committed before it ended, with any number of pods, partitions
\* and faults: DeliveryInv is inductive and contains NoSkippedOffset.
THEOREM CommittedHasEnded == Spec => []NoSkippedOffset
<1>1. DeliveryInv => NoSkippedOffset
  BY DEF DeliveryInv
<1>2. QED
  BY <1>1, InvInit, InvStep, PTL DEF Spec

-----------------------------------------------------------------------------
(***************************************************************************)
(* Claims                                                                  *)
(***************************************************************************)

\* No key is claimed, and no handler runs, before any pod starts.
LEMMA ClaimInit == Init => ClaimInv
BY BudgetAssumption
   DEF Init, ClaimInv, NoConcurrentHandling, Spent, FaultKinds

\* A step keeps the claims counted, and the handlers in possession of theirs,
\* when it wins nothing, forgets nothing and starts no handler.
LEMMA ClaimsKept ==
    ASSUME TypeInv, ClaimInv,
           budget' \in [FaultKinds -> Nat],
           \A f \in FaultKinds : budget'[f] <= budget[f],
           budget'["expire"] = budget["expire"],
           wins' = wins, claims \subseteq claims',
           \A k \in Pods : pc'[k] = "handle" => pc[k] = "handle" /\ at'[k] = at[k]
    PROVE  ClaimInv'
<1> USE BudgetAssumption
<1>1. Spent("expire")' = Spent("expire") /\ Spent("expire") \in Int
  BY DEF Spent, FaultKinds, TypeInv, TypeOK
<1>2. \A f \in FaultKinds : budget'[f] <= Budget[f]
  BY DEF ClaimInv, TypeInv, TypeOK
<1>3. \A e \in EventIds :
         wins'[e] <= Spent("expire")' + (IF e \in claims' THEN 1 ELSE 0)
  BY <1>1 DEF ClaimInv, TypeInv, TypeOK
<1>4. \A k \in Pods : Key(at[k])' = Key(at'[k])
  BY DEF Key
<1>5. Spent("expire")' = 0 =>
         \A k \in Pods : pc'[k] = "handle" => Key(at[k])' \in claims'
  BY <1>1, <1>4 DEF ClaimInv
<1>6. NoConcurrentHandling'
  BY <1>1, <1>4 DEF ClaimInv, NoConcurrentHandling
<1>7. QED
  BY <1>2, <1>3, <1>5, <1>6 DEF ClaimInv

\* Every step keeps the claims counted.
LEMMA ClaimStep == TypeInv /\ ClaimInv /\ [Next]_vars => ClaimInv'
<1> SUFFICES ASSUME TypeInv, ClaimInv, [Next]_vars PROVE ClaimInv'
  OBVIOUS
<1>a. TypeInv'
  BY TypeStep
<1>b. budget \in [FaultKinds -> Nat] /\ budget' \in [FaultKinds -> Nat] /\ pc \in [Pods -> PodStates]
  BY <1>a DEF TypeInv, TypeOK
<1> USE <1>b
<1>1. ASSUME NEW k \in Pods,
             Start(k) \/ LeaveLoop(k) \/ Shutdown(k)
      PROVE  ClaimInv'
  <2>1. /\ \A f \in FaultKinds : budget'[f] <= budget[f]
        /\ budget'["expire"] = budget["expire"]
        /\ wins' = wins /\ claims \subseteq claims'
    BY <1>1 DEF Start, LeaveLoop, Shutdown, DropBatch, redis, batch, FaultKinds
  <2>2. \A j \in Pods : pc'[j] = "handle" => pc[j] = "handle" /\ at'[j] = at[j]
    BY <1>1, <1>a DEF Start, LeaveLoop, Shutdown, Goto, DropBatch, redis, batch, TypeInv, TypeOK
  <2>3. QED
    BY <2>1, <2>2, ClaimsKept
<1>2. ASSUME NEW k \in Pods,
             Signal(k)
      PROVE  ClaimInv'
  <2>1. /\ \A f \in FaultKinds : budget'[f] <= budget[f]
        /\ budget'["expire"] = budget["expire"]
        /\ wins' = wins /\ claims \subseteq claims'
    BY <1>2 DEF Signal, redis, batch, Spend, FaultKinds
  <2>2. \A j \in Pods : pc'[j] = "handle" => pc[j] = "handle" /\ at'[j] = at[j]
    BY <1>2, <1>a DEF Signal, Goto, redis, batch, TypeInv, TypeOK
  <2>3. QED
    BY <2>1, <2>2, ClaimsKept
<1>3. ASSUME NEW k \in Pods,
             Kill(k)
      PROVE  ClaimInv'
  <2>1. /\ \A f \in FaultKinds : budget'[f] <= budget[f]
        /\ budget'["expire"] = budget["expire"]
        /\ wins' = wins /\ claims \subseteq claims'
    BY <1>3 DEF Kill, DropBatch, redis, Spend, FaultKinds
  <2>2. \A j \in Pods : pc'[j] = "handle" => pc[j] = "handle" /\ at'[j] = at[j]
    BY <1>3, <1>a DEF Kill, Goto, DropBatch, redis, TypeInv, TypeOK
  <2>3. QED
    BY <2>1, <2>2, ClaimsKept
<1>4. ASSUME NEW k \in Pods,
             Poll(k)
      PROVE  ClaimInv'
  <2>1. /\ \A f \in FaultKinds : budget'[f] <= budget[f]
        /\ budget'["expire"] = budget["expire"]
        /\ wins' = wins /\ claims \subseteq claims'
    BY <1>4 DEF Poll, redis, FaultKinds
  <2>2. \A j \in Pods : pc'[j] = "handle" => pc[j] = "handle" /\ at'[j] = at[j]
    BY <1>4, <1>a DEF Poll, Goto, redis, TypeInv, TypeOK
  <2>3. QED
    BY <2>1, <2>2, ClaimsKept
<1>5. ASSUME NEW k \in Pods,
             TakeMessage(k)
      PROVE  ClaimInv'
  <2>1. /\ \A f \in FaultKinds : budget'[f] <= budget[f]
        /\ budget'["expire"] = budget["expire"]
        /\ wins' = wins /\ claims \subseteq claims'
    BY <1>5 DEF TakeMessage, FirstStep, Crash, DropBatch, Upcoming, Pending, redis, FaultKinds
  <2>2. \A j \in Pods : pc'[j] = "handle" => pc[j] = "handle" /\ at'[j] = at[j]
    <3>1. CASE Crash(k, "loop")
      BY <3>1 DEF Crash, Goto, DropBatch, TypeInv, TypeOK
    <3>2. ASSUME NEW p \in Upcoming(k), Kind(<<p, next[k][p]>>) # "scalar",
                 pc' = [pc EXCEPT ![k] = FirstStep(Kind(<<p, next[k][p]>>))],
                 at' = [at EXCEPT ![k] = <<p, next[k][p]>>]
          PROVE  \A j \in Pods : pc'[j] = "handle" => pc[j] = "handle" /\ at'[j] = at[j]
      <4>1. <<p, next[k][p]>> \in Messages
        BY <3>2, TakenIsMessage DEF TypeInv
      <4>2. FirstStep(Kind(<<p, next[k][p]>>)) \in {"claim", "dlq"}
        BY <3>2, <4>1, RecordTypes DEF FirstStep, MessageKinds
      <4>3. QED
        BY <3>2, <4>2 DEF TypeInv, TypeOK
    <3>3. QED
      BY <1>5, <3>1, <3>2 DEF TakeMessage
  <2>3. QED
    BY <2>1, <2>2, ClaimsKept
<1>6. ASSUME NEW k \in Pods,
             ClaimDuplicate(k) \/ HandlerReturns(k) \/ HandlerGivesUp(k)
             \/ HandlerFails(k)
      PROVE  ClaimInv'
  <2>1. /\ \A f \in FaultKinds : budget'[f] <= budget[f]
        /\ budget'["expire"] = budget["expire"]
        /\ wins' = wins /\ claims \subseteq claims'
    BY <1>6 DEF ClaimDuplicate, HandlerReturns, HandlerGivesUp, HandlerFails, redis, batch, FaultKinds
  <2>2. \A j \in Pods : pc'[j] = "handle" => pc[j] = "handle" /\ at'[j] = at[j]
    BY <1>6, <1>a DEF ClaimDuplicate, HandlerReturns, HandlerGivesUp, HandlerFails, Goto, redis, batch, TypeInv, TypeOK
  <2>3. QED
    BY <2>1, <2>2, ClaimsKept
<1>7. ASSUME NEW k \in Pods,
             HandlerRetries(k)
      PROVE  ClaimInv'
  <2>1. /\ \A f \in FaultKinds : budget'[f] <= budget[f]
        /\ budget'["expire"] = budget["expire"]
        /\ wins' = wins /\ claims \subseteq claims'
    BY <1>7 DEF HandlerRetries, redis, batch, FaultKinds
  <2>2. \A j \in Pods : pc'[j] = "handle" => pc[j] = "handle" /\ at'[j] = at[j]
    BY <1>7, <1>a DEF HandlerRetries, Goto, redis, batch, TypeInv, TypeOK
  <2>3. QED
    BY <2>1, <2>2, ClaimsKept
<1>8. ASSUME NEW k \in Pods,
             CommitOk(k) \/ CommitRejected(k) \/ SendDlq(k) \/
             SettleOk(k)
      PROVE  ClaimInv'
  <2>1. /\ \A f \in FaultKinds : budget'[f] <= budget[f]
        /\ budget'["expire"] = budget["expire"]
        /\ wins' = wins /\ claims \subseteq claims'
    BY <1>8 DEF CommitOk, CommitRejected, SendDlq, SettleOk, redis, batch, FaultKinds
  <2>2. \A j \in Pods : pc'[j] = "handle" => pc[j] = "handle" /\ at'[j] = at[j]
    BY <1>8, <1>a DEF CommitOk, CommitRejected, SendDlq, SettleOk, Goto, redis, batch, TypeInv, TypeOK
  <2>3. QED
    BY <2>1, <2>2, ClaimsKept
<1>9. ASSUME NEW k \in Pods,
             SettleRejected(k)
      PROVE  ClaimInv'
  <2>1. /\ \A f \in FaultKinds : budget'[f] <= budget[f]
        /\ budget'["expire"] = budget["expire"]
        /\ wins' = wins /\ claims \subseteq claims'
    BY <1>9 DEF SettleRejected, Crash, DropBatch, redis, FaultKinds
  <2>2. \A j \in Pods : pc'[j] = "handle" => pc[j] = "handle" /\ at'[j] = at[j]
    BY <1>9, <1>a DEF SettleRejected, Goto, Crash, DropBatch, redis, TypeInv, TypeOK
  <2>3. QED
    BY <2>1, <2>2, ClaimsKept
<1>10. ASSUME NEW k \in Pods,
             ClaimError(k)
      PROVE  ClaimInv'
  <2>1. /\ \A f \in FaultKinds : budget'[f] <= budget[f]
        /\ budget'["expire"] = budget["expire"]
        /\ wins' = wins /\ claims \subseteq claims'
    BY <1>10 DEF ClaimError, Crash, DropBatch, redis, Spend, FaultKinds
  <2>2. \A j \in Pods : pc'[j] = "handle" => pc[j] = "handle" /\ at'[j] = at[j]
    BY <1>10, <1>a DEF ClaimError, Goto, Crash, DropBatch, redis, TypeInv, TypeOK
  <2>3. QED
    BY <2>1, <2>2, ClaimsKept
<1>11. ASSUME NEW k \in Pods,
             RetryHookError(k) \/ PollError(k)
      PROVE  ClaimInv'
  <2>1. /\ \A f \in FaultKinds : budget'[f] <= budget[f]
        /\ budget'["expire"] = budget["expire"]
        /\ wins' = wins /\ claims \subseteq claims'
    BY <1>11 DEF RetryHookError, PollError, Crash, DropBatch, redis, Spend, FaultKinds
  <2>2. \A j \in Pods : pc'[j] = "handle" => pc[j] = "handle" /\ at'[j] = at[j]
    BY <1>11, <1>a DEF RetryHookError, PollError, Goto, Crash, DropBatch, redis, TypeInv, TypeOK
  <2>3. QED
    BY <2>1, <2>2, ClaimsKept
<1>12. ASSUME NEW k \in Pods,
             DlqError(k)
      PROVE  ClaimInv'
  <2>1. /\ \A f \in FaultKinds : budget'[f] <= budget[f]
        /\ budget'["expire"] = budget["expire"]
        /\ wins' = wins /\ claims \subseteq claims'
    BY <1>12 DEF DlqError, Crash, DropBatch, redis, Spend, FaultKinds
  <2>2. \A j \in Pods : pc'[j] = "handle" => pc[j] = "handle" /\ at'[j] = at[j]
    BY <1>12, <1>a DEF DlqError, Goto, Crash, DropBatch, redis, TypeInv, TypeOK
  <2>3. QED
    BY <2>1, <2>2, ClaimsKept
<1>13. ASSUME NEW k \in Pods,
             SettleError(k)
      PROVE  ClaimInv'
  <2>1. /\ \A f \in FaultKinds : budget'[f] <= budget[f]
        /\ budget'["expire"] = budget["expire"]
        /\ wins' = wins /\ claims \subseteq claims'
    BY <1>13 DEF SettleError, Crash, DropBatch, redis, Spend, FaultKinds
  <2>2. \A j \in Pods : pc'[j] = "handle" => pc[j] = "handle" /\ at'[j] = at[j]
    BY <1>13, <1>a DEF SettleError, Goto, Crash, DropBatch, redis, TypeInv, TypeOK
  <2>3. QED
    BY <2>1, <2>2, ClaimsKept
<1>14. ASSUME NEW k \in Pods,
             CommitError(k)
      PROVE  ClaimInv'
  <2>1. /\ \A f \in FaultKinds : budget'[f] <= budget[f]
        /\ budget'["expire"] = budget["expire"]
        /\ wins' = wins /\ claims \subseteq claims'
    BY <1>14 DEF CommitError, redis, batch, Spend, FaultKinds
  <2>2. \A j \in Pods : pc'[j] = "handle" => pc[j] = "handle" /\ at'[j] = at[j]
    BY <1>14, <1>a DEF CommitError, Goto, redis, batch, TypeInv, TypeOK
  <2>3. QED
    BY <2>1, <2>2, ClaimsKept
<1>20. ASSUME NEW k \in Pods, ClaimNew(k) PROVE ClaimInv'
  <2> DEFINE e == Key(at[k])
  <2>1. /\ pc[k] = "claim" /\ pc' = [pc EXCEPT ![k] = "handle"]
        /\ e \notin claims /\ claims' = claims \cup {e}
        /\ wins' = [wins EXCEPT ![e] = @ + 1]
        /\ at' = at /\ budget' = budget
    BY <1>20 DEF ClaimNew, Goto, batch
  <2>2. e \in EventIds
    BY <2>1, RecordTypes DEF TypeInv, Busy
  <2>3. Spent("expire")' = Spent("expire") /\ Spent("expire") \in Int
    BY <2>1, BudgetAssumption DEF Spent, FaultKinds
  <2>4. \A d \in EventIds :
           wins'[d] <= Spent("expire")' + (IF d \in claims' THEN 1 ELSE 0)
    <3>1. wins \in [EventIds -> Nat]
      BY DEF TypeInv, TypeOK
    <3>2. \A d \in EventIds : wins[d] <= Spent("expire") + (IF d \in claims THEN 1 ELSE 0)
      BY DEF ClaimInv
    <3>3. wins'[e] <= Spent("expire") + 1
      BY <2>1, <2>2, <2>3, <3>1, <3>2
    <3>4. ASSUME NEW d \in EventIds, d # e
          PROVE  wins'[d] <= Spent("expire") + (IF d \in claims' THEN 1 ELSE 0)
      BY <2>1, <3>1, <3>2, <3>4
    <3>5. QED
      BY <2>1, <2>3, <3>3, <3>4
  <2>5. \A j \in Pods : Key(at[j])' = Key(at[j])
    BY <2>1 DEF Key
  <2>6. \A j \in Pods : pc'[j] = "handle" <=> pc[j] = "handle" \/ j = k
    BY <2>1
  <2>7. Spent("expire")' = 0 =>
           \A j \in Pods : pc'[j] = "handle" => Key(at[j])' \in claims'
    BY <2>1, <2>3, <2>5, <2>6 DEF ClaimInv
  <2>8. NoConcurrentHandling'
    BY <2>1, <2>3, <2>5, <2>6 DEF ClaimInv, NoConcurrentHandling
  <2>9. \A f \in FaultKinds : budget'[f] <= Budget[f]
    BY <2>1 DEF ClaimInv
  <2>10. QED
    BY <2>4, <2>7, <2>8, <2>9 DEF ClaimInv
<1>21. ASSUME NEW d \in EventIds, Expire(d) PROVE ClaimInv'
  <2>1. /\ budget["expire"] > 0 /\ budget' = [budget EXCEPT !["expire"] = @ - 1]
        /\ d \in claims /\ claims' = claims \ {d} /\ wins' = wins
    BY <1>21 DEF Expire, Spend
  <2>2. /\ Spent("expire")' = Spent("expire") + 1
        /\ Spent("expire") \in Nat
        /\ \A f \in FaultKinds : budget'[f] <= Budget[f]
    BY <2>1, BudgetAssumption DEF Spent, FaultKinds, ClaimInv
  <2>3. \A e \in EventIds :
           wins'[e] <= Spent("expire")' + (IF e \in claims' THEN 1 ELSE 0)
    BY <2>1, <2>2 DEF ClaimInv, TypeInv, TypeOK
  <2>4. Spent("expire")' # 0
    BY <2>2
  <2>5. QED
    BY <2>2, <2>3, <2>4 DEF ClaimInv, NoConcurrentHandling
<1>22. CASE Rebalance
  <2>1. /\ \A f \in FaultKinds : budget'[f] <= budget[f]
        /\ budget'["expire"] = budget["expire"]
        /\ wins' = wins /\ claims \subseteq claims'
        /\ pc' = pc /\ at' = at
    BY <1>22 DEF Rebalance, Spend, FaultKinds, redis, pod, batch
  <2>2. QED
    BY <2>1, ClaimsKept
<1>23. ASSUME Assign \/ (\E p \in Partitions : ResolvePosition(p)) \/ UNCHANGED vars
       PROVE  ClaimInv'
  <2>1. /\ \A f \in FaultKinds : budget'[f] <= budget[f]
        /\ budget'["expire"] = budget["expire"]
        /\ wins' = wins /\ claims \subseteq claims'
        /\ pc' = pc /\ at' = at
    BY <1>23 DEF Assign, ResolvePosition, FaultKinds, vars, redis, pod, batch
  <2>2. QED
    BY <2>1, ClaimsKept
<1>24. QED
  BY <1>1, <1>2, <1>3, <1>4, <1>5, <1>6, <1>7, <1>8, <1>9, <1>10, <1>11, <1>12, <1>13, <1>14, <1>20, <1>21, <1>22, <1>23
  DEF Next, Progress, Failure, Coordinator

\* A key is won once, plus once for each expired TTL, however often messages
\* are redelivered and pods restarted.
THEOREM HandledOncePerClaim == Spec => []HandlerOncePerClaim
<1>1. TypeInv /\ ClaimInv => HandlerOncePerClaim
  <2>1. TypeInv => Spent("expire") \in Int
    BY BudgetAssumption DEF TypeInv, TypeOK, Spent, FaultKinds
  <2>2. QED
    BY <2>1 DEF ClaimInv, HandlerOncePerClaim, TypeInv, TypeOK
<1>2. QED
  BY <1>1, TypeInit, TypeStep, ClaimInit, ClaimStep, PTL DEF Spec

\* As long as no TTL ran out, no event is handled by two pods at once.
THEOREM HandledByOnePod == Spec => []NoConcurrentHandling
<1>1. ClaimInv => NoConcurrentHandling
  BY DEF ClaimInv
<1>2. QED
  BY <1>1, TypeInit, TypeStep, ClaimInit, ClaimStep, PTL DEF Spec

-----------------------------------------------------------------------------
(***************************************************************************)
(* ConsumerGroup implements Delivery                                       *)
(***************************************************************************)

\* The group begins where Delivery begins.
LEMMA OutsideInit == Init => Outside!Init
BY DEF Init, Outside!Init

\* Both modules mean the same by a message that ended.
LEMMA EndedIsAccountedFor == \A m : Outside!Ended(m) <=> AccountedFor(m)
BY DEF Outside!Ended, AccountedFor, Kind, Outside!Kind

\* A commit is an Acknowledge: everything up to the message has ended.
LEMMA CommitAcknowledges ==
    ASSUME DeliveryInv, NEW k \in Pods, Busy(k), AccountedFor(at[k]),
           RecordCommit(k), UNCHANGED <<redis, outcomes>>
    PROVE  Outside!Next
<1> DEFINE q == at[k][1]
<1>1. /\ at[k] \in Messages /\ q \in Partitions
      /\ at[k] = <<q, at[k][2]>> /\ at[k][2] \in Nat
      /\ next[k][q] = at[k][2] + 1
  BY MessageParts, EndsInNat DEF DeliveryInv, PodInv
<1>2. \A o \in 0 .. next[k][q] - 1 : AccountedFor(<<q, o>>) \/ at[k] = <<q, o>>
  BY <1>1 DEF DeliveryInv, PodInv
<1>3. \A o \in 0 .. at[k][2] : Outside!Ended(<<q, o>>)
  BY <1>1, <1>2, EndedIsAccountedFor
<1>4. Outside!Acknowledge(q, at[k][2])
  BY <1>3 DEF Outside!Acknowledge, RecordCommit, redis, outcomes
<1>5. at[k] \in Outside!Messages
  BY <1>1 DEF Messages, Outside!Messages, Offsets, Outside!Offsets
<1>6. QED
  BY <1>4, <1>5 DEF Outside!Next

\* Every step of the group is a step of Delivery, or is not seen from outside.
LEMMA OutsideStep ==
    DeliveryInv /\ [Next]_vars => [Outside!Next]_(Outside!outside)
<1> SUFFICES ASSUME DeliveryInv, [Next]_vars
             PROVE  Outside!Next \/ UNCHANGED Outside!outside
  OBVIOUS
<1>a. TypeInv
  BY DEF DeliveryInv, TypeInv, PodInv
<1>b. \A k \in Pods : PodInv(k)
  BY DEF DeliveryInv
<1>c. ASSUME NEW k \in Pods, Busy(k)
      PROVE  at[k] \in Outside!Messages /\ Key(at[k]) \in EventIds
  BY <1>a, <1>c, RecordTypes
     DEF TypeInv, Messages, Outside!Messages, Offsets, Outside!Offsets
<1>d. \A m : Outside!Kind(m) = Kind(m) /\ Outside!Key(m) = Key(m)
  BY DEF Kind, Key, Outside!Kind, Outside!Key
<1>e. ASSUME UNCHANGED <<committed, claims, wins, dlq, done, skipped>>
      PROVE  UNCHANGED Outside!outside
  BY <1>e DEF Outside!outside
<1>1. ASSUME NEW k \in Pods, ClaimNew(k) PROVE Outside!Next
  <2>1. Key(at[k]) \in EventIds
    BY <1>1, <1>c DEF ClaimNew, Goto, Busy
  <2>2. Outside!Win(Key(at[k]))
    BY <1>1 DEF ClaimNew, Outside!Win, kafka, outcomes
  <2>3. QED
    BY <2>1, <2>2 DEF Outside!Next
<1>2. ASSUME NEW k \in Pods, ClaimDuplicate(k) PROVE Outside!Next
  <2>1. at[k] \in Outside!Messages /\ Kind(at[k]) = "event"
    BY <1>2, <1>b, <1>c DEF ClaimDuplicate, Goto, Busy, PodInv
  <2>2. Outside!Skip(at[k])
    BY <1>2, <1>d, <2>1 DEF ClaimDuplicate, Outside!Skip, kafka, redis
  <2>3. QED
    BY <2>1, <2>2 DEF Outside!Next
<1>3. ASSUME NEW k \in Pods, ClaimError(k)
      PROVE  Outside!Next \/ UNCHANGED Outside!outside
  <2>1. Key(at[k]) \in EventIds
    BY <1>3, <1>c DEF ClaimError, Crash, Goto, Busy
  <2>2. CASE claims' = claims
    BY <1>3, <1>e, <2>2 DEF ClaimError, kafka, outcomes
  <2>3. CASE claims' # claims
    <3>1. Outside!WinUnnoticed(Key(at[k]))
      BY <1>3, <2>3 DEF ClaimError, Outside!WinUnnoticed, kafka, outcomes
    <3>2. QED
      BY <2>1, <3>1 DEF Outside!Next
  <2>4. QED
    BY <2>2, <2>3
<1>4. ASSUME NEW e \in EventIds, Expire(e) PROVE Outside!Next
  BY <1>4 DEF Expire, Outside!Next, Outside!Forget, kafka, outcomes
<1>5. ASSUME NEW k \in Pods, HandlerReturns(k) PROVE Outside!Next
  <2>1. /\ at[k] \in Outside!Messages
        /\ Kind(at[k]) = "event" /\ wins[Key(at[k])] > 0
    BY <1>5, <1>b, <1>c DEF HandlerReturns, Goto, Busy, PodInv
  <2>2. Outside!Handle(at[k])
    BY <1>5, <1>d, <2>1 DEF HandlerReturns, Outside!Handle, kafka, redis
  <2>3. QED
    BY <2>1, <2>2 DEF Outside!Next
<1>6. ASSUME NEW k \in Pods, SendDlq(k) \/ DlqError(k)
      PROVE  Outside!Next \/ UNCHANGED Outside!outside
  <2>1. /\ at[k] \in Outside!Messages
        /\ Kind(at[k]) \in {"event", "malformed"}
        /\ Kind(at[k]) = "event" => wins[Key(at[k])] > 0
    BY <1>6, <1>b, <1>c DEF SendDlq, DlqError, Crash, Goto, Busy, PodInv
  <2>2. /\ dlq' = dlq \cup {at[k]} \/ dlq' = dlq
        /\ UNCHANGED <<committed, claims, wins, done, skipped>>
    BY <1>6 DEF SendDlq, DlqError, kafka, redis
  <2>3. CASE dlq' = dlq
    BY <1>e, <2>2, <2>3
  <2>4. CASE dlq' = dlq \cup {at[k]}
    <3>1. Outside!DeadLetter(at[k])
      BY <1>d, <2>1, <2>2, <2>4 DEF Outside!DeadLetter
    <3>2. QED
      BY <2>1, <3>1 DEF Outside!Next
  <2>5. QED
    BY <2>2, <2>3, <2>4
<1>7. ASSUME NEW k \in Pods,
             CommitOk(k) \/ CommitError(k) \/ SettleOk(k) \/ SettleError(k)
      PROVE  Outside!Next \/ UNCHANGED Outside!outside
  <2>1. /\ pc[k] \in {"commit", "settle"} /\ Busy(k)
        /\ RecordCommit(k) \/ UNCHANGED committed
        /\ UNCHANGED <<redis, outcomes>>
    BY <1>7 DEF CommitOk, CommitError, SettleOk, SettleError, Crash, Goto, Busy
  <2>2. AccountedFor(at[k])
    BY <1>b, <2>1 DEF PodInv
  <2>3. CASE RecordCommit(k)
    BY <2>1, <2>2, <2>3, CommitAcknowledges
  <2>4. CASE UNCHANGED committed
    BY <1>e, <2>1, <2>4 DEF redis, outcomes
  <2>5. QED
    BY <2>1, <2>3, <2>4
<1>8. ASSUME NEW k \in Pods,
             \/ Start(k) \/ Signal(k) \/ Kill(k) \/ LeaveLoop(k) \/ Shutdown(k)
             \/ Poll(k) \/ TakeMessage(k) \/ HandlerRetries(k) \/ HandlerGivesUp(k)
             \/ HandlerFails(k) \/ CommitRejected(k) \/ SettleRejected(k)
             \/ RetryHookError(k) \/ PollError(k)
      PROVE  UNCHANGED Outside!outside
  <2>1. UNCHANGED <<committed, redis, outcomes>>
    BY <1>8 DEF Start, Signal, Kill, LeaveLoop, Shutdown, LeaveGroup, Poll, TakeMessage,
           HandlerRetries, HandlerGivesUp, HandlerFails, CommitRejected,
           SettleRejected, RetryHookError, PollError, kafka
  <2>2. QED
    BY <1>e, <2>1 DEF redis, outcomes
<1>9. CASE Coordinator \/ UNCHANGED vars
  <2>1. UNCHANGED <<committed, redis, outcomes>>
    BY <1>9 DEF Coordinator, Rebalance, Assign, ResolvePosition, vars, kafka
  <2>2. QED
    BY <1>e, <2>1 DEF redis, outcomes
<1>10. QED
  BY <1>1, <1>2, <1>3, <1>4, <1>5, <1>6, <1>7, <1>8, <1>9
  DEF Next, Progress, Failure

\* The group implements Delivery: whatever pods crash and whatever partitions
\* move, the outside sees only wins, endings and acknowledgements in order.
THEOREM GroupImplementsDelivery == Spec => ImplementsDelivery
<1>1. DeliveryInv /\ [Next]_vars => [Outside!Next]_(Outside!outside)
  BY OutsideStep
<1>2. QED
  BY <1>1, OutsideInit, InvInit, InvStep, PTL
  DEF Spec, ImplementsDelivery, Outside!Spec

-----------------------------------------------------------------------------
(***************************************************************************)
(* Lost events.                                                            *)
(*                                                                         *)
(* An event is lost when its claim or its duplicate is all that is left of *)
(* it.  LossInv is inductive: every step either adds nothing to Lost, or   *)
(* takes away what the claim, the handler or the DLQ send of one pod had   *)
(* in hand, and then a kill or a failed request is spent.                  *)
(***************************************************************************)

LossInv ==
    /\ IsFiniteSet(Lost)
    /\ LossBounded

\* What was spent of each fault is an integer, before and after a step.
LEMMA SpentType ==
    ASSUME TypeInv, TypeInv', NEW f \in FaultKinds
    PROVE  Spent(f) \in Int /\ Spent(f)' \in Int
BY BudgetAssumption DEF TypeInv, TypeOK, Spent

\* A step that loses nothing keeps the bound, whatever it spends.
LEMMA NothingLost ==
    ASSUME TypeInv, TypeInv', LossInv, Lost' \subseteq Lost,
           \A f \in FaultKinds : budget'[f] <= budget[f]
    PROVE  LossInv'
<1>1. /\ IsFiniteSet(Lost')
      /\ Cardinality(Lost') \in Nat /\ Cardinality(Lost) \in Nat
      /\ Cardinality(Lost') <= Cardinality(Lost)
  BY NoneMore DEF LossInv
<1>2. \A f \in FaultKinds : budget[f] \in Nat /\ budget'[f] \in Nat /\ Budget[f] \in Nat
  BY BudgetAssumption DEF TypeInv, TypeOK
<1>3. Spent("kill")' >= Spent("kill") /\ Spent("error")' >= Spent("error")
  BY <1>2 DEF Spent, FaultKinds
<1>4. \A f \in {"kill", "error"} : Spent(f) \in Int /\ Spent(f)' \in Int
  BY SpentType DEF FaultKinds
<1>5. Cardinality(Lost) <= Spent("kill") + Spent("error")
  BY DEF LossInv, LossBounded
<1>6. Cardinality(Lost') <= Spent("kill")' + Spent("error")'
  BY <1>1, <1>3, <1>4, <1>5
<1>7. QED
  BY <1>1, <1>6 DEF LossInv, LossBounded

\* A step that spends a kill or a failed request may lose one event.
LEMMA OneLost ==
    ASSUME TypeInv, TypeInv', LossInv, NEW e, Lost' \subseteq Lost \cup {e},
           Spend("kill") \/ Spend("error")
    PROVE  LossInv'
<1>1. /\ IsFiniteSet(Lost')
      /\ Cardinality(Lost') \in Nat /\ Cardinality(Lost) \in Nat
      /\ Cardinality(Lost') <= Cardinality(Lost) + 1
  BY OneMore DEF LossInv
<1>2. Spent("kill")' + Spent("error")' = Spent("kill") + Spent("error") + 1
  <2>1. /\ budget["kill"] \in Nat /\ budget["error"] \in Nat
        /\ Budget["kill"] \in Nat /\ Budget["error"] \in Nat
        /\ budget \in [FaultKinds -> Nat]
    BY BudgetAssumption DEF TypeInv, TypeOK, FaultKinds
  <2>2. \/ budget'["kill"] = budget["kill"] - 1 /\ budget'["error"] = budget["error"]
        \/ budget'["error"] = budget["error"] - 1 /\ budget'["kill"] = budget["kill"]
    BY <2>1 DEF Spend, FaultKinds
  <2>3. QED
    BY <2>1, <2>2 DEF Spent
<1>4. \A f \in {"kill", "error"} : Spent(f) \in Int /\ Spent(f)' \in Int
  BY SpentType DEF FaultKinds
<1>5. Cardinality(Lost) <= Spent("kill") + Spent("error")
  BY DEF LossInv, LossBounded
<1>6. Cardinality(Lost') <= Spent("kill")' + Spent("error")'
  BY <1>1, <1>2, <1>4, <1>5
<1>7. QED
  BY <1>1, <1>6 DEF LossInv, LossBounded

\* What one step may resolve and what it may leave unresolved: nothing new is
\* claimed or dropped except perhaps d, and everything that was resolved by a
\* message other than one of key d still is.
LEMMA LostOnly ==
    ASSUME NEW d,
           \A e \in claims' : e \in claims \/ e = d,
           \A m \in skipped' : m \in skipped \/ Key(m) = d,
           \A m \in done \cup dlq \cup InFlight :
               m \in done' \cup dlq' \cup InFlight' \/ Key(m) = d
    PROVE  Lost' \subseteq Lost \cup {d}
<1> SUFFICES ASSUME NEW e \in Lost', e # d PROVE e \in Lost
  OBVIOUS
<1>1. \A m : Key(m)' = Key(m) /\ Kind(m)' = Kind(m)
  BY DEF Key, Kind
<1>2. e \in EventIds /\ ~Resolved(e)'
  BY DEF Lost
<1>3. e \in claims \/ \E m \in skipped : Key(m) = e
  BY DEF Lost, Key
<1>4. ~Resolved(e)
  BY <1>2 DEF Resolved, Key, Kind
<1>5. QED
  BY <1>2, <1>3, <1>4 DEF Lost

\* Nothing is lost when nothing new is claimed or dropped unresolved, and what
\* was resolved stays so.
LEMMA LostNone ==
    ASSUME \A e \in claims' : e \in claims \/ Resolved(e)',
           \A m \in skipped' : m \in skipped \/ Key(m) \in claims,
           done \cup dlq \cup InFlight \subseteq done' \cup dlq' \cup InFlight'
    PROVE  Lost' \subseteq Lost
<1> SUFFICES ASSUME NEW e \in Lost' PROVE e \in Lost
  OBVIOUS
<1>2. e \in EventIds /\ ~Resolved(e)'
  BY DEF Lost
<1>3. e \in claims \/ \E m \in skipped : Key(m) = e
  BY <1>2 DEF Lost, Key
<1>4. ~Resolved(e)
  BY <1>2 DEF Resolved, Key, Kind
<1>5. QED
  BY <1>2, <1>3, <1>4 DEF Lost

\* A step of pod k moves no other pod.
Alone(k) == \A j \in Pods \ {k} : pc'[j] = pc[j] /\ at'[j] = at[j]

\* A step of one pod takes at most its own message out of flight.
LEMMA FlightOfOthers ==
    ASSUME NEW k \in Pods, Alone(k)
    PROVE  \A m \in InFlight : m \in InFlight' \/ (m = at[k] /\ pc[k] \in {"handle", "dlq"})
BY DEF Alone, InFlight

\* A step of one pod that keeps its own message in flight, or finishes it.
LEMMA NothingInHandLost ==
    ASSUME TypeInv, TypeInv', LossInv, NEW k \in Pods, Alone(k), Grows,
           claims' \subseteq claims, skipped' = skipped,
           pc[k] \in {"handle", "dlq"} => at[k] \in done' \cup dlq' \cup InFlight',
           \A f \in FaultKinds : budget'[f] <= budget[f]
    PROVE  LossInv'
<1>1. done \cup dlq \cup InFlight \subseteq done' \cup dlq' \cup InFlight'
  BY FlightOfOthers DEF Grows
<1>2. Lost' \subseteq Lost
  BY <1>1, LostNone
<1>3. QED
  BY <1>2, NothingLost

\* A step of one pod that ends in a crash, and may lose the message in hand.
LEMMA MessageInHandLost ==
    ASSUME TypeInv, TypeInv', LossInv, NEW k \in Pods, Alone(k), Grows,
           claims' \subseteq claims \cup {Key(at[k])}, skipped' = skipped,
           Spend("kill") \/ Spend("error")
    PROVE  LossInv'
<1>1. \A m \in done \cup dlq \cup InFlight :
         m \in done' \cup dlq' \cup InFlight' \/ Key(m) = Key(at[k])
  BY FlightOfOthers DEF Grows
<1>2. Lost' \subseteq Lost \cup {Key(at[k])}
  BY <1>1, LostOnly
<1>3. QED
  BY <1>2, OneLost

\* Spending a fault gives none back.
LEMMA SpendLess ==
    ASSUME TypeInv, NEW f \in FaultKinds, Spend(f)
    PROVE  \A g \in FaultKinds : budget'[g] <= budget[g]
BY DEF TypeInv, TypeOK, Spend

\* Before the first step nothing is lost.
LEMMA LossInit == Init => LossInv
<1> SUFFICES ASSUME Init PROVE LossInv
  OBVIOUS
<1>1. Lost = {}
  BY DEF Init, Lost
<1>2. Spent("kill") = 0 /\ Spent("error") = 0
  BY BudgetAssumption DEF Init, Spent, FaultKinds
<1>3. QED
  BY <1>1, <1>2, FS_EmptySet DEF LossInv, LossBounded

\* Every step keeps the number of lost events within what was spent.
LEMMA LossStep == TypeInv /\ TypeInv' /\ DeliveryInv /\ LossInv /\ [Next]_vars => LossInv'
<1> SUFFICES ASSUME TypeInv, TypeInv', DeliveryInv, LossInv, [Next]_vars PROVE LossInv'
  OBVIOUS
<1>a. Grows
  BY StepGrows
<1>b. /\ pc \in [Pods -> PodStates]
      /\ at \in [Pods -> Messages \cup {NoMessage}]
      /\ budget \in [FaultKinds -> Nat]
  BY DEF TypeInv, TypeOK
<1>c. {"kill", "signal", "rebalance", "error", "expire"} \subseteq FaultKinds
  BY DEF FaultKinds
<1>1. ASSUME NEW k \in Pods,
             \/ Start(k) \/ LeaveLoop(k) \/ Shutdown(k) \/ Poll(k) \/ TakeMessage(k)
             \/ CommitOk(k) \/ CommitRejected(k) \/ SettleOk(k) \/ SettleRejected(k)
      PROVE  LossInv'
  <2>1. /\ Alone(k) /\ pc[k] \notin {"handle", "dlq"}
        /\ claims' = claims /\ skipped' = skipped /\ budget' = budget
    BY <1>1, <1>b DEF Start, LeaveLoop, Shutdown, Poll, TakeMessage, CommitOk, CommitRejected,
       SettleOk, SettleRejected, Crash, DropBatch, Goto, Alone, batch, redis, outcomes
  <2>2. \A f \in FaultKinds : budget'[f] <= budget[f]
    BY <1>b, <2>1
  <2>3. QED
    BY <1>a, <2>1, <2>2, NothingInHandLost
<1>2. ASSUME NEW k \in Pods, PollError(k) \/ CommitError(k) \/ SettleError(k)
      PROVE  LossInv'
  <2>1. /\ Alone(k) /\ pc[k] \notin {"handle", "dlq"}
        /\ claims' = claims /\ skipped' = skipped /\ Spend("error")
    BY <1>2, <1>b DEF PollError, CommitError, SettleError, Crash, DropBatch, Goto, Alone,
       batch, redis, outcomes
  <2>2. \A f \in FaultKinds : budget'[f] <= budget[f]
    BY <1>c, <2>1, SpendLess
  <2>3. QED
    BY <1>a, <2>1, <2>2, NothingInHandLost
<1>3. ASSUME NEW k \in Pods, HandlerRetries(k) \/ HandlerGivesUp(k) \/ HandlerFails(k)
      PROVE  LossInv'
  <2>1. /\ Alone(k) /\ pc'[k] \in {"handle", "dlq"} /\ at'[k] = at[k]
        /\ claims' = claims /\ skipped' = skipped /\ budget' = budget
    BY <1>3, <1>b DEF HandlerRetries, HandlerGivesUp, HandlerFails, Goto, Alone, batch,
       redis, outcomes
  <2>2. at[k] \in InFlight'
    BY <2>1 DEF InFlight
  <2>3. \A f \in FaultKinds : budget'[f] <= budget[f]
    BY <1>b, <2>1
  <2>4. QED
    BY <1>a, <2>1, <2>2, <2>3, NothingInHandLost
<1>4. ASSUME NEW k \in Pods, HandlerReturns(k) \/ SendDlq(k)
      PROVE  LossInv'
  <2>1. /\ Alone(k) /\ at[k] \in done' \cup dlq'
        /\ claims' = claims /\ skipped' = skipped /\ budget' = budget
    BY <1>4, <1>b DEF HandlerReturns, SendDlq, Goto, Alone, batch, redis
  <2>2. \A f \in FaultKinds : budget'[f] <= budget[f]
    BY <1>b, <2>1
  <2>3. QED
    BY <1>a, <2>1, <2>2, NothingInHandLost
<1>5. ASSUME NEW k \in Pods, RetryHookError(k) \/ ClaimError(k) \/ DlqError(k) \/ Kill(k)
      PROVE  LossInv'
  <2>1. /\ Alone(k) /\ claims' \subseteq claims \cup {Key(at[k])} /\ skipped' = skipped
        /\ Spend("kill") \/ Spend("error")
    BY <1>5, <1>b DEF RetryHookError, ClaimError, DlqError, Kill, Crash, DropBatch, Goto,
       Alone, redis, outcomes
  <2>2. QED
    BY <1>a, <2>1, MessageInHandLost
<1>6. ASSUME NEW k \in Pods, ClaimNew(k)
      PROVE  LossInv'
  <2>1. /\ Alone(k) /\ pc[k] = "claim" /\ pc'[k] = "handle" /\ at'[k] = at[k]
        /\ claims' = claims \cup {Key(at[k])} /\ skipped' = skipped /\ budget' = budget
    BY <1>6, <1>b DEF ClaimNew, Goto, Alone, batch, outcomes
  <2>2. Kind(at[k]) = "event"
    BY <2>1 DEF DeliveryInv, PodInv
  <2>3. at[k] \in InFlight'
    BY <2>1 DEF InFlight
  <2>4. Resolved(Key(at[k]))'
    BY <2>1, <2>2, <2>3 DEF Resolved, Kind, Key
  <2>5. done \cup dlq \cup InFlight \subseteq done' \cup dlq' \cup InFlight'
    BY <1>a, <2>1, FlightOfOthers DEF Grows
  <2>6. \A e \in claims' : e \in claims \/ Resolved(e)'
    BY <2>1, <2>4
  <2>7. Lost' \subseteq Lost
    BY <2>1, <2>5, <2>6, LostNone
  <2>8. \A f \in FaultKinds : budget'[f] <= budget[f]
    BY <1>b, <2>1
  <2>9. QED
    BY <2>7, <2>8, NothingLost
<1>7. ASSUME NEW k \in Pods, ClaimDuplicate(k)
      PROVE  LossInv'
  <2>1. /\ Alone(k) /\ pc[k] = "claim"
        /\ claims' = claims /\ budget' = budget
        /\ Key(at[k]) \in claims /\ skipped' = skipped \cup {at[k]}
    BY <1>7, <1>b DEF ClaimDuplicate, Goto, Alone, batch, redis
  <2>2. done \cup dlq \cup InFlight \subseteq done' \cup dlq' \cup InFlight'
    BY <1>a, <2>1, FlightOfOthers DEF Grows
  <2>3. Lost' \subseteq Lost
    BY <2>1, <2>2, LostNone
  <2>4. \A f \in FaultKinds : budget'[f] <= budget[f]
    BY <1>b, <2>1
  <2>5. QED
    BY <2>3, <2>4, NothingLost
<1>8. ASSUME /\ UNCHANGED <<pc, at, skipped>>
             /\ claims' \subseteq claims
             /\ \A f \in FaultKinds : budget'[f] <= budget[f]
      PROVE  LossInv'
  <2>1. done \cup dlq \cup InFlight \subseteq done' \cup dlq' \cup InFlight'
    BY <1>8, <1>a DEF Grows, InFlight
  <2>2. Lost' \subseteq Lost
    BY <1>8, <2>1, LostNone
  <2>3. QED
    BY <1>8, <2>2, NothingLost
<1>9. ASSUME NEW k \in Pods, Signal(k)
      PROVE  LossInv'
  <2>1. \A f \in FaultKinds : budget'[f] <= budget[f]
    BY <1>9, <1>c, SpendLess DEF Signal
  <2>2. QED
    BY <1>9, <1>8, <2>1 DEF Signal, batch, redis, outcomes
<1>10. ASSUME NEW e \in EventIds, Expire(e)
      PROVE  LossInv'
  <2>1. \A f \in FaultKinds : budget'[f] <= budget[f]
    BY <1>10, <1>c, SpendLess DEF Expire
  <2>2. QED
    BY <1>10, <1>8, <2>1 DEF Expire, pod, batch, redis, outcomes
<1>11. CASE Rebalance
  <2>1. \A f \in FaultKinds : budget'[f] <= budget[f]
    BY <1>11, <1>c, SpendLess DEF Rebalance
  <2>2. QED
    BY <1>11, <1>8, <2>1 DEF Rebalance, pod, batch, redis, outcomes
<1>12. ASSUME Assign \/ (\E p \in Partitions : ResolvePosition(p)) \/ UNCHANGED vars
       PROVE  LossInv'
  <2>1. UNCHANGED <<pc, at, skipped, claims, budget>>
    BY <1>12 DEF Assign, ResolvePosition, vars, pod, batch, redis, outcomes
  <2>2. \A f \in FaultKinds : budget'[f] <= budget[f]
    BY <1>b, <2>1
  <2>3. QED
    BY <1>8, <2>1, <2>2
<1>13. QED
  BY <1>1, <1>2, <1>3, <1>4, <1>5, <1>6, <1>7, <1>9, <1>10, <1>11, <1>12
  DEF Next, Progress, Failure, Coordinator

\* One crash or one failed request loses at most one event, and nothing else
\* loses any: however many pods there are and however they are interleaved.
THEOREM EachFaultLosesOne == Spec => []LossBounded
<1>1. LossInv => LossBounded
  BY DEF LossInv
<1>2. TypeInv /\ [Next]_vars => TypeInv'
  BY TypeStep
<1>3. QED
  BY <1>1, <1>2, TypeInit, InvInit, InvStep, LossInit, LossStep, PTL DEF Spec

-----------------------------------------------------------------------------
(***************************************************************************)
(* Spurious dead letters.                                                  *)
(*                                                                         *)
(* An event that was handled and dead-lettered has been doomed for a       *)
(* while.  Three sets count what is paid for already: the doomed events,   *)
(* the keys that expired after a win (their event may run again), and the  *)
(* work that a pod goes on with although its partition was taken from it   *)
(* (its commit will be rejected).  A step adds to them only what it spends *)
(* a fault for, or moves one unit from one set to another.                 *)
(***************************************************************************)

\* m was handled and dead-lettered, or nothing but luck prevents it.
Doomed(m) ==
    \/ m \in done /\ m \in dlq
    \/ \E k \in Pods : at[k] = m /\ pc[k] \in {"handle", "dlq"} /\ m \in done
    \/ \E k \in Pods : at[k] = m /\ pc[k] = "handle" /\ m \in dlq
    \/ \E j, k \in Pods :
         /\ j # k /\ at[j] = m /\ at[k] = m
         /\ pc[j] = "handle" /\ pc[k] \in {"handle", "dlq"}

DoomedEvents == {m \in Messages : Kind(m) = "event" /\ Doomed(m)}

\* Keys that were won and are free again.
Freed == {e \in EventIds : e \notin claims /\ wins[e] > 0}

\* Pod k holds messages of p, or is about to commit one, and has lost p.
Stale(k, p) ==
    /\ owner[p] # k
    /\ p \in Pending(k) \/ (pc[k] \in {"claim", "handle", "commit"} /\ at[k][1] = p)
    /\ ~(pc[k] \in {"dlq", "settle"} /\ at[k][1] = p)

StaleWork == {w \in Pods \X Partitions : Stale(w[1], w[2])}

\* What the faults so far may have cost.
Debt ==
    Spent("error") + Spent("expire") + Cardinality(Partitions) * Spent("rebalance")

DebtInv ==
    /\ IsFiniteSet(DoomedEvents) /\ IsFiniteSet(Freed) /\ IsFiniteSet(StaleWork)
    /\ Cardinality(DoomedEvents) + Cardinality(Freed) + Cardinality(StaleWork) <= Debt

\* What the argument needs to know of pods and outcomes besides PodInv: a pod
\* outside its loop holds no batch, a commit follows a handler that returned,
\* and nothing was handled or dead-lettered before its key was won.
OutcomeInv ==
    /\ \A k \in Pods : pc[k] \in {"exit", "down"} => Pending(k) = {}
    /\ \A k \in Pods : pc[k] = "commit" => at[k] \in done
    /\ \A m \in done : Kind(m) = "event" /\ wins[Key(m)] > 0
    /\ \A m \in dlq : Kind(m) = "event" => wins[Key(m)] > 0

\* A dropped batch leaves nothing pending.
LEMMA DroppedNotPending ==
    ASSUME TypeInv, NEW k \in Pods, DropBatch(k)
    PROVE  /\ Pending(k)' = {}
           /\ \A j \in Pods \ {k} : Pending(j)' = Pending(j)
<1>1. /\ next'[k] = EmptyBatch /\ last'[k] = EmptyBatch
      /\ \A j \in Pods \ {k} : next'[j] = next[j] /\ last'[j] = last[j]
  BY DEF DropBatch, TypeInv, TypeOK
<1>2. \A p \in Partitions : ~(next'[k][p] < last'[k][p])
  BY <1>1 DEF EmptyBatch
<1>3. QED
  BY <1>1, <1>2 DEF Pending

\* Outcomes keep their part of the invariant when what is added to them was won.
LEMMA OutcomesWon ==
    ASSUME TypeInv, OutcomeInv, Grows,
           \A m \in done' : m \in done \/ (Kind(m) = "event" /\ wins'[Key(m)] > 0),
           \A m \in dlq' : m \in dlq \/ (Kind(m) = "event" => wins'[Key(m)] > 0)
    PROVE  /\ \A m \in done' : Kind(m) = "event" /\ wins'[Key(m)] > 0
           /\ \A m \in dlq' : Kind(m) = "event" => wins'[Key(m)] > 0
<1>1. \A m \in done \cup dlq : Key(m) \in EventIds
  BY RecordTypes DEF TypeInv, TypeOK
<1>2. QED
  BY <1>1 DEF OutcomeInv, Grows

\* A step of one pod keeps the invariant when it keeps that pod's part and the
\* outcomes' part.
LEMMA OutcomeOfPod ==
    ASSUME TypeInv, OutcomeInv, Grows, NEW k \in Pods,
           \A j \in Pods \ {k} :
               pc'[j] = pc[j] /\ at'[j] = at[j] /\ Pending(j)' = Pending(j),
           pc'[k] \in {"exit", "down"} => Pending(k)' = {},
           pc'[k] = "commit" => at'[k] \in done',
           \A m \in done' : m \in done \/ (Kind(m) = "event" /\ wins'[Key(m)] > 0),
           \A m \in dlq' : m \in dlq \/ (Kind(m) = "event" => wins'[Key(m)] > 0)
    PROVE  OutcomeInv'
<1>1. /\ \A m \in done' : Kind(m) = "event" /\ wins'[Key(m)] > 0
      /\ \A m \in dlq' : Kind(m) = "event" => wins'[Key(m)] > 0
  BY OutcomesWon
<1>2. \A j \in Pods : pc'[j] \in {"exit", "down"} => Pending(j)' = {}
  BY DEF OutcomeInv
<1>3. \A j \in Pods : pc'[j] = "commit" => at'[j] \in done'
  BY DEF OutcomeInv, Grows
<1>4. QED
  BY <1>1, <1>2, <1>3 DEF OutcomeInv, Kind, Key

\* Nothing is handled, and no batch is held, before any pod starts.
LEMMA OutcomeInit == Init => OutcomeInv
BY DEF Init, OutcomeInv, Pending, EmptyBatch

\* Every step keeps the invariant.
LEMMA OutcomeStep ==
    TypeInv /\ TypeInv' /\ DeliveryInv /\ OutcomeInv /\ [Next]_vars => OutcomeInv'
<1> SUFFICES ASSUME TypeInv, TypeInv', DeliveryInv, OutcomeInv, [Next]_vars PROVE OutcomeInv'
  OBVIOUS
<1>a. Grows
  BY StepGrows
<1>b. /\ pc \in [Pods -> PodStates]
      /\ at \in [Pods -> Messages \cup {NoMessage}]
      /\ next \in [Pods -> [Partitions -> Ends]]
      /\ last \in [Pods -> [Partitions -> Ends]]
  BY DEF TypeInv, TypeOK
<1>1. ASSUME NEW k \in Pods,
             \/ LeaveLoop(k) \/ SettleRejected(k) \/ SettleError(k) \/ PollError(k)
             \/ ClaimError(k) \/ RetryHookError(k) \/ DlqError(k) \/ Kill(k)
             \/ (TakeMessage(k) /\ Crash(k, "loop"))
      PROVE  OutcomeInv'
  <2>1. /\ pc'[k] \in {"exit", "down"} /\ done' = done /\ DropBatch(k)
        /\ \A j \in Pods \ {k} : pc'[j] = pc[j] /\ at'[j] = at[j]
    BY <1>1, <1>b DEF LeaveLoop, SettleRejected, SettleError, PollError, ClaimError,
       RetryHookError, DlqError, Kill, TakeMessage, Crash, DropBatch, Goto, outcomes
  <2>2. dlq' = dlq \/ (pc[k] = "dlq" /\ dlq' = dlq \cup {at[k]} /\ UNCHANGED wins)
    BY <1>1 DEF LeaveLoop, SettleRejected, SettleError, PollError, ClaimError,
       RetryHookError, DlqError, Kill, TakeMessage, Crash, Goto, outcomes, redis
  <2>3. \A m \in dlq' : m \in dlq \/ (Kind(m) = "event" => wins'[Key(m)] > 0)
    BY <2>2 DEF DeliveryInv, PodInv
  <2>4. QED
    BY <1>a, <2>1, <2>3, DroppedNotPending, OutcomeOfPod
<1>2. ASSUME NEW k \in Pods,
             \/ Start(k) \/ Shutdown(k) \/ ClaimNew(k) \/ ClaimDuplicate(k)
             \/ HandlerReturns(k) \/ HandlerRetries(k) \/ HandlerGivesUp(k)
             \/ HandlerFails(k) \/ CommitOk(k) \/ CommitRejected(k) \/ CommitError(k)
             \/ SendDlq(k) \/ SettleOk(k)
      PROVE  OutcomeInv'
  <2>1. /\ at' = at /\ next' = next /\ last' = last
        /\ \A j \in Pods \ {k} : pc'[j] = pc[j]
        /\ pc'[k] # "exit" /\ (pc'[k] = "down" => pc[k] = "exit")
        /\ pc'[k] = "commit" => at[k] \in done'
    BY <1>2, <1>b DEF Start, Shutdown, ClaimNew, ClaimDuplicate, HandlerReturns, HandlerRetries,
       HandlerGivesUp, HandlerFails, CommitOk, CommitRejected, CommitError, SendDlq, SettleOk,
       Goto, batch
  <2>2. done' = done \/ (pc[k] = "handle" /\ done' = done \cup {at[k]} /\ UNCHANGED wins)
    BY <1>2 DEF Start, Shutdown, ClaimNew, ClaimDuplicate, HandlerReturns, HandlerRetries,
       HandlerGivesUp, HandlerFails, CommitOk, CommitRejected, CommitError, SendDlq, SettleOk,
       Goto, outcomes, redis
  <2>3. dlq' = dlq \/ (pc[k] = "dlq" /\ dlq' = dlq \cup {at[k]} /\ UNCHANGED wins)
    BY <1>2 DEF Start, Shutdown, ClaimNew, ClaimDuplicate, HandlerReturns, HandlerRetries,
       HandlerGivesUp, HandlerFails, CommitOk, CommitRejected, CommitError, SendDlq, SettleOk,
       Goto, outcomes, redis
  <2>4. /\ \A m \in done' : m \in done \/ (Kind(m) = "event" /\ wins'[Key(m)] > 0)
        /\ \A m \in dlq' : m \in dlq \/ (Kind(m) = "event" => wins'[Key(m)] > 0)
    BY <2>2, <2>3 DEF DeliveryInv, PodInv
  <2>5. \A j \in Pods : Pending(j)' = Pending(j)
    BY <2>1 DEF Pending
  <2>6. QED
    BY <1>a, <2>1, <2>4, <2>5, OutcomeOfPod DEF OutcomeInv
<1>3. ASSUME NEW k \in Pods, Poll(k) \/ (TakeMessage(k) /\ ~Crash(k, "loop"))
      PROVE  OutcomeInv'
  <2>1. /\ done' = done /\ dlq' = dlq
        /\ \A j \in Pods \ {k} :
             pc'[j] = pc[j] /\ at'[j] = at[j] /\ next'[j] = next[j] /\ last'[j] = last[j]
    BY <1>3, <1>b DEF Poll, TakeMessage, outcomes
  <2>2. pc'[k] \notin {"exit", "down", "commit"}
    <3>1. CASE Poll(k)
      BY <3>1 DEF Poll
    <3>2. CASE TakeMessage(k) /\ ~Crash(k, "loop")
      <4>1. PICK p \in Upcoming(k) :
              /\ Kind(<<p, next[k][p]>>) # "scalar"
              /\ pc' = [pc EXCEPT ![k] = FirstStep(Kind(<<p, next[k][p]>>))]
        BY <3>2 DEF TakeMessage
      <4>2. <<p, next[k][p]>> \in Messages
        BY TakenIsMessage DEF TypeInv
      <4>3. FirstStep(Kind(<<p, next[k][p]>>)) \in {"claim", "dlq"}
        BY <4>1, <4>2, RecordTypes DEF FirstStep, MessageKinds
      <4>4. QED
        BY <1>b, <4>1, <4>3
    <3>3. QED
      BY <1>3, <3>1, <3>2
  <2>3. \A j \in Pods \ {k} : Pending(j)' = Pending(j)
    BY <2>1 DEF Pending
  <2>4. QED
    BY <1>a, <2>1, <2>2, <2>3, OutcomeOfPod
<1>4. ASSUME UNCHANGED <<pc, at, next, last, done, dlq>>
      PROVE  OutcomeInv'
  <2>1. \A j \in Pods : Pending(j)' = Pending(j)
    BY <1>4 DEF Pending
  <2>2. \A m \in done \cup dlq : Key(m) \in EventIds
    BY RecordTypes DEF TypeInv, TypeOK
  <2>3. QED
    BY <1>a, <1>4, <2>1, <2>2 DEF OutcomeInv, Grows, Kind, Key
<1>5. ASSUME \/ \E k \in Pods : Signal(k)
             \/ \E e \in EventIds : Expire(e)
             \/ Coordinator \/ UNCHANGED vars
      PROVE  OutcomeInv'
  BY <1>4, <1>5 DEF Signal, Expire, Coordinator, Rebalance, Assign, ResolvePosition, vars,
     pod, batch, outcomes
<1>6. QED
  BY <1>1, <1>2, <1>3, <1>5 DEF Next, Progress, Failure

\* The number of partitions is a natural number.
LEMMA PartitionCount == Cardinality(Partitions) \in Nat
BY PartitionsAssumption, FS_CardinalityType

\* What a step adds to the debt: one for a failed request or an expired key,
\* one for each partition for a rebalance, and nothing for anything else.
LEMMA DebtMoves ==
    ASSUME TypeInv, TypeInv'
    PROVE  /\ Debt \in Int /\ Debt' \in Int
           /\ UNCHANGED budget \/ Spend("kill") \/ Spend("signal") => Debt' = Debt
           /\ Spend("error") \/ Spend("expire") => Debt' = Debt + 1
           /\ Spend("rebalance") => Debt' = Debt + Cardinality(Partitions)
<1> DEFINE n == Cardinality(Partitions)
<1>1. /\ \A f \in FaultKinds : budget[f] \in Nat /\ budget'[f] \in Nat /\ Budget[f] \in Nat
      /\ budget \in [FaultKinds -> Nat]
      /\ n \in Nat
  BY BudgetAssumption, PartitionCount DEF TypeInv, TypeOK
<1>2. \A f \in FaultKinds : Spent(f) \in Int /\ Spent(f)' \in Int
  BY <1>1 DEF Spent
<1>3. ASSUME NEW f \in FaultKinds, Spend(f)
      PROVE  /\ Spent(f)' = Spent(f) + 1
             /\ \A g \in FaultKinds \ {f} : Spent(g)' = Spent(g)
  BY <1>1, <1>3 DEF Spent, Spend
<1>4. UNCHANGED budget => \A g \in FaultKinds : Spent(g)' = Spent(g)
  BY DEF Spent
<1>5. \A x \in Int : n * x \in Int /\ n * (x + 1) = n * x + n
  BY <1>1
<1>6. /\ Debt = Spent("error") + Spent("expire") + n * Spent("rebalance")
      /\ Debt' = Spent("error")' + Spent("expire")' + n * Spent("rebalance")'
  BY DEF Debt
<1>7. {"kill", "signal", "rebalance", "error", "expire"} = FaultKinds
  BY DEF FaultKinds
<1> HIDE DEF n
<1>8. /\ Debt \in Int /\ Debt' \in Int
  BY <1>2, <1>5, <1>6, <1>7
<1>9. UNCHANGED budget \/ Spend("kill") \/ Spend("signal") => Debt' = Debt
  <2>1. UNCHANGED budget \/ Spend("kill") \/ Spend("signal") =>
          /\ Spent("error")' = Spent("error") /\ Spent("expire")' = Spent("expire")
          /\ Spent("rebalance")' = Spent("rebalance")
    BY <1>3, <1>4, <1>7
  <2>2. QED
    BY <2>1, <1>6
<1>10. Spend("error") \/ Spend("expire") => Debt' = Debt + 1
  <2>1. ASSUME Spend("error") \/ Spend("expire")
        PROVE  /\ Spent("error")' + Spent("expire")' = Spent("error") + Spent("expire") + 1
               /\ Spent("rebalance")' = Spent("rebalance")
    <3>1. \/ /\ Spent("error")' = Spent("error") + 1 /\ Spent("expire")' = Spent("expire")
             /\ Spent("rebalance")' = Spent("rebalance")
          \/ /\ Spent("expire")' = Spent("expire") + 1 /\ Spent("error")' = Spent("error")
             /\ Spent("rebalance")' = Spent("rebalance")
      BY <1>3, <1>7, <2>1
    <3>2. QED
      BY <3>1, <1>2, <1>7
  <2>2. QED
    BY <2>1, <1>2, <1>5, <1>6, <1>7
<1>11. Spend("rebalance") => Debt' = Debt + n
  <2>1. Spend("rebalance") =>
          /\ Spent("error")' = Spent("error") /\ Spent("expire")' = Spent("expire")
          /\ Spent("rebalance")' = Spent("rebalance") + 1
    BY <1>3, <1>7
  <2>2. QED
    BY <2>1, <1>1, <1>2, <1>5, <1>6, <1>7
<1>12. QED
  BY <1>8, <1>9, <1>10, <1>11 DEF n

\* The bound is kept when the three sets grow by no more than the debt.
LEMMA DebtCovers ==
    ASSUME TypeInv, TypeInv', DebtInv, NEW d \in Int, NEW f \in Int, NEW s \in Int,
           IsFiniteSet(DoomedEvents'), IsFiniteSet(Freed'), IsFiniteSet(StaleWork'),
           Cardinality(DoomedEvents') <= Cardinality(DoomedEvents) + d,
           Cardinality(Freed') <= Cardinality(Freed) + f,
           Cardinality(StaleWork') <= Cardinality(StaleWork) + s,
           Debt' >= Debt + d + f + s
    PROVE  DebtInv'
<1>1. /\ Cardinality(DoomedEvents) \in Nat /\ Cardinality(DoomedEvents') \in Nat
      /\ Cardinality(Freed) \in Nat /\ Cardinality(Freed') \in Nat
      /\ Cardinality(StaleWork) \in Nat /\ Cardinality(StaleWork') \in Nat
  BY FS_CardinalityType DEF DebtInv
<1>2. Cardinality(DoomedEvents) + Cardinality(Freed) + Cardinality(StaleWork) <= Debt
  BY DEF DebtInv
<1>3. Debt \in Int /\ Debt' \in Int
  BY DebtMoves
<1>4. Cardinality(DoomedEvents') + Cardinality(Freed') + Cardinality(StaleWork') <= Debt'
  BY <1>1, <1>2, <1>3
<1>5. QED
  BY <1>4 DEF DebtInv

\* A step that adds to none of the three sets keeps the bound, unless it takes
\* something back from the debt, which no step does.
LEMMA NothingOwed ==
    ASSUME TypeInv, TypeInv', DebtInv,
           DoomedEvents' \subseteq DoomedEvents, Freed' \subseteq Freed,
           StaleWork' \subseteq StaleWork,
           UNCHANGED budget \/ \E f \in FaultKinds : Spend(f)
    PROVE  DebtInv'
<1>1. Debt \in Int /\ Debt' \in Int /\ Debt' >= Debt
  <2>1. \/ UNCHANGED budget \/ Spend("kill") \/ Spend("signal") \/ Spend("error")
        \/ Spend("expire") \/ Spend("rebalance")
    BY DEF FaultKinds
  <2>2. QED
    BY <2>1, DebtMoves, PartitionCount
<1>2. /\ IsFiniteSet(DoomedEvents') /\ IsFiniteSet(Freed') /\ IsFiniteSet(StaleWork')
      /\ Cardinality(DoomedEvents') <= Cardinality(DoomedEvents)
      /\ Cardinality(Freed') <= Cardinality(Freed)
      /\ Cardinality(StaleWork') <= Cardinality(StaleWork)
  BY NoneMore DEF DebtInv
<1>3. /\ Cardinality(DoomedEvents) \in Nat /\ Cardinality(Freed) \in Nat
      /\ Cardinality(StaleWork) \in Nat
  BY FS_CardinalityType DEF DebtInv
<1>4. /\ Cardinality(DoomedEvents') <= Cardinality(DoomedEvents) + 0
      /\ Cardinality(Freed') <= Cardinality(Freed) + 0
      /\ Cardinality(StaleWork') <= Cardinality(StaleWork) + 0
      /\ Debt' >= Debt + 0 + 0 + 0
  BY <1>1, <1>2, <1>3
<1>5. QED
  BY <1>2, <1>4, DebtCovers

\* Work that has lost its partition: a step of one pod changes at most its own,
\* when it takes no partition from another pod.
LEMMA StaleOfPod ==
    ASSUME NEW k \in Pods, Alone(k),
           \A j \in Pods \ {k} : Pending(j)' = Pending(j),
           \A j \in Pods \ {k} : \A p \in Partitions : owner[p] = j => owner'[p] = j,
           \A p \in Partitions : Stale(k, p)' => Stale(k, p)
    PROVE  StaleWork' \subseteq StaleWork
<1>1. ASSUME NEW j \in Pods \ {k}, NEW p \in Partitions, Stale(j, p)'
      PROVE  Stale(j, p)
  BY <1>1 DEF Stale, Alone
<1>2. \A j \in Pods, p \in Partitions : Stale(j, p)' => Stale(j, p)
  BY <1>1
<1>3. SUFFICES ASSUME NEW w \in StaleWork' PROVE w \in StaleWork
  OBVIOUS
<1>4. /\ w \in Pods \X Partitions
      /\ Stale(w[1], w[2])'
  BY <1>3 DEF StaleWork
<1>5. QED
  BY <1>2, <1>4 DEF StaleWork

\* A pod without messages has no work to lose.
LEMMA NoneStale ==
    ASSUME NEW k \in Pods, Pending(k)' = {}, pc'[k] \notin {"claim", "handle", "commit"}
    PROVE  \A p \in Partitions : ~Stale(k, p)'
BY DEF Stale

\* A pod that ends its handling of a message, and has not begun another one,
\* dooms no event: it was doomed when the handling began, or by another pod.
LEMMA DoomedAtRest ==
    ASSUME NEW k \in Pods, Alone(k),
           pc'[k] \in {"handle", "dlq"} => Kind(at'[k]) # "event",
           done' = done \/ (pc[k] = "handle" /\ done' = done \cup {at[k]}),
           dlq' = dlq \/ (pc[k] = "dlq" /\ dlq' = dlq \cup {at[k]}),
           done' = done \/ dlq' = dlq
    PROVE  DoomedEvents' \subseteq DoomedEvents
<1>1. ASSUME NEW m \in Messages, Kind(m) = "event", Doomed(m)'
      PROVE  Doomed(m)
  <2>1. \/ m \in done' /\ m \in dlq'
        \/ \E j \in Pods \ {k} : at[j] = m /\ pc[j] \in {"handle", "dlq"} /\ m \in done'
        \/ \E j \in Pods \ {k} : at[j] = m /\ pc[j] = "handle" /\ m \in dlq'
        \/ \E i, j \in Pods \ {k} :
             /\ i # j /\ at[i] = m /\ at[j] = m
             /\ pc[i] = "handle" /\ pc[j] \in {"handle", "dlq"}
    BY <1>1 DEF Doomed, Alone
  <2>2. \/ m \in done' <=> m \in done
        \/ m = at[k] /\ pc[k] = "handle" /\ dlq' = dlq
    OBVIOUS
  <2>3. \/ m \in dlq' <=> m \in dlq
        \/ m = at[k] /\ pc[k] = "dlq" /\ done' = done
    OBVIOUS
  <2>4. QED
    BY <2>1, <2>2, <2>3 DEF Doomed
<1>2. QED
  BY <1>1 DEF DoomedEvents, Kind

\* Neither does a pod that goes on with a message whose handler it runs.
LEMMA DoomedInHand ==
    ASSUME NEW k \in Pods, Alone(k), at' = at, UNCHANGED <<done, dlq>>, pc[k] = "handle"
    PROVE  DoomedEvents' \subseteq DoomedEvents
<1>1. ASSUME NEW m \in Messages, Doomed(m)'
      PROVE  Doomed(m)
  BY <1>1 DEF Doomed, Alone
<1>2. QED
  BY <1>1 DEF DoomedEvents, Kind

\* Any other step of a pod dooms at most the message in its hand.
LEMMA DoomedOnly ==
    ASSUME NEW k \in Pods, Alone(k), at' = at, UNCHANGED <<done, dlq>>
    PROVE  DoomedEvents' \subseteq DoomedEvents \cup {at[k]}
<1>1. ASSUME NEW m \in Messages, m # at[k], Doomed(m)'
      PROVE  Doomed(m)
  BY <1>1 DEF Doomed, Alone
<1>2. QED
  BY <1>1 DEF DoomedEvents, Kind

\* Keys are freed only when they expire, and used up when they are won again.
LEMMA FreedKept ==
    ASSUME claims \subseteq claims', UNCHANGED wins
    PROVE  Freed' \subseteq Freed
BY DEF Freed

\* A step of one pod that dooms nothing, frees no key and takes on no lost work.
LEMMA PodOwesNothing ==
    ASSUME TypeInv, TypeInv', DebtInv, NEW k \in Pods, Alone(k),
           \A j \in Pods \ {k} : Pending(j)' = Pending(j),
           \A j \in Pods \ {k} : \A p \in Partitions : owner[p] = j => owner'[p] = j,
           \A p \in Partitions : Stale(k, p)' => Stale(k, p),
           DoomedEvents' \subseteq DoomedEvents,
           claims \subseteq claims', UNCHANGED wins,
           UNCHANGED budget \/ \E f \in FaultKinds : Spend(f)
    PROVE  DebtInv'
BY StaleOfPod, FreedKept, NothingOwed

\* A pod that crashes leaves no debt behind.
LEMMA CrashOwesNothing ==
    ASSUME TypeInv, TypeInv', DebtInv, NEW k \in Pods,
           \/ LeaveLoop(k) \/ SettleRejected(k) \/ SettleError(k) \/ PollError(k)
           \/ ClaimError(k) \/ RetryHookError(k) \/ DlqError(k) \/ Kill(k)
           \/ (TakeMessage(k) /\ Crash(k, "loop"))
    PROVE  DebtInv'
<1>1. /\ pc \in [Pods -> PodStates]
      /\ at \in [Pods -> Messages \cup {NoMessage}]
      /\ owner \in [Partitions -> Pods \cup {NoPod}]
  BY DEF TypeInv, TypeOK
<1>2. /\ Alone(k) /\ DropBatch(k) /\ pc'[k] \in {"exit", "down"} /\ UNCHANGED done
      /\ dlq' = dlq \/ (pc[k] = "dlq" /\ dlq' = dlq \cup {at[k]})
      /\ claims \subseteq claims' /\ UNCHANGED wins
  BY <1>1 DEF LeaveLoop, SettleRejected, SettleError, PollError, ClaimError, RetryHookError,
     DlqError, Kill, TakeMessage, Crash, DropBatch, Goto, Alone, outcomes, redis
<1>3. owner' = owner \/ LeaveGroup(k)
  BY DEF LeaveLoop, SettleRejected, SettleError, PollError, ClaimError, RetryHookError,
     DlqError, Kill, TakeMessage, kafka
<1>4. \A j \in Pods \ {k} : \A p \in Partitions : owner[p] = j => owner'[p] = j
  BY <1>1, <1>3 DEF LeaveGroup
<1>5. UNCHANGED budget \/ \E f \in FaultKinds : Spend(f)
  BY DEF LeaveLoop, SettleRejected, SettleError, PollError, ClaimError, RetryHookError,
     DlqError, Kill, TakeMessage, FaultKinds
<1>6. /\ Pending(k)' = {}
      /\ \A j \in Pods \ {k} : Pending(j)' = Pending(j)
  BY <1>2, DroppedNotPending
<1>7. \A p \in Partitions : Stale(k, p)' => Stale(k, p)
  BY <1>2, <1>6, NoneStale
<1>8. DoomedEvents' \subseteq DoomedEvents
  BY <1>2, DoomedAtRest
<1>9. QED
  BY <1>2, <1>4, <1>5, <1>6, <1>7, <1>8, PodOwesNothing

\* A pod that goes on with its batch without trouble owes nothing either.
LEMMA BatchOwesNothing ==
    ASSUME TypeInv, TypeInv', DebtInv, OutcomeInv, NEW k \in Pods,
           \/ Start(k) \/ Shutdown(k) \/ ClaimDuplicate(k) \/ HandlerReturns(k)
           \/ CommitOk(k) \/ SendDlq(k) \/ SettleOk(k)
           \/ HandlerRetries(k) \/ HandlerGivesUp(k) \/ HandlerFails(k)
    PROVE  DebtInv'
<1>1. /\ pc \in [Pods -> PodStates]
      /\ owner \in [Partitions -> Pods \cup {NoPod}]
  BY DEF TypeInv, TypeOK
<1>2. /\ Alone(k) /\ UNCHANGED <<at, next, last, redis, budget>>
  BY <1>1 DEF Start, Shutdown, ClaimDuplicate, HandlerReturns, CommitOk, SendDlq, SettleOk,
     HandlerRetries, HandlerGivesUp, HandlerFails, Goto, Alone, batch
<1>3. \A j \in Pods : Pending(j)' = Pending(j)
  BY <1>2 DEF Pending
<1>4. owner' = owner \/ LeaveGroup(k)
  BY DEF Start, Shutdown, ClaimDuplicate, HandlerReturns, CommitOk, SendDlq, SettleOk,
     HandlerRetries, HandlerGivesUp, HandlerFails, kafka
<1>5. \A j \in Pods \ {k} : \A p \in Partitions : owner[p] = j => owner'[p] = j
  BY <1>1, <1>4 DEF LeaveGroup
<1>6. \A p \in Partitions : Stale(k, p)' => Stale(k, p)
  <2>1. CASE Shutdown(k)
    <3>1. Pending(k)' = {} /\ pc'[k] = "down"
      BY <1>1, <1>3, <2>1 DEF Shutdown, Goto, OutcomeInv
    <3>2. QED
      BY <3>1, NoneStale
  <2>2. CASE CommitOk(k) \/ SettleOk(k)
    <3>1. /\ owner' = owner /\ owner[at[k][1]] = k /\ at' = at
          /\ pc[k] \in {"commit", "settle"} /\ pc'[k] = "loop"
      BY <1>1, <1>2, <2>2 DEF CommitOk, SettleOk, Goto, Owns
    <3>2. QED
      BY <1>3, <3>1 DEF Stale
  <2>3. CASE \/ Start(k) \/ ClaimDuplicate(k) \/ HandlerReturns(k) \/ SendDlq(k)
             \/ HandlerRetries(k) \/ HandlerGivesUp(k) \/ HandlerFails(k)
    <3>1. /\ owner' = owner /\ at' = at
          /\ \/ pc[k] = "down" /\ pc'[k] = "loop"
             \/ pc[k] = "claim" /\ pc'[k] = "settle"
             \/ pc[k] = "handle" /\ pc'[k] \in {"handle", "commit", "dlq"}
             \/ pc[k] = "dlq" /\ pc'[k] = "settle"
      BY <1>1, <1>2, <2>3 DEF Start, ClaimDuplicate, HandlerReturns, SendDlq,
         HandlerRetries, HandlerGivesUp, HandlerFails, Goto, kafka
    <3>2. QED
      BY <1>3, <3>1 DEF Stale
  <2>4. QED
    BY <2>1, <2>2, <2>3
<1>7. DoomedEvents' \subseteq DoomedEvents
  <2>1. CASE HandlerRetries(k) \/ HandlerGivesUp(k) \/ HandlerFails(k)
    <3>1. pc[k] = "handle" /\ UNCHANGED <<done, dlq>>
      BY <2>1 DEF HandlerRetries, HandlerGivesUp, HandlerFails, Goto, outcomes
    <3>2. QED
      BY <1>2, <3>1, DoomedInHand
  <2>2. CASE \/ Start(k) \/ Shutdown(k) \/ ClaimDuplicate(k) \/ HandlerReturns(k)
             \/ CommitOk(k) \/ SendDlq(k) \/ SettleOk(k)
    <3>1. /\ pc'[k] \notin {"handle", "dlq"}
          /\ done' = done \/ (pc[k] = "handle" /\ done' = done \cup {at[k]})
          /\ dlq' = dlq \/ (pc[k] = "dlq" /\ dlq' = dlq \cup {at[k]})
          /\ done' = done \/ dlq' = dlq
      BY <1>1, <2>2 DEF Start, Shutdown, ClaimDuplicate, HandlerReturns, CommitOk, SendDlq,
         SettleOk, Goto, outcomes
    <3>2. QED
      BY <1>2, <3>1, DoomedAtRest
  <2>3. QED
    BY <2>1, <2>2
<1>8. QED
  BY <1>2, <1>3, <1>5, <1>6, <1>7, PodOwesNothing DEF redis

\* Fetching takes on no lost work, because it fetches what the pod owns, and
\* the work it begins was pending before.
LEMMA LoopOwesNothing ==
    ASSUME TypeInv, TypeInv', DebtInv, NEW k \in Pods,
           Poll(k) \/ (TakeMessage(k) /\ ~Crash(k, "loop"))
    PROVE  DebtInv'
<1>1. /\ pc \in [Pods -> PodStates]
      /\ at \in [Pods -> Messages \cup {NoMessage}]
      /\ next \in [Pods -> [Partitions -> Ends]]
      /\ last \in [Pods -> [Partitions -> Ends]]
  BY DEF TypeInv, TypeOK
<1>2. /\ Alone(k) /\ UNCHANGED <<owner, redis, outcomes, budget>>
      /\ \A j \in Pods \ {k} : next'[j] = next[j] /\ last'[j] = last[j]
  BY <1>1 DEF Poll, TakeMessage, Alone, kafka
<1>3. \A j \in Pods \ {k} : Pending(j)' = Pending(j)
  BY <1>2 DEF Pending
<1>a. \A q \in Partitions : next[k][q] \in Int /\ last[k][q] \in Int
  <2>1. Ends \subseteq Int
    BY EndsInNat
  <2>2. QED
    BY <1>1, <2>1
<1>4. CASE Poll(k)
  <2>1. PICK hi \in [Partitions -> Ends] :
           LET fetched == {p \in Partitions : hi[p] > 0} IN
           /\ \A p \in fetched : owner[p] = k
           /\ next' = [next EXCEPT ![k] =
                         [p \in Partitions |-> IF p \in fetched THEN position[p] ELSE 0]]
           /\ last' = [last EXCEPT ![k] = hi]
    BY <1>4 DEF Poll
  <2>2. pc[k] = "loop" /\ pc' = pc
    BY <1>4 DEF Poll
  <2>3. \A p \in Partitions : p \in Pending(k)' => owner[p] = k
    <3>1. ASSUME NEW p \in Partitions, p \in Pending(k)' PROVE hi[p] > 0
      <4>1. next'[k][p] = (IF hi[p] > 0 THEN position[p] ELSE 0) /\ last'[k][p] = hi[p]
        BY <1>1, <2>1
      <4>2. hi[p] \in Nat
        BY EndsInNat
      <4>3. next'[k][p] < last'[k][p]
        BY <3>1 DEF Pending
      <4>4. QED
        BY <4>1, <4>2, <4>3
    <3>2. QED
      BY <2>1, <3>1
  <2>4. \A p \in Partitions : ~Stale(k, p)'
    BY <1>2, <2>2, <2>3 DEF Stale
  <2>5. DoomedEvents' \subseteq DoomedEvents
    BY <1>2, <2>2, DoomedAtRest DEF outcomes
  <2>6. QED
    BY <1>2, <1>3, <2>4, <2>5, PodOwesNothing DEF redis
<1>5. CASE TakeMessage(k) /\ ~Crash(k, "loop")
  <2>1. PICK p \in Upcoming(k) :
           /\ Kind(<<p, next[k][p]>>) # "scalar"
           /\ pc' = [pc EXCEPT ![k] = FirstStep(Kind(<<p, next[k][p]>>))]
           /\ at' = [at EXCEPT ![k] = <<p, next[k][p]>>]
           /\ next' = [next EXCEPT ![k][p] = @ + 1]
           /\ last' = last
    BY <1>5 DEF TakeMessage
  <2>2. <<p, next[k][p]>> \in Messages /\ p \in Partitions /\ next[k][p] < last[k][p]
    BY TakenIsMessage DEF TypeInv
  <2>3. LET kind == Kind(<<p, next[k][p]>>) IN
        /\ kind = "event" => FirstStep(kind) = "claim"
        /\ kind # "event" => FirstStep(kind) = "dlq"
    BY <2>1, <2>2, RecordTypes DEF FirstStep, MessageKinds
  <2>4. /\ pc[k] = "loop" /\ pc'[k] \in {"claim", "dlq"}
        /\ at'[k] = <<p, next[k][p]>> /\ at'[k][1] = p
        /\ pc'[k] = "dlq" => Kind(at'[k]) # "event"
    BY <1>1, <1>5, <2>1, <2>3 DEF TakeMessage
  <2>5. p \in Pending(k) /\ Pending(k)' \subseteq Pending(k)
    <3>1. \A q \in Partitions :
             /\ last'[k][q] = last[k][q]
             /\ next'[k][q] = next[k][q] \/ next'[k][q] = next[k][q] + 1
      BY <1>1, <2>1, <2>2
    <3>2. \A q \in Partitions : next'[k][q] < last'[k][q] => next[k][q] < last[k][q]
      BY <1>a, <3>1
    <3>3. QED
      BY <2>2, <3>2 DEF Pending
  <2>6. ASSUME NEW q \in Partitions, Stale(k, q)'
        PROVE  Stale(k, q)
    <3>1. owner[q] # k /\ (q \in Pending(k)' \/ at'[k][1] = q)
      BY <1>2, <2>6 DEF Stale
    <3>2. owner[q] # k /\ q \in Pending(k)
      BY <2>4, <2>5, <3>1
    <3>3. QED
      BY <2>4, <3>2 DEF Stale
  <2>7. DoomedEvents' \subseteq DoomedEvents
    BY <1>2, <2>4, DoomedAtRest DEF outcomes
  <2>8. QED
    BY <1>2, <1>3, <2>6, <2>7, PodOwesNothing DEF redis
<1>6. QED
  BY <1>4, <1>5

\* A pod that wins a key again uses up a freed key, and dooms at most the event
\* it is about to handle; a first win dooms nothing.
LEMMA WinOwesNothing ==
    ASSUME TypeInv, TypeInv', DeliveryInv, OutcomeInv, DebtInv, NEW k \in Pods, ClaimNew(k)
    PROVE  DebtInv'
<1> DEFINE e == Key(at[k])
<1>1. /\ pc[k] = "claim" /\ pc' = [pc EXCEPT ![k] = "handle"]
      /\ e \notin claims /\ claims' = claims \cup {e}
      /\ wins' = [wins EXCEPT ![e] = @ + 1]
      /\ UNCHANGED <<owner, at, next, last, done, dlq, budget>>
  BY DEF ClaimNew, Goto, batch, kafka, outcomes
<1>2. /\ pc \in [Pods -> PodStates] /\ wins \in [EventIds -> Nat]
      /\ at[k] \in Messages /\ e \in EventIds
  BY <1>1, RecordTypes DEF TypeInv, TypeOK, Busy
<1>3. Alone(k) /\ pc'[k] = "handle"
  BY <1>1, <1>2 DEF Alone
<1>4. StaleWork' \subseteq StaleWork
  <2>1. \A j \in Pods : Pending(j)' = Pending(j)
    BY <1>1 DEF Pending
  <2>2. \A p \in Partitions : Stale(k, p)' => Stale(k, p)
    BY <1>1, <1>3, <2>1 DEF Stale
  <2>3. QED
    BY <1>1, <1>3, <2>1, <2>2, StaleOfPod
<1>5. Freed' \subseteq Freed \ {e}
  BY <1>1, <1>2 DEF Freed
<1>6. CASE wins[e] = 0
  <2>1. DoomedEvents' \subseteq DoomedEvents
    <3>1. at[k] \notin done /\ (Kind(at[k]) = "event" => at[k] \notin dlq)
      BY <1>6 DEF OutcomeInv
    <3>2. \A j \in Pods \ {k} :
             ~(at[j] = at[k] /\ pc[j] \in {"handle", "dlq"} /\ Kind(at[k]) = "event")
      BY <1>6 DEF DeliveryInv, PodInv
    <3>3. ASSUME NEW m \in Messages, Kind(m) = "event", Doomed(m)' PROVE Doomed(m)
      <4>1. CASE m = at[k]
        BY <1>1, <1>3, <3>1, <3>2, <3>3, <4>1 DEF Doomed, Alone
      <4>2. CASE m # at[k]
        BY <1>1, <1>3, <3>3, <4>2 DEF Doomed, Alone
      <4>3. QED
        BY <4>1, <4>2
    <3>4. QED
      BY <3>3 DEF DoomedEvents, Kind
  <2>2. QED
    BY <1>1, <1>4, <1>5, <2>1, NothingOwed
<1>7. CASE wins[e] # 0
  <2>1. e \in Freed
    BY <1>1, <1>2, <1>7 DEF Freed
  <2>2. DoomedEvents' \subseteq DoomedEvents \cup {at[k]}
    BY <1>1, <1>3, DoomedOnly
  <2>3. /\ IsFiniteSet(DoomedEvents')
        /\ Cardinality(DoomedEvents') <= Cardinality(DoomedEvents) + 1
    BY <2>2, OneMore DEF DebtInv
  <2>4. /\ IsFiniteSet(Freed') /\ Cardinality(Freed) \in Nat
        /\ Cardinality(Freed') <= Cardinality(Freed) - 1
    BY <1>5, <2>1, OneLess DEF DebtInv
  <2>5. /\ IsFiniteSet(StaleWork') /\ Cardinality(StaleWork) \in Nat
        /\ Cardinality(StaleWork') <= Cardinality(StaleWork)
    BY <1>4, NoneMore DEF DebtInv
  <2>6. Debt \in Int /\ Debt' = Debt
    BY <1>1, DebtMoves
  <2>7. /\ Cardinality(Freed') <= Cardinality(Freed) + (-1)
        /\ Cardinality(StaleWork') <= Cardinality(StaleWork) + 0
        /\ Debt' >= Debt + 1 + (-1) + 0
    BY <2>4, <2>5, <2>6
  <2>8. QED
    BY <2>3, <2>4, <2>5, <2>7, DebtCovers
<1>8. QED
  BY <1>6, <1>7

\* A rejected commit dooms the event that was handled, which the pod went on
\* with after it had lost its partition.
LEMMA RejectionIsPaid ==
    ASSUME TypeInv, TypeInv', DebtInv, NEW k \in Pods, CommitRejected(k)
    PROVE  DebtInv'
<1>1. /\ pc[k] = "commit" /\ pc' = [pc EXCEPT ![k] = "dlq"] /\ owner[at[k][1]] # k
      /\ UNCHANGED <<owner, at, next, last, done, dlq, claims, wins, budget>>
  BY DEF CommitRejected, Goto, Owns, batch, kafka, redis, outcomes
<1>2. /\ pc \in [Pods -> PodStates] /\ at[k] \in Messages
  BY <1>1 DEF TypeInv, TypeOK, Busy
<1>3. /\ Alone(k) /\ pc'[k] = "dlq"
      /\ \A j \in Pods : Pending(j)' = Pending(j)
  BY <1>1, <1>2 DEF Alone, Pending
<1> DEFINE w == <<k, at[k][1]>>
<1>4. w \in StaleWork
  BY <1>1, <1>2, MessageParts DEF StaleWork, Stale
<1>5. \A p \in Partitions : Stale(k, p)' => Stale(k, p) /\ p # at[k][1]
  BY <1>1, <1>3 DEF Stale
<1>6. StaleWork' \subseteq StaleWork \ {w}
  <2>1. StaleWork' \subseteq StaleWork
    BY <1>1, <1>3, <1>5, StaleOfPod
  <2>2. w \notin StaleWork'
    BY <1>5 DEF StaleWork
  <2>3. QED
    BY <2>1, <2>2
<1>7. DoomedEvents' \subseteq DoomedEvents \cup {at[k]}
  BY <1>1, <1>3, DoomedOnly
<1>8. /\ IsFiniteSet(DoomedEvents')
      /\ Cardinality(DoomedEvents') <= Cardinality(DoomedEvents) + 1
  BY <1>7, OneMore DEF DebtInv
<1>9. Freed' \subseteq Freed
  BY <1>1, FreedKept
<1>10. /\ IsFiniteSet(Freed') /\ Cardinality(Freed) \in Nat
       /\ Cardinality(Freed') <= Cardinality(Freed)
  BY <1>9, NoneMore DEF DebtInv
<1>11. /\ IsFiniteSet(StaleWork') /\ Cardinality(StaleWork) \in Nat
       /\ Cardinality(StaleWork') <= Cardinality(StaleWork) - 1
  BY <1>4, <1>6, OneLess DEF DebtInv
<1>12. Debt \in Int /\ Debt' = Debt
  BY <1>1, DebtMoves
<1>13. /\ Cardinality(Freed') <= Cardinality(Freed) + 0
       /\ Cardinality(StaleWork') <= Cardinality(StaleWork) + (-1)
       /\ Debt' >= Debt + 1 + 0 + (-1)
  BY <1>10, <1>11, <1>12
<1>14. QED
  BY <1>8, <1>10, <1>11, <1>13, DebtCovers

\* A commit that fails dooms the event that was handled; the failure is spent.
LEMMA CommitErrorIsPaid ==
    ASSUME TypeInv, TypeInv', DebtInv, NEW k \in Pods, CommitError(k)
    PROVE  DebtInv'
<1>1. /\ pc[k] = "commit" /\ pc' = [pc EXCEPT ![k] = "dlq"] /\ Spend("error")
      /\ UNCHANGED <<owner, at, next, last, done, dlq, claims, wins>>
  BY DEF CommitError, Goto, batch, redis, outcomes
<1>2. pc \in [Pods -> PodStates]
  BY DEF TypeInv, TypeOK
<1>3. /\ Alone(k) /\ pc'[k] = "dlq"
      /\ \A j \in Pods : Pending(j)' = Pending(j)
  BY <1>1, <1>2 DEF Alone, Pending
<1>4. StaleWork' \subseteq StaleWork
  <2>1. \A p \in Partitions : Stale(k, p)' => Stale(k, p)
    BY <1>1, <1>3 DEF Stale
  <2>2. QED
    BY <1>1, <1>3, <2>1, StaleOfPod
<1>5. DoomedEvents' \subseteq DoomedEvents \cup {at[k]}
  BY <1>1, <1>3, DoomedOnly
<1>6. Freed' \subseteq Freed
  BY <1>1, FreedKept
<1>7. /\ IsFiniteSet(DoomedEvents') /\ IsFiniteSet(Freed') /\ IsFiniteSet(StaleWork')
      /\ Cardinality(Freed) \in Nat /\ Cardinality(StaleWork) \in Nat
      /\ Cardinality(DoomedEvents') <= Cardinality(DoomedEvents) + 1
      /\ Cardinality(Freed') <= Cardinality(Freed)
      /\ Cardinality(StaleWork') <= Cardinality(StaleWork)
  BY <1>4, <1>5, <1>6, OneMore, NoneMore DEF DebtInv
<1>8. Debt \in Int /\ Debt' = Debt + 1
  BY <1>1, DebtMoves
<1>9. /\ Cardinality(Freed') <= Cardinality(Freed) + 0
      /\ Cardinality(StaleWork') <= Cardinality(StaleWork) + 0
      /\ Debt' >= Debt + 1 + 0 + 0
  BY <1>7, <1>8
<1>10. QED
  BY <1>7, <1>9, DebtCovers

\* While pods and outcomes stay as they are, no event is doomed.
LEMMA DoomedUnmoved ==
    ASSUME UNCHANGED <<pc, at, done, dlq>>
    PROVE  DoomedEvents' \subseteq DoomedEvents
<1>1. \A m : Doomed(m)' => Doomed(m)
  BY DEF Doomed
<1>2. QED
  BY <1>1 DEF DoomedEvents, Kind

\* While pods stay as they are, work loses its partition only if the partition
\* is taken from the pod that owned it.
LEMMA StaleUnmoved ==
    ASSUME UNCHANGED <<pc, at, next, last>>
    PROVE  StaleWork' \subseteq
             StaleWork \cup {<<owner[p], p>> : p \in {q \in Partitions : owner'[q] # owner[q]}}
<1>1. \A k : Pending(k)' = Pending(k)
  BY DEF Pending
<1>2. ASSUME NEW w \in StaleWork'
      PROVE  w \in StaleWork \/ (w = <<owner[w[2]], w[2]>> /\ owner'[w[2]] # owner[w[2]])
  <2>1. w \in Pods \X Partitions /\ Stale(w[1], w[2])'
    BY <1>2 DEF StaleWork
  <2>2. CASE owner[w[2]] # w[1]
    <3>1. Stale(w[1], w[2])
      BY <1>1, <2>1, <2>2 DEF Stale
    <3>2. QED
      BY <2>1, <3>1 DEF StaleWork
  <2>3. CASE owner[w[2]] = w[1]
    BY <2>1, <2>3 DEF Stale
  <2>4. QED
    BY <2>2, <2>3
<1>3. \A w \in StaleWork' : w[2] \in Partitions
  BY DEF StaleWork
<1>4. QED
  BY <1>2, <1>3

\* A key that expires is spent for.
LEMMA ExpiryIsPaid ==
    ASSUME TypeInv, TypeInv', DebtInv, NEW e \in EventIds, Expire(e)
    PROVE  DebtInv'
<1>1. /\ claims' = claims \ {e} /\ Spend("expire")
      /\ UNCHANGED <<owner, wins, dlq, done, pc, at, next, last>>
  BY DEF Expire, kafka, outcomes, pod, batch
<1>2. DoomedEvents' \subseteq DoomedEvents
  BY <1>1, DoomedUnmoved
<1>3. Freed' \subseteq Freed \cup {e}
  BY <1>1 DEF Freed
<1>4. StaleWork' \subseteq StaleWork
  BY <1>1, StaleUnmoved
<1>5. /\ IsFiniteSet(DoomedEvents') /\ IsFiniteSet(Freed') /\ IsFiniteSet(StaleWork')
      /\ Cardinality(DoomedEvents) \in Nat /\ Cardinality(StaleWork) \in Nat
      /\ Cardinality(DoomedEvents') <= Cardinality(DoomedEvents)
      /\ Cardinality(Freed') <= Cardinality(Freed) + 1
      /\ Cardinality(StaleWork') <= Cardinality(StaleWork)
  BY <1>2, <1>3, <1>4, OneMore, NoneMore DEF DebtInv
<1>6. Debt \in Int /\ Debt' = Debt + 1
  BY <1>1, DebtMoves
<1>7. /\ Cardinality(DoomedEvents') <= Cardinality(DoomedEvents) + 0
      /\ Cardinality(StaleWork') <= Cardinality(StaleWork) + 0
      /\ Debt' >= Debt + 0 + 1 + 0
  BY <1>5, <1>6
<1>8. QED
  BY <1>5, <1>7, DebtCovers

\* A rebalance takes each partition from one pod, whose work on it is lost.
LEMMA RebalanceIsPaid ==
    ASSUME TypeInv, TypeInv', DebtInv, Rebalance
    PROVE  DebtInv'
<1>1. /\ Spend("rebalance")
      /\ UNCHANGED <<claims, wins, dlq, done, pc, at, next, last>>
  BY DEF Rebalance, redis, outcomes, pod, batch
<1>2. DoomedEvents' \subseteq DoomedEvents
  BY <1>1, DoomedUnmoved
<1>3. Freed' \subseteq Freed
  BY <1>1, FreedKept
<1> DEFINE taken == [p \in Partitions |-> <<owner[p], p>>]
<1>4. StaleWork' \subseteq StaleWork \cup {taken[p] : p \in Partitions}
  BY <1>1, StaleUnmoved
<1> HIDE DEF taken
<1>5. /\ IsFiniteSet(StaleWork')
      /\ Cardinality(StaleWork') <= Cardinality(StaleWork) + Cardinality(Partitions)
  BY <1>4, OneForEach, PartitionsAssumption DEF DebtInv
<1>6. /\ IsFiniteSet(DoomedEvents') /\ IsFiniteSet(Freed')
      /\ Cardinality(DoomedEvents) \in Nat /\ Cardinality(Freed) \in Nat
      /\ Cardinality(DoomedEvents') <= Cardinality(DoomedEvents)
      /\ Cardinality(Freed') <= Cardinality(Freed)
  BY <1>2, <1>3, NoneMore DEF DebtInv
<1>7. Debt \in Int /\ Debt' = Debt + Cardinality(Partitions)
  BY <1>1, DebtMoves
<1>8. /\ Cardinality(DoomedEvents') <= Cardinality(DoomedEvents) + 0
      /\ Cardinality(Freed') <= Cardinality(Freed) + 0
      /\ Debt' >= Debt + 0 + 0 + Cardinality(Partitions)
  BY <1>6, <1>7, PartitionCount
<1>9. QED
  BY <1>5, <1>6, <1>8, PartitionCount, DebtCovers

\* Any other step leaves pods, outcomes and claims alone, and takes a partition
\* from nobody.
LEMMA QuietOwesNothing ==
    ASSUME TypeInv, TypeInv', DebtInv,
           \/ \E k \in Pods : Signal(k)
           \/ Assign \/ (\E p \in Partitions : ResolvePosition(p)) \/ UNCHANGED vars
    PROVE  DebtInv'
<1>1. /\ UNCHANGED <<claims, wins, dlq, done, pc, at, next, last>>
      /\ UNCHANGED budget \/ Spend("signal")
  BY DEF Signal, Assign, ResolvePosition, vars, redis, outcomes, pod, batch
<1>2. DoomedEvents' \subseteq DoomedEvents
  BY <1>1, DoomedUnmoved
<1>3. Freed' \subseteq Freed
  BY <1>1, FreedKept
<1>4. \A p \in Partitions : owner'[p] = owner[p] \/ owner[p] = NoPod
  BY DEF Signal, Assign, ResolvePosition, vars, kafka
<1>5. StaleWork' \subseteq StaleWork
  <2>1. StaleWork' \subseteq StaleWork \cup {<<NoPod, p>> : p \in Partitions}
    BY <1>1, <1>4, StaleUnmoved
  <2>2. StaleWork' \subseteq Pods \X Partitions
    BY DEF StaleWork
  <2>3. QED
    BY <2>1, <2>2, NoPodAssumption
<1>6. QED
  BY <1>1, <1>2, <1>3, <1>5, NothingOwed DEF FaultKinds

\* Nothing is owed before any pod starts.
LEMMA DebtInit == Init => DebtInv
<1> SUFFICES ASSUME Init PROVE DebtInv
  OBVIOUS
<1>1. DoomedEvents = {} /\ Freed = {}
  BY DEF Init, DoomedEvents, Doomed, Freed
<1>2. StaleWork = {}
  BY DEF Init, StaleWork, Stale, Pending, EmptyBatch
<1>3. Debt = 0
  <2>1. Spent("error") = 0 /\ Spent("expire") = 0 /\ Spent("rebalance") = 0
    BY BudgetAssumption DEF Init, Spent, FaultKinds
  <2>2. QED
    BY <2>1, PartitionCount DEF Debt
<1>4. QED
  BY <1>1, <1>2, <1>3, FS_EmptySet DEF DebtInv

\* Every step keeps the debt covered.
LEMMA DebtStep ==
    TypeInv /\ TypeInv' /\ DeliveryInv /\ OutcomeInv /\ DebtInv /\ [Next]_vars => DebtInv'
<1> SUFFICES ASSUME TypeInv, TypeInv', DeliveryInv, OutcomeInv, DebtInv, [Next]_vars
             PROVE  DebtInv'
  OBVIOUS
<1>1. ASSUME NEW k \in Pods,
             \/ LeaveLoop(k) \/ SettleRejected(k) \/ SettleError(k) \/ PollError(k)
             \/ ClaimError(k) \/ RetryHookError(k) \/ DlqError(k) \/ Kill(k)
      PROVE  DebtInv'
  BY <1>1, CrashOwesNothing
<1>2. ASSUME NEW k \in Pods, Poll(k) \/ TakeMessage(k)
      PROVE  DebtInv'
  BY <1>2, CrashOwesNothing, LoopOwesNothing
<1>3. ASSUME NEW k \in Pods,
             \/ Start(k) \/ Shutdown(k) \/ ClaimDuplicate(k) \/ HandlerReturns(k)
             \/ CommitOk(k) \/ SendDlq(k) \/ SettleOk(k)
             \/ HandlerRetries(k) \/ HandlerGivesUp(k) \/ HandlerFails(k)
      PROVE  DebtInv'
  BY <1>3, BatchOwesNothing
<1>4. ASSUME NEW k \in Pods, ClaimNew(k) \/ CommitRejected(k) \/ CommitError(k)
      PROVE  DebtInv'
  BY <1>4, WinOwesNothing, RejectionIsPaid, CommitErrorIsPaid
<1>5. ASSUME NEW e \in EventIds, Expire(e)
      PROVE  DebtInv'
  BY <1>5, ExpiryIsPaid
<1>6. CASE Rebalance
  BY <1>6, RebalanceIsPaid
<1>7. ASSUME \/ \E k \in Pods : Signal(k)
             \/ Assign \/ (\E p \in Partitions : ResolvePosition(p)) \/ UNCHANGED vars
      PROVE  DebtInv'
  BY <1>7, QuietOwesNothing
<1>8. QED
  BY <1>1, <1>2, <1>3, <1>4, <1>5, <1>6, <1>7 DEF Next, Progress, Failure, Coordinator

\* Handled events that are dead-lettered all the same are at most as many as
\* failed requests, expired keys, and partitions times rebalances, with any
\* number of pods.
THEOREM SpuriousDeadLettersArePaid == Spec => []SpuriousDeadLettersBounded
<1>1. TypeInv /\ OutcomeInv /\ DebtInv => SpuriousDeadLettersBounded
  <2> SUFFICES ASSUME TypeInv, OutcomeInv, DebtInv PROVE SpuriousDeadLettersBounded
    OBVIOUS
  <2>1. done \cap dlq \subseteq DoomedEvents
    BY DEF TypeInv, TypeOK, OutcomeInv, DoomedEvents, Doomed
  <2>2. Cardinality(done \cap dlq) <= Cardinality(DoomedEvents)
    BY <2>1, NoneMore DEF DebtInv
  <2>3. /\ Cardinality(done \cap dlq) \in Nat /\ Cardinality(DoomedEvents) \in Nat
        /\ Cardinality(Freed) \in Nat /\ Cardinality(StaleWork) \in Nat
    BY <2>1, NoneMore, FS_CardinalityType DEF DebtInv
  <2>4. Debt \in Int
    <3>1. /\ Spent("error") \in Int /\ Spent("expire") \in Int /\ Spent("rebalance") \in Int
      BY BudgetAssumption DEF TypeInv, TypeOK, Spent, FaultKinds
    <3>2. Cardinality(Partitions) * Spent("rebalance") \in Int
      BY <3>1, PartitionCount
    <3>3. QED
      BY <3>1, <3>2 DEF Debt
  <2>5. Cardinality(done \cap dlq) <= Debt
    BY <2>2, <2>3, <2>4 DEF DebtInv
  <2>6. QED
    BY <2>5 DEF SpuriousDeadLettersBounded, Debt
<1>2. TypeInv /\ [Next]_vars => TypeInv'
  BY TypeStep
<1>3. QED
  BY <1>1, <1>2, TypeInit, InvInit, InvStep, OutcomeInit, OutcomeStep, DebtInit, DebtStep, PTL
  DEF Spec
=============================================================================
