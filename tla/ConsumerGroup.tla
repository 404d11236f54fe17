--------------------------- MODULE ConsumerGroup ---------------------------
(***************************************************************************)
(* The synchronous loop of BaseConsumer (src/src/core/consumer.py) run by  *)
(* several pods of one Kafka consumer group.  The pods share the committed *)
(* offsets and the partition assignment (Kafka), the idempotency claims    *)
(* (Redis, src/src/core/idempotency.py) and the dead letter topic.         *)
(*                                                                         *)
(* Each pod awaits one thing at a time, so one step of a pod is one await: *)
(* the answer of a fetch, of a claim, of the handler, of a DLQ send or of  *)
(* a commit.  Steps of different pods interleave, and Kafka may take a     *)
(* partition away from a pod between any two of its steps.                 *)
(***************************************************************************)
EXTENDS Topic

CONSTANTS
    Pods,        \* replicas of the deployment
    MaxRetries,  \* max_retries: a handler is tried MaxRetries + 1 times
    Budget,      \* how often each kind of fault may strike
    NoPod,       \* owner of a partition that is assigned to nobody
    NoMessage    \* a pod that has dispatched nothing of its batch

FaultKinds == {"kill", "signal", "rebalance", "error", "expire"}

ASSUME MaxRetriesAssumption == MaxRetries \in Nat
ASSUME PartitionsAssumption == IsFiniteSet(Partitions)
ASSUME BudgetAssumption == Budget \in [FaultKinds -> Nat]
ASSUME NoPodAssumption == NoPod \notin Pods
ASSUME NoMessageAssumption == NoMessage \notin Messages

Unresolved == -1

VARIABLES
    committed,  \* offset the group committed, per partition
    owner,      \* pod a partition is assigned to
    position,   \* next offset its owner fetches, Unresolved after a rebalance
    claims,     \* keys present in Redis
    wins,       \* how many dispatches were told that they own the claim
    dlq,        \* messages the dead letter topic holds
    done,       \* messages whose handler returned
    skipped,    \* messages dropped as duplicates
    pc,         \* what a pod is waiting for
    stop,       \* _stop_event
    attempt,    \* attempt of _process_with_retry
    at,         \* raw_message: the message last taken from the batch
    next,       \* the batch of pod k holds next[k][p] .. last[k][p] - 1
    last,
    budget      \* faults that may still strike

kafka == <<committed, owner, position>>
redis == <<claims, wins>>
outcomes == <<dlq, done, skipped>>
batch == <<at, next, last>>
pod == <<pc, stop, attempt, batch>>
vars == <<kafka, redis, outcomes, pod, budget>>

PodStates == {"down", "loop", "claim", "handle", "commit", "dlq", "settle", "exit"}

Live == {k \in Pods : pc[k] # "down"}

EmptyBatch == [p \in Partitions |-> 0]

Init ==
    /\ committed = [p \in Partitions |-> 0]
    /\ owner = [p \in Partitions |-> NoPod]
    /\ position = [p \in Partitions |-> Unresolved]
    /\ claims = {}
    /\ wins = [e \in EventIds |-> 0]
    /\ dlq = {}
    /\ done = {}
    /\ skipped = {}
    /\ pc = [k \in Pods |-> "down"]
    /\ stop = [k \in Pods |-> FALSE]
    /\ attempt = [k \in Pods |-> 0]
    /\ at = [k \in Pods |-> NoMessage]
    /\ next = [k \in Pods |-> EmptyBatch]
    /\ last = [k \in Pods |-> EmptyBatch]
    /\ budget = Budget

-----------------------------------------------------------------------------
(***************************************************************************)
(* Helpers                                                                 *)
(***************************************************************************)

Goto(k, from, to) ==
    /\ pc[k] = from
    /\ pc' = [pc EXCEPT ![k] = to]

Spend(fault) ==
    /\ budget[fault] > 0
    /\ budget' = [budget EXCEPT ![fault] = @ - 1]

Spent(fault) == Budget[fault] - budget[fault]

Pending(k) == {p \in Partitions : next[k][p] < last[k][p]}

\* The locals of _loop and _dispatch are gone once the loop is left.
DropBatch(k) ==
    /\ at' = [at EXCEPT ![k] = NoMessage]
    /\ next' = [next EXCEPT ![k] = EmptyBatch]
    /\ last' = [last EXCEPT ![k] = EmptyBatch]

\* An exception leaves _dispatch and _loop: run() goes to its finally clause.
Crash(k, from) ==
    /\ Goto(k, from, "exit")
    /\ DropBatch(k)
    /\ UNCHANGED <<stop, attempt>>

\* The broker takes a commit from the pod that the partition is assigned to.
Owns(k) == owner[at[k][1]] = k

\* Mutants of RecordCommit: the offset of the message itself, and one too far.
CommitMessageOffset(k) == committed' = [committed EXCEPT ![at[k][1]] = at[k][2]]
CommitTwoAhead(k) == committed' = [committed EXCEPT ![at[k][1]] = at[k][2] + 2]

RecordCommit(k) == committed' = [committed EXCEPT ![at[k][1]] = at[k][2] + 1]

\* The group forgets a member: its partitions wait for a new owner.
LeaveGroup(k) ==
    /\ owner' = [p \in Partitions |-> IF owner[p] = k THEN NoPod ELSE owner[p]]
    /\ position' = [p \in Partitions |-> IF owner[p] = k THEN Unresolved ELSE position[p]]
    /\ UNCHANGED committed

-----------------------------------------------------------------------------
(***************************************************************************)
(* The life of a pod                                                       *)
(***************************************************************************)

\* run(): clients started, on_start() done, the pod has joined the group.
Start(k) ==
    /\ Goto(k, "down", "loop")
    /\ stop' = [stop EXCEPT ![k] = FALSE]
    /\ UNCHANGED <<kafka, redis, outcomes, attempt, batch, budget>>

\* SIGTERM or SIGINT: only the event is set, the current message goes on.
Signal(k) ==
    /\ pc[k] # "down"
    /\ ~stop[k]
    /\ Spend("signal")
    /\ stop' = [stop EXCEPT ![k] = TRUE]
    /\ UNCHANGED <<kafka, redis, outcomes, pc, attempt, batch>>

\* _loop sees the event between two messages and drops the rest of its batch.
LeaveLoop(k) ==
    /\ stop[k]
    /\ Goto(k, "loop", "exit")
    /\ DropBatch(k)
    /\ UNCHANGED <<kafka, redis, outcomes, stop, attempt, budget>>

\* _shutdown(): consumer.stop() leaves the group and the process ends.
Shutdown(k) ==
    /\ Goto(k, "exit", "down")
    /\ LeaveGroup(k)
    /\ UNCHANGED <<redis, outcomes, stop, attempt, batch, budget>>

\* The process dies without _shutdown(): SIGKILL, out of memory, node lost.
Kill(k) ==
    /\ pc[k] # "down"
    /\ Spend("kill")
    /\ pc' = [pc EXCEPT ![k] = "down"]
    /\ DropBatch(k)
    /\ LeaveGroup(k)
    /\ UNCHANGED <<redis, outcomes, stop, attempt>>

-----------------------------------------------------------------------------
(***************************************************************************)
(* The loop                                                                *)
(***************************************************************************)

\* getmany() answers with messages of some of the pod's partitions, and the
\* position of each moves past what it answered with.
Poll(k) ==
    /\ pc[k] = "loop"
    /\ ~stop[k]
    /\ Pending(k) = {}
    /\ \E hi \in [Partitions -> Ends] :
         LET fetched == {p \in Partitions : hi[p] > 0} IN
         /\ fetched # {}
         /\ \A p \in fetched :
              /\ owner[p] = k
              /\ position[p] # Unresolved
              /\ hi[p] \in position[p] + 1 .. Len(Log[p])
         /\ at' = [at EXCEPT ![k] = NoMessage]
         /\ next' = [next EXCEPT ![k] =
                       [p \in Partitions |-> IF p \in fetched THEN position[p] ELSE 0]]
         /\ last' = [last EXCEPT ![k] = hi]
         /\ position' = [p \in Partitions |-> IF p \in fetched THEN hi[p] ELSE position[p]]
    /\ UNCHANGED <<committed, owner, redis, outcomes, pc, stop, attempt, budget>>

\* getmany() raises anything but a timeout: nothing catches it.  Start and then
\* this is also an on_start() that raises.
PollError(k) ==
    /\ ~stop[k]
    /\ Pending(k) = {}
    /\ Crash(k, "loop")
    /\ Spend("error")
    /\ UNCHANGED <<kafka, redis, outcomes>>

\* A partition of the batch is finished before the next one is begun.
Upcoming(k) ==
    IF at[k] # NoMessage /\ at[k][1] \in Pending(k) THEN {at[k][1]} ELSE Pending(k)

\* Mutant of FirstStep: the idempotency check is forgotten.
HandleUnclaimed(kind) ==
    CASE kind = "event" -> "handle"
      [] kind = "malformed" -> "dlq"

\* What _dispatch does first: a malformed message goes to the DLQ, an event
\* is claimed, and a scalar raises before anything is done about it.
FirstStep(kind) ==
    CASE kind = "event" -> "claim"
      [] kind = "malformed" -> "dlq"

\* _loop hands the next message of the batch to _dispatch.
TakeMessage(k) ==
    /\ pc[k] = "loop"
    /\ ~stop[k]
    /\ \E p \in Upcoming(k) :
         LET m == <<p, next[k][p]>> IN
         \/ /\ Kind(m) # "scalar"
            /\ pc' = [pc EXCEPT ![k] = FirstStep(Kind(m))]
            /\ at' = [at EXCEPT ![k] = m]
            /\ next' = [next EXCEPT ![k][p] = @ + 1]
            /\ UNCHANGED <<stop, attempt, last>>
         \/ /\ Kind(m) = "scalar"
            /\ Crash(k, "loop")
    /\ UNCHANGED <<kafka, redis, outcomes, budget>>

-----------------------------------------------------------------------------
(***************************************************************************)
(* Idempotency: SET NX on the key                                          *)
(***************************************************************************)

\* Mutant of ClaimNew: SET without NX, so every dispatch owns the key.
ClaimAlways(k) ==
    /\ Goto(k, "claim", "handle")
    /\ claims' = claims \cup {Key(at[k])}
    /\ wins' = [wins EXCEPT ![Key(at[k])] = @ + 1]
    /\ attempt' = [attempt EXCEPT ![k] = 0]
    /\ UNCHANGED <<kafka, outcomes, stop, batch, budget>>

\* The key was not there: this dispatch owns it and calls the handler.
ClaimNew(k) ==
    /\ Goto(k, "claim", "handle")
    /\ Key(at[k]) \notin claims
    /\ claims' = claims \cup {Key(at[k])}
    /\ wins' = [wins EXCEPT ![Key(at[k])] = @ + 1]
    /\ attempt' = [attempt EXCEPT ![k] = 0]
    /\ UNCHANGED <<kafka, outcomes, stop, batch, budget>>

\* The key was there: the message is dropped and its offset committed.
ClaimDuplicate(k) ==
    /\ Goto(k, "claim", "settle")
    /\ Key(at[k]) \in claims
    /\ skipped' = skipped \cup {at[k]}
    /\ UNCHANGED <<kafka, redis, dlq, done, stop, attempt, batch, budget>>

\* Redis fails, perhaps after it set the key: nothing catches the exception.
ClaimError(k) ==
    /\ Crash(k, "claim")
    /\ Spend("error")
    /\ claims' \in {claims, claims \cup {Key(at[k])}}
    /\ UNCHANGED <<kafka, wins, outcomes>>

\* The TTL of a key runs out.
Expire(e) ==
    /\ e \in claims
    /\ Spend("expire")
    /\ claims' = claims \ {e}
    /\ UNCHANGED <<kafka, wins, outcomes, pod>>

-----------------------------------------------------------------------------
(***************************************************************************)
(* _process_with_retry                                                     *)
(***************************************************************************)

\* process_message() returns: the commit is next, inside the same try.
HandlerReturns(k) ==
    /\ Goto(k, "handle", "commit")
    /\ done' = done \cup {at[k]}
    /\ UNCHANGED <<kafka, redis, dlq, skipped, stop, attempt, batch, budget>>

\* RetryableError with attempts left: on_message_retry(), back off, try again.
HandlerRetries(k) ==
    /\ pc[k] = "handle"
    /\ attempt[k] < MaxRetries
    /\ attempt' = [attempt EXCEPT ![k] = @ + 1]
    /\ UNCHANGED <<kafka, redis, outcomes, pc, stop, batch, budget>>

\* on_message_retry() raises: it runs in an except clause, so nothing catches it.
RetryHookError(k) ==
    /\ attempt[k] < MaxRetries
    /\ Crash(k, "handle")
    /\ Spend("error")
    /\ UNCHANGED <<kafka, redis, outcomes>>

\* Mutants of HandlerGivesUp and HandlerFails: the message is dropped without a
\* dead letter, and the claim is released before the message has ended.
DropExhausted(k) ==
    /\ attempt[k] >= MaxRetries
    /\ Goto(k, "handle", "settle")
    /\ UNCHANGED <<kafka, redis, outcomes, stop, attempt, batch, budget>>

ReleaseOnFailure(k) ==
    /\ Goto(k, "handle", "dlq")
    /\ claims' = claims \ {Key(at[k])}
    /\ UNCHANGED <<kafka, wins, outcomes, stop, attempt, batch, budget>>

\* RetryableError on the last attempt.
HandlerGivesUp(k) ==
    /\ attempt[k] >= MaxRetries
    /\ Goto(k, "handle", "dlq")
    /\ UNCHANGED <<kafka, redis, outcomes, stop, attempt, batch, budget>>

\* NonRetryableError, or any other exception.
HandlerFails(k) ==
    /\ Goto(k, "handle", "dlq")
    /\ UNCHANGED <<kafka, redis, outcomes, stop, attempt, batch, budget>>

-----------------------------------------------------------------------------
(***************************************************************************)
(* Commits and the dead letter topic                                       *)
(***************************************************************************)

\* Mutant of CommitOk: the return after the commit is missing.
CommitWithoutReturn(k) ==
    /\ Goto(k, "commit", "handle")
    /\ Owns(k)
    /\ RecordCommit(k)
    /\ UNCHANGED <<owner, position, redis, outcomes, stop, attempt, batch, budget>>

CommitOk(k) ==
    /\ Goto(k, "commit", "loop")
    /\ Owns(k)
    /\ RecordCommit(k)
    /\ UNCHANGED <<owner, position, redis, outcomes, stop, attempt, batch, budget>>

\* The pod lost the partition: the commit raises inside the try of
\* _process_with_retry, whose last except clause sends the message to the DLQ.
CommitRejected(k) ==
    /\ Goto(k, "commit", "dlq")
    /\ ~Owns(k)
    /\ UNCHANGED <<kafka, redis, outcomes, stop, attempt, batch, budget>>

\* The commit of the owner fails, perhaps after the broker recorded it.
CommitError(k) ==
    /\ Goto(k, "commit", "dlq")
    /\ Owns(k)
    /\ Spend("error")
    /\ RecordCommit(k) \/ UNCHANGED committed
    /\ UNCHANGED <<owner, position, redis, outcomes, stop, attempt, batch>>

SendDlq(k) ==
    /\ Goto(k, "dlq", "settle")
    /\ dlq' = dlq \cup {at[k]}
    /\ UNCHANGED <<kafka, redis, done, skipped, stop, attempt, batch, budget>>

\* Mutant of DlqError: the failure is logged and not raised again.
DlqErrorSwallowed(k) ==
    /\ Goto(k, "dlq", "settle")
    /\ Spend("error")
    /\ UNCHANGED <<kafka, redis, outcomes, stop, attempt, batch>>

\* The producer fails, perhaps after the broker recorded the message; the
\* exception is logged and raised again, and nothing catches it.
DlqError(k) ==
    /\ Crash(k, "dlq")
    /\ Spend("error")
    /\ dlq' \in {dlq, dlq \cup {at[k]}}
    /\ UNCHANGED <<kafka, redis, done, skipped>>

\* The commit after a DLQ send, or of a duplicate.
SettleOk(k) ==
    /\ Goto(k, "settle", "loop")
    /\ Owns(k)
    /\ RecordCommit(k)
    /\ UNCHANGED <<owner, position, redis, outcomes, stop, attempt, batch, budget>>

\* That commit is outside the try, so when it raises the pod goes down.
SettleRejected(k) ==
    /\ Crash(k, "settle")
    /\ ~Owns(k)
    /\ UNCHANGED <<kafka, redis, outcomes, budget>>

SettleError(k) ==
    /\ Crash(k, "settle")
    /\ Owns(k)
    /\ Spend("error")
    /\ RecordCommit(k) \/ UNCHANGED committed
    /\ UNCHANGED <<owner, position, redis, outcomes>>

-----------------------------------------------------------------------------
(***************************************************************************)
(* The group coordinator (Kafka and aiokafka, outside this repository).    *)
(* Every rebalance makes each assigned partition start again from its      *)
(* committed offset; a batch that getmany() handed out stays in the hands  *)
(* of the pod that asked for it.                                           *)
(***************************************************************************)

\* A rebalance that may take partitions from a live pod; NoPod is a partition
\* that is revoked and not assigned yet.
Rebalance ==
    /\ Spend("rebalance")
    /\ owner' \in [Partitions -> Live \cup {NoPod}]
    /\ position' = [p \in Partitions |-> Unresolved]
    /\ UNCHANGED <<committed, redis, outcomes, pod>>

\* The end of a rebalance: partitions without an owner are given to members.
Assign ==
    /\ Live # {}
    /\ \E p \in Partitions : owner[p] = NoPod
    /\ owner' \in [Partitions -> Live]
    /\ \A p \in Partitions : owner[p] # NoPod => owner'[p] = owner[p]
    /\ position' = [p \in Partitions |-> Unresolved]
    /\ UNCHANGED <<committed, redis, outcomes, pod, budget>>

\* The owner asks where the group stands: auto_offset_reset is "earliest".
ResolvePosition(p) ==
    /\ owner[p] # NoPod
    /\ position[p] = Unresolved
    /\ position' = [position EXCEPT ![p] = committed[p]]
    /\ UNCHANGED <<committed, owner, redis, outcomes, pod, budget>>

-----------------------------------------------------------------------------

\* The steps of a pod that answer one of its awaits without a fault.
Progress(k) ==
    \/ LeaveLoop(k) \/ Shutdown(k)
    \/ Poll(k) \/ TakeMessage(k)
    \/ ClaimNew(k) \/ ClaimDuplicate(k)
    \/ HandlerReturns(k) \/ HandlerRetries(k) \/ HandlerGivesUp(k) \/ HandlerFails(k)
    \/ CommitOk(k) \/ CommitRejected(k)
    \/ SendDlq(k)
    \/ SettleOk(k) \/ SettleRejected(k)

\* A request of a pod fails.
Failure(k) ==
    \/ PollError(k) \/ ClaimError(k) \/ RetryHookError(k)
    \/ CommitError(k) \/ DlqError(k) \/ SettleError(k)

Coordinator == Rebalance \/ Assign \/ \E p \in Partitions : ResolvePosition(p)

Next ==
    \/ \E k \in Pods : Start(k) \/ Signal(k) \/ Kill(k) \/ Progress(k) \/ Failure(k)
    \/ \E e \in EventIds : Expire(e)
    \/ Coordinator

Spec == Init /\ [][Next]_vars

(***************************************************************************)
(* The event loop of a pod resumes an await that has its answer, K8s       *)
(* restarts a pod that ended, and the coordinator completes a rebalance.   *)
(* No fault is fair: it may strike or not.                                 *)
(***************************************************************************)
Fairness ==
    /\ \A k \in Pods : WF_vars(Start(k)) /\ WF_vars(Progress(k))
    /\ WF_vars(Assign)
    /\ \A p \in Partitions : WF_vars(ResolvePosition(p))

FairSpec == Spec /\ Fairness

-----------------------------------------------------------------------------
(***************************************************************************)
(* Properties                                                              *)
(***************************************************************************)

\* Every variable has its type; offsets never leave their partition.
TypeOK ==
    /\ committed \in [Partitions -> Ends]
    /\ \A p \in Partitions : committed[p] <= Len(Log[p])
    /\ owner \in [Partitions -> Pods \cup {NoPod}]
    /\ position \in [Partitions -> Ends \cup {Unresolved}]
    /\ claims \subseteq EventIds
    /\ wins \in [EventIds -> Nat]
    /\ dlq \subseteq Messages
    /\ done \subseteq Messages
    /\ skipped \subseteq Messages
    /\ pc \in [Pods -> PodStates]
    /\ stop \in [Pods -> BOOLEAN]
    /\ attempt \in [Pods -> 0 .. MaxRetries]
    /\ at \in [Pods -> Messages \cup {NoMessage}]
    /\ next \in [Pods -> [Partitions -> Ends]]
    /\ last \in [Pods -> [Partitions -> Ends]]
    /\ \A k \in Pods : \A p \in Partitions : last[k][p] <= Len(Log[p])
    /\ budget \in [FaultKinds -> Nat]

\* How a message may have ended: an event was handled, dead-lettered or
\* dropped as a duplicate, a malformed message was dead-lettered, and nothing
\* ends a scalar.
AccountedFor(m) ==
    \/ Kind(m) = "event" /\ m \in done \cup dlq \cup skipped
    \/ Kind(m) = "malformed" /\ m \in dlq

\* The group never commits past a message that has not ended: whatever pod
\* committed, after whatever rebalance, each offset below the committed one
\* was handled, dead-lettered or dropped as a duplicate (_commit always comes
\* last in _dispatch, and _loop takes the messages of a partition in order).
NoSkippedOffset ==
    \A p \in Partitions : \A o \in 0 .. committed[p] - 1 : AccountedFor(<<p, o>>)

\* A key is won once, plus once for each time its TTL ran out: redeliveries,
\* rebalances and restarts do not invoke the handler again (claim() is one
\* atomic SET NX, and nothing in _dispatch removes a key).
HandlerOncePerClaim ==
    \A e \in EventIds : wins[e] <= 1 + Spent("expire")

\* As long as no TTL ran out, two pods never run the handler of one event at
\* the same time, although a rebalance lets both hold the same message.
NoConcurrentHandling ==
    Spent("expire") = 0 =>
        \A j, k \in Pods :
            j # k /\ pc[j] = "handle" /\ pc[k] = "handle" => Key(at[j]) # Key(at[k])

\* Events that a live pod is handling or about to dead-letter.
InFlight == {at[k] : k \in {j \in Pods : pc[j] \in {"handle", "dlq"}}}

Resolved(e) ==
    \E m \in done \cup dlq \cup InFlight : Kind(m) = "event" /\ Key(m) = e

Lost ==
    {e \in EventIds :
        /\ e \in claims \/ \E m \in skipped : Key(m) = e
        /\ ~Resolved(e)}

\* The claim is taken before the handler runs, so a claimed event can be lost;
\* but one crash or one failed request loses at most one event, and graceful
\* shutdowns, rebalances and expired keys lose none.
LossBounded == Cardinality(Lost) <= Spent("kill") + Spent("error")

\* Seen from outside, the group is Delivery: no crash, rebalance or lost answer
\* commits past a message that has not ended, handles or dead-letters an event
\* nobody claimed, or drops one whose claim is free.
Outside == INSTANCE Delivery
ImplementsDelivery == Outside!Spec

\* A handled event reaches the DLQ all the same when its commit fails; that
\* happens at most once per failed request, and at most once per rebalance for
\* each partition, whose former owner may have had a message of it in hand; an
\* expired key adds one more, because the event runs again and may then fail.
SpuriousDeadLettersBounded ==
    Cardinality(done \cap dlq) <=
        Spent("error") + Spent("expire") + Cardinality(Partitions) * Spent("rebalance")

\* Every message ends and the owner of its partition stands behind it for good:
\* pods that crash on a rejected commit come back, and redelivered messages are
\* drained as duplicates.  Stated for topics without scalars.
EventuallyDrained ==
    (\A m \in Messages : Kind(m) # "scalar") =>
        \A p \in Partitions :
            <>[](position[p] = Len(Log[p]) /\ \A o \in Offsets(p) : AccountedFor(<<p, o>>))

\* As long as Kafka takes no partition from a live pod, the committed offsets
\* reach the end too, after any crash.  With such a rebalance they may not: a
\* commit that arrives when its partition went to another pod and came back
\* moves the offset back.
EventuallyCommitted ==
    (\A m \in Messages : Kind(m) # "scalar") =>
        \A p \in Partitions :
            <>[](committed[p] = Len(Log[p]) \/ Spent("rebalance") > 0)

-----------------------------------------------------------------------------
(***************************************************************************)
(* The inductive invariant behind NoSkippedOffset and ImplementsDelivery   *)
(***************************************************************************)

\* Pod k is inside _dispatch with the message at[k].
Busy(k) == pc[k] \notin {"down", "loop", "exit"}

\* What pod k has in hand: its message is the last one it took, the answer of
\* the claim and the commit that is due agree with how far it got, and of the
\* messages it took only the current one may still be open.
PodInv(k) ==
    /\ Busy(k) =>
         /\ at[k] \in Messages
         /\ next[k][at[k][1]] = at[k][2] + 1
         /\ Kind(at[k]) \in {"event", "malformed"}
    /\ pc[k] \in {"claim", "handle", "commit"} => Kind(at[k]) = "event"
    /\ pc[k] \in {"handle", "commit", "dlq"} /\ Kind(at[k]) = "event" =>
         wins[Key(at[k])] > 0
    /\ pc[k] \in {"commit", "settle"} => AccountedFor(at[k])
    /\ \A p \in Partitions : \A o \in 0 .. next[k][p] - 1 :
         AccountedFor(<<p, o>>) \/ (Busy(k) /\ at[k] = <<p, o>>)

\* What was fetched of partition p has ended or is in the hands of its owner,
\* unless the owner is about to leave the group.
Fetched(p) ==
    LET k == owner[p] IN
    position[p] # Unresolved /\ pc[k] # "exit" =>
        \A o \in 0 .. position[p] - 1 :
            \/ AccountedFor(<<p, o>>)
            \/ o \in next[k][p] .. last[k][p] - 1
            \/ Busy(k) /\ at[k] = <<p, o>>

PartitionInv(p) ==
    /\ position[p] # Unresolved => owner[p] # NoPod
    /\ owner[p] # NoPod => pc[owner[p]] # "down"
    /\ Fetched(p)

DeliveryInv ==
    /\ TypeOK
    /\ NoSkippedOffset
    /\ \A k \in Pods : PodInv(k)
    /\ \A p \in Partitions : PartitionInv(p)

\* A key in Redis stands for at most one win, and a handler that runs holds
\* the key of its event, unless a TTL ran out.
ClaimInv ==
    /\ \A f \in FaultKinds : budget[f] <= Budget[f]
    /\ \A e \in EventIds :
         wins[e] <= Spent("expire") + (IF e \in claims THEN 1 ELSE 0)
    /\ Spent("expire") = 0 =>
         \A k \in Pods : pc[k] = "handle" => Key(at[k]) \in claims
    /\ NoConcurrentHandling

-----------------------------------------------------------------------------
(***************************************************************************)
(* What the documentation says and the code does not do                    *)
(***************************************************************************)

\* docs/architecture.md:132-135: at-least-once delivery; a message whose
\* consumer dies before it is processed is delivered again.  Here: when a
\* message is dropped as a duplicate, its event was handled, dead-lettered,
\* or is in the hands of a pod.
AtLeastOnce == \A m \in skipped : Resolved(Key(m))

\* docs/error-handling.md:133: the consumer always advances, it never blocks.
AlwaysAdvances == \A p \in Partitions : <>(committed[p] = Len(Log[p]))
=============================================================================
