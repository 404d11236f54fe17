-------------------------------- MODULE Jobs --------------------------------
(***************************************************************************)
(* What the background pattern promises about an event, seen from Kafka,   *)
(* the table of jobs and the dead letter topic: the event is accepted, its *)
(* job begins, is worked on, and ends.  Pods, tasks, assignments and       *)
(* crashes are not visible here; BackgroundTasks is shown to implement     *)
(* this module.                                                            *)
(***************************************************************************)
EXTENDS Integers

CONSTANT Last  \* the partition holds the events 1 .. Last

Events == 1 .. Last

VARIABLES
    job,        \* job[e]: how far the event is
    expired,    \* events that may be taken for new ones again
    committed,  \* the last event whose offset is committed
    worked,     \* worked[e]: how often its work was carried out
    dlq         \* events in the dead letter topic

jobs == <<job, expired, committed, worked, dlq>>

JobStates == {"new", "accepted", "begun", "finished", "failed"}

Init ==
    /\ job = [e \in Events |-> "new"]
    /\ expired = {}
    /\ committed = 0
    /\ worked = [e \in Events |-> 0]
    /\ dlq = {}

Move(e, from, to) ==
    /\ job[e] = from
    /\ job' = [job EXCEPT ![e] = to]
    /\ UNCHANGED <<expired, committed, worked, dlq>>

\* Nothing is committed or dead-lettered that was not accepted before.
Accept(e) == Move(e, "new", "accepted")

\* What has ended begins again only after its claim expired.
Begin(e) ==
    \/ Move(e, "accepted", "begun")
    \/ e \in expired /\ (Move(e, "finished", "begun") \/ Move(e, "failed", "begun"))

Expire(e) ==
    /\ job[e] # "new"
    /\ expired' = expired \cup {e}
    /\ UNCHANGED <<job, committed, worked, dlq>>

\* The table knows an event before any work is done for it, also when that is
\* repeated after its end.
Work(e) ==
    /\ job[e] \in {"begun", "finished", "failed"}
    /\ worked' = [worked EXCEPT ![e] = @ + 1]
    /\ UNCHANGED <<job, expired, committed, dlq>>

\* A job is a success only when it was worked on, and what has failed does not
\* become one.
Finish(e) == worked[e] > 0 /\ Move(e, "begun", "finished")

\* A success whose answer was lost may be recorded as a failure after all.
Fail(e) == Move(e, "begun", "failed") \/ Move(e, "finished", "failed")

DeadLetter(e) ==
    /\ job[e] # "new"
    /\ dlq' = dlq \cup {e}
    /\ UNCHANGED <<job, expired, committed, worked>>

Acknowledge(e) ==
    /\ \A f \in 1 .. e : job[f] # "new"
    /\ committed' = e
    /\ UNCHANGED <<job, expired, worked, dlq>>

Next ==
    \E e \in Events :
        \/ Accept(e) \/ Expire(e) \/ Begin(e) \/ Work(e) \/ Finish(e) \/ Fail(e)
        \/ DeadLetter(e) \/ Acknowledge(e)

Spec == Init /\ [][Next]_jobs
=============================================================================
