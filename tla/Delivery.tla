----------------------------- MODULE Delivery ------------------------------
(***************************************************************************)
(* What a consumer group promises, seen from outside: the offsets it       *)
(* committed, the claims in Redis, the calls of the handler and the dead   *)
(* letter topic.  Pods, batches, assignments, retries and crashes are not  *)
(* visible here; ConsumerGroup is shown to implement this module.          *)
(***************************************************************************)
EXTENDS Topic

VARIABLES committed, claims, wins, dlq, done, skipped

outside == <<committed, claims, wins, dlq, done, skipped>>

Init ==
    /\ committed = [p \in Partitions |-> 0]
    /\ claims = {}
    /\ wins = [e \in EventIds |-> 0]
    /\ dlq = {}
    /\ done = {}
    /\ skipped = {}

\* How a message ends: an event is handled, dead-lettered or dropped as a
\* duplicate, a malformed message is dead-lettered, and nothing ends a scalar.
Ended(m) ==
    \/ Kind(m) = "event" /\ m \in done \cup dlq \cup skipped
    \/ Kind(m) = "malformed" /\ m \in dlq

\* A dispatch obtains the claim of an event.
Win(e) ==
    /\ e \notin claims
    /\ claims' = claims \cup {e}
    /\ wins' = [wins EXCEPT ![e] = @ + 1]
    /\ UNCHANGED <<committed, dlq, done, skipped>>

\* A claim is set, but nobody learns that it is his.
WinUnnoticed(e) ==
    /\ e \notin claims
    /\ claims' = claims \cup {e}
    /\ UNCHANGED <<committed, wins, dlq, done, skipped>>

Forget(e) ==
    /\ claims' = claims \ {e}
    /\ UNCHANGED <<committed, wins, dlq, done, skipped>>

\* Only an event that somebody won is handled, or dead-lettered.
Handle(m) ==
    /\ Kind(m) = "event"
    /\ wins[Key(m)] > 0
    /\ done' = done \cup {m}
    /\ UNCHANGED <<committed, claims, wins, dlq, skipped>>

DeadLetter(m) ==
    /\ \/ Kind(m) = "event" /\ wins[Key(m)] > 0
       \/ Kind(m) = "malformed"
    /\ dlq' = dlq \cup {m}
    /\ UNCHANGED <<committed, claims, wins, done, skipped>>

\* Only an event whose claim is taken is dropped.
Skip(m) ==
    /\ Kind(m) = "event"
    /\ Key(m) \in claims
    /\ skipped' = skipped \cup {m}
    /\ UNCHANGED <<committed, claims, wins, dlq, done>>

\* An offset is committed only when every message up to it has ended.
Acknowledge(p, o) ==
    /\ \A i \in 0 .. o : Ended(<<p, i>>)
    /\ committed' = [committed EXCEPT ![p] = o + 1]
    /\ UNCHANGED <<claims, wins, dlq, done, skipped>>

Next ==
    \/ \E e \in EventIds : Win(e) \/ WinUnnoticed(e) \/ Forget(e)
    \/ \E m \in Messages :
         Handle(m) \/ DeadLetter(m) \/ Skip(m) \/ Acknowledge(m[1], m[2])

Spec == Init /\ [][Next]_outside
=============================================================================
