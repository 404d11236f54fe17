------------------------------- MODULE Topic -------------------------------
(***************************************************************************)
(* The topic a consumer reads: what _parse and _extract_event_id           *)
(* (src/src/core/consumer.py) can tell apart about a message.              *)
(***************************************************************************)
EXTENDS Integers, Sequences, FiniteSets

CONSTANTS
    Partitions,  \* partitions of the topic
    EventIds,    \* idempotency keys that occur in the topic
    Log          \* Log[p] is the sequence of messages of partition p

(***************************************************************************)
(* "event" is a JSON object; "malformed" is a payload orjson cannot parse, *)
(* or no payload; "scalar" is a valid JSON document that is no object      *)
(* (null, [], 7, ...), which _parse lets through.                          *)
(***************************************************************************)
MessageKinds == {"event", "malformed", "scalar"}

ASSUME LogAssumption ==
    Log \in [Partitions -> Seq([kind : MessageKinds, id : EventIds])]

Offsets(p) == 0 .. Len(Log[p]) - 1

\* Where a partition may end, or how far it may be committed.
Ends == UNION {0 .. Len(Log[p]) : p \in Partitions}

\* A message is identified by its partition and its offset.
Messages == UNION {{p} \X Offsets(p) : p \in Partitions}

Kind(m) == Log[m[1]][m[2] + 1].kind

\* _extract_event_id: the key under which a message is claimed.
Key(m) == Log[m[1]][m[2] + 1].id
=============================================================================
