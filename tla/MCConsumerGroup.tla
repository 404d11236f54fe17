-------------------------- MODULE MCConsumerGroup --------------------------
(***************************************************************************)
(* Instances of ConsumerGroup for TLC.  Each topic is as small as its      *)
(* question allows; each budget names the faults the run is about.         *)
(***************************************************************************)
EXTENDS ConsumerGroup, TLC

CONSTANTS k1, k2, p1, e1, e2

Event(e) == [kind |-> "event", id |-> e]
Malformed(e) == [kind |-> "malformed", id |-> e]
Scalar(e) == [kind |-> "scalar", id |-> e]

OnePod == {k1}
TwoPods == {k1, k2}
OnePartition == {p1}
TwoEvents == {e1, e2}

\* A malformed message between an event and its repetition, and a scalar.
MixedLog == p1 :> <<Event(e1), Malformed(e1), Event(e1), Scalar(e2)>>

OneEvent == p1 :> <<Event(e1)>>

\* An event with a scalar behind it.
ScalarLog == p1 :> <<Event(e1), Scalar(e2)>>

\* An event and a malformed message.
DrainLog == p1 :> <<Event(e1), Malformed(e2)>>

NoFaults == [f \in FaultKinds |-> 0]
Faults(kill, signal, rebalance, error, expire) ==
    [kill |-> kill, signal |-> signal, rebalance |-> rebalance,
     error |-> error, expire |-> expire]

RebalanceBudget == Faults(0, 1, 2, 0, 1)
KillBudget == Faults(1, 0, 0, 0, 0)
LivenessBudget == Faults(1, 1, 1, 1, 0)

PodSymmetry == Permutations(TwoPods)
=============================================================================
