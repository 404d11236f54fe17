------------------------- MODULE MCBackgroundTasks -------------------------
(***************************************************************************)
(* Instances of BackgroundTasks for TLC.                                   *)
(***************************************************************************)
EXTENDS BackgroundTasks, TLC

CONSTANTS k1, k2

OnePod == {k1}
TwoPods == {k1, k2}

Faults(kill, signal, rebalance, error, expire) ==
    [kill |-> kill, signal |-> signal, rebalance |-> rebalance, error |-> error,
     expire |-> expire]

AllFaults == Faults(1, 1, 1, 1, 1)
NoSignal == Faults(1, 0, 1, 1, 1)
OneStop == Faults(0, 1, 0, 0, 0)

PodSymmetry == Permutations(TwoPods)
=============================================================================
