---------------------------- MODULE HealthCheck ----------------------------
(***************************************************************************)
(* The health file of a pod: HealthCheckWriter (src/src/core/health.py)    *)
(* writes it from a task on the event loop of run(), and the kubelet reads *)
(* its age (src/k8s/deployment.yaml).  /tmp is an emptyDir, so the file    *)
(* outlives the process that wrote it.  A process that is to end gets a    *)
(* SIGTERM, and a SIGKILL when its grace period is over.                   *)
(*                                                                         *)
(* Time passes in ticks.  A write or a probe that is due, or the end of a  *)
(* grace period, comes before the next tick, except that a blocked event   *)
(* loop writes nothing.                                                    *)
(***************************************************************************)
EXTENDS Integers

CONSTANTS
    Interval,      \* health_interval_seconds
    MaxAge,        \* age from which the probe takes the file for stale
    Period,        \* periodSeconds
    InitialDelay,  \* initialDelaySeconds
    Threshold,     \* failureThreshold
    Grace,         \* terminationGracePeriodSeconds
    Budget,        \* how often each kind of fault may strike
    MaxFaults      \* how many faults of all kinds may strike

FaultKinds == {"signal", "block", "hang", "error", "kill", "timeout"}

ASSUME TimesAssumption ==
    /\ Interval \in Nat \ {0} /\ MaxAge \in Nat /\ Interval < MaxAge
    /\ Period \in 1 .. MaxAge - 1 /\ InitialDelay \in 0 .. MaxAge /\ Threshold \in Nat \ {0}
    /\ Grace \in Nat
ASSUME BudgetAssumption == Budget \in [FaultKinds -> Nat] /\ MaxFaults \in Nat

VARIABLES
    pc,           \* phase of run()
    blocked,      \* synchronous code holds the event loop
    hung,         \* run() awaits something that never comes
    writer,       \* the task of HealthCheckWriter
    wake,         \* ticks until the writer wants to write
    exists,       \* the file exists
    age,          \* ticks since it was written, at most MaxAge
    stuck,        \* ticks of a blocked loop, until the writer gets its turn
    probe,        \* ticks until the next liveness probe
    misses,       \* failed probes in a row
    timedOut,     \* how many of these came up to the last that timed out
    terminating,  \* the process was sent a SIGTERM
    grace,        \* ticks until it is sent a SIGKILL
    budget        \* faults that may still strike

file == <<exists, age>>
probes == <<probe, misses, timedOut>>
ending == <<terminating, grace>>
vars == <<pc, blocked, hung, writer, wake, file, stuck, probes, ending, budget>>

Init ==
    /\ pc = "off"
    /\ blocked = FALSE
    /\ hung = FALSE
    /\ writer = "none"
    /\ wake = 0
    /\ exists = FALSE
    /\ age = 0
    /\ stuck = 0
    /\ probe = InitialDelay
    /\ misses = 0
    /\ timedOut = 0
    /\ terminating = FALSE
    /\ grace = 0
    /\ budget = Budget

Spent(fault) == Budget[fault] - budget[fault]

\* Faults of any kind that struck.
AllSpent ==
    Spent("signal") + Spent("block") + Spent("hang") + Spent("error") + Spent("kill")
        + Spent("timeout")

Spend(fault) ==
    /\ budget[fault] > 0
    /\ AllSpent < MaxFaults
    /\ budget' = [budget EXCEPT ![fault] = @ - 1]

Least(a, b) == IF a < b THEN a ELSE b

\* The process ends, whatever it was doing, and the probes with it.
EndProcess ==
    /\ pc' = "off"
    /\ blocked' = FALSE
    /\ hung' = FALSE
    /\ writer' = "none"
    /\ wake' = 0
    /\ stuck' = 0
    /\ probe' = InitialDelay
    /\ misses' = 0
    /\ timedOut' = 0
    /\ terminating' = FALSE
    /\ grace' = 0

\* The event loop is free to go on with run().
Free == ~blocked /\ ~hung

-----------------------------------------------------------------------------
(***************************************************************************)
(* run() and the writer                                                    *)
(***************************************************************************)

Start ==
    /\ pc = "off"
    /\ pc' = "starting"
    /\ UNCHANGED <<blocked, hung, writer, wake, file, stuck, probes, ending, budget>>

\* health.start(), after the Kafka clients: the file is written once, and the
\* new task writes it again as soon as the loop turns to it.
Started ==
    /\ pc = "starting"
    /\ Free
    /\ pc' = "running"
    /\ exists' = TRUE
    /\ age' = 0
    /\ writer' = "running"
    /\ wake' = 0
    /\ stuck' = 0
    /\ UNCHANGED <<blocked, hung, probes, ending, budget>>

\* A client does not start, or the file cannot be written: that is before the
\* try of run(), so nothing is shut down.
StartError ==
    /\ pc = "starting"
    /\ Free
    /\ EndProcess
    /\ Spend("error")
    /\ UNCHANGED file

WriteDue == writer = "running" /\ ~blocked /\ wake = 0

\* Mutant of Write: the file is created once and not written again.
WriteOnce ==
    /\ WriteDue
    /\ wake' = Interval
    /\ stuck' = 0
    /\ UNCHANGED <<pc, blocked, hung, writer, file, probes, ending, budget>>

Write ==
    /\ WriteDue
    /\ exists' = TRUE
    /\ age' = 0
    /\ wake' = Interval
    /\ stuck' = 0
    /\ UNCHANGED <<pc, blocked, hung, writer, probes, ending, budget>>

\* write_text() raises: the task ends, and nobody looks at its exception.
WriteError ==
    /\ WriteDue
    /\ Spend("error")
    /\ writer' = "dead"
    /\ stuck' = 0
    /\ UNCHANGED <<pc, blocked, hung, wake, file, probes, ending>>

\* A hook, a handler or a background task does not give the event loop back.
Block ==
    /\ pc # "off"
    /\ ~blocked
    /\ Spend("block")
    /\ blocked' = TRUE
    /\ UNCHANGED <<pc, hung, writer, wake, file, stuck, probes, ending>>

Unblock ==
    /\ blocked
    /\ blocked' = FALSE
    /\ UNCHANGED <<pc, hung, writer, wake, file, stuck, probes, ending, budget>>

Hang ==
    /\ pc # "off"
    /\ Free
    /\ Spend("hang")
    /\ hung' = TRUE
    /\ UNCHANGED <<pc, blocked, writer, wake, file, stuck, probes, ending>>

\* The loop sees _stop_event, which the handler of SIGTERM sets in a callback on
\* the event loop, or an exception leaves it: _shutdown() begins.
Stop ==
    /\ pc = "running"
    /\ Free
    /\ (terminating /\ UNCHANGED budget) \/ Spend("error")
    /\ pc' = "stopping"
    /\ UNCHANGED <<blocked, hung, writer, wake, file, stuck, probes, ending>>

\* health.stop() comes last.  It awaits the cancelled writer, and the exception
\* of a dead one is raised there, before the file is removed.
Stopped ==
    /\ pc = "stopping"
    /\ Free
    /\ EndProcess
    /\ exists' = (exists /\ writer = "dead")
    /\ UNCHANGED <<age, budget>>

\* A client does not stop: health.stop() is not reached.
StopError ==
    /\ pc = "stopping"
    /\ Free
    /\ EndProcess
    /\ Spend("error")
    /\ UNCHANGED file

-----------------------------------------------------------------------------
(***************************************************************************)
(* The kubelet and the clock                                               *)
(***************************************************************************)

\* SIGTERM: the kubelet does not probe any more, and counts the grace period.
Terminate ==
    /\ terminating' = TRUE
    /\ grace' = Grace

\* The pod is to go.
Signal ==
    /\ pc # "off"
    /\ ~terminating
    /\ Terminate
    /\ Spend("signal")
    /\ UNCHANGED <<pc, blocked, hung, writer, wake, file, stuck, probes>>

\* SIGKILL.
GraceOver == terminating /\ grace = 0

KillAfterGrace ==
    /\ GraceOver
    /\ EndProcess
    /\ UNCHANGED <<file, budget>>

\* The node runs out of memory, or the container is killed.
Kill ==
    /\ pc # "off"
    /\ EndProcess
    /\ Spend("kill")
    /\ UNCHANGED file

ProbeDue == pc # "off" /\ ~terminating /\ probe = 0

\* Mutant of Fresh: the liveness probe asks what the readiness probe asks.
FreshWhenThere == exists

Fresh == exists /\ age < MaxAge

\* The probe finds a recent file.
ProbeOk ==
    /\ ProbeDue
    /\ Fresh
    /\ misses' = 0
    /\ timedOut' = 0
    /\ probe' = Period
    /\ UNCHANGED <<pc, blocked, hung, writer, wake, file, stuck, ending, budget>>

\* The probe fails: its command finds no recent file, or takes longer than
\* timeoutSeconds, whatever the file says.
ProbeFails ==
    /\ ProbeDue
    /\ \/ ~Fresh /\ UNCHANGED <<timedOut, budget>>
       \/ Spend("timeout") /\ timedOut' = misses + 1

\* Mutants of ProbeMiss: one failure too many, and failures that do not count.
ProbeMissOneMore ==
    /\ ProbeFails
    /\ misses + 1 <= Threshold
    /\ misses' = misses + 1
    /\ probe' = Period
    /\ UNCHANGED <<pc, blocked, hung, writer, wake, file, stuck, ending>>

ProbeMissIgnored ==
    /\ ProbeFails
    /\ probe' = Period
    /\ UNCHANGED <<pc, blocked, hung, writer, wake, file, stuck, misses, ending>>

ProbeMiss ==
    /\ ProbeFails
    /\ misses + 1 < Threshold
    /\ misses' = misses + 1
    /\ probe' = Period
    /\ UNCHANGED <<pc, blocked, hung, writer, wake, file, stuck, ending>>

\* As many failures in a row as the threshold: the container is to end.
ProbeKills ==
    /\ ProbeFails
    /\ misses + 1 >= Threshold
    /\ Terminate
    /\ UNCHANGED <<pc, blocked, hung, writer, wake, file, stuck, probe, misses>>

Tick ==
    /\ ~WriteDue
    /\ ~ProbeDue
    /\ ~GraceOver
    /\ age' = Least(age + 1, MaxAge)
    /\ wake' = IF wake > 0 THEN wake - 1 ELSE 0
    /\ probe' = IF pc # "off" /\ ~terminating THEN probe - 1 ELSE probe
    /\ stuck' = IF blocked THEN stuck + 1 ELSE stuck
    /\ grace' = IF grace > 0 THEN grace - 1 ELSE 0
    /\ UNCHANGED <<pc, blocked, hung, writer, exists, misses, timedOut, terminating, budget>>

-----------------------------------------------------------------------------

Kubelet == ProbeOk \/ ProbeMiss \/ ProbeKills \/ KillAfterGrace

Next ==
    \/ Kubelet \/ Tick
    \/ Start \/ Started \/ StartError
    \/ Write \/ WriteError
    \/ Block \/ Unblock \/ Hang
    \/ Signal \/ Stop \/ Stopped \/ StopError \/ Kill

Spec == Init /\ [][Next]_vars

\* The clock goes on, and the kubelet does what is due.  Nothing is asked of the
\* process.
FairSpec == Spec /\ WF_vars(Tick) /\ WF_vars(Kubelet)

-----------------------------------------------------------------------------
(***************************************************************************)
(* Properties                                                              *)
(***************************************************************************)

\* Every variable has its type.
TypeOK ==
    /\ pc \in {"off", "starting", "running", "stopping"}
    /\ blocked \in BOOLEAN
    /\ hung \in BOOLEAN
    /\ writer \in {"none", "running", "dead"}
    /\ wake \in 0 .. Interval
    /\ exists \in BOOLEAN
    /\ age \in 0 .. MaxAge
    /\ stuck \in Nat
    /\ probe \in Nat
    /\ misses \in 0 .. Threshold - 1
    /\ timedOut \in 0 .. Threshold
    /\ terminating \in BOOLEAN
    /\ grace \in 0 .. Grace
    /\ budget \in [FaultKinds -> Nat]

\* A pod whose event loop is blocked is gone in time: no loop stays blocked
\* longer than it takes the file to become stale, the probe to fail Threshold
\* times, and the grace period to end, because a blocked loop does not run the
\* handler of SIGTERM (less than 165 s with the values of the deployment).
BlockedIsKilledInTime == stuck < MaxAge + Threshold * Period + Grace

\* The probe kills nobody else: only a pod that has not started yet, one whose
\* writer died, one that a probe timed out for, or one whose event loop was
\* blocked for as long as the file needs to become stale and miss Threshold
\* probes (80 s), or as many as are left after the last that timed out.
HealthyIsSpared ==
    [][ProbeKills =>
          \/ pc = "starting"
          \/ writer = "dead"
          \/ budget' # budget
          \/ stuck >= MaxAge + (Threshold - timedOut - 1) * Period - Interval]_vars

\* A pod whose writer died without anybody's notice does not stay: it stops for
\* another reason, or the probe finds that its file is not written any more.
DeadWriterIsNoticed == writer = "dead" ~> pc = "off"
=============================================================================
