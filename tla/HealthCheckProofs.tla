-------------------------- MODULE HealthCheckProofs --------------------------
(***************************************************************************)
(* Proofs about HealthCheck, for every interval, age, period, delay,       *)
(* threshold, grace period and budget of faults that the assumptions allow.*)
(***************************************************************************)
EXTENDS HealthCheck, TLAPS

-----------------------------------------------------------------------------
(***************************************************************************)
(* Types                                                                   *)
(***************************************************************************)

\* A kind of fault that strikes leaves less of the budget, and the others alone.
LEMMA SpendType ==
    ASSUME budget \in [FaultKinds -> Nat], NEW f \in FaultKinds, Spend(f)
    PROVE  /\ budget' \in [FaultKinds -> Nat]
           /\ budget'[f] < budget[f]
           /\ \A g \in FaultKinds \ {f} : budget'[g] = budget[g]
BY DEF Spend

\* The faults that the actions spend are kinds of faults.
LEMMA KindsOfFaults == {"signal", "block", "hang", "error", "kill", "timeout"} \subseteq FaultKinds
BY DEF FaultKinds

\* The end of a process leaves typed variables behind.
LEMMA EndType ==
    ASSUME TypeOK, EndProcess, exists' \in BOOLEAN, age' = age, budget' \in [FaultKinds -> Nat]
    PROVE  TypeOK'
<1>1. /\ 0 \in 0 .. Interval /\ 0 \in 0 .. Threshold - 1 /\ 0 \in 0 .. Threshold
      /\ 0 \in 0 .. Grace /\ InitialDelay \in Nat /\ 0 \in Nat
  BY TimesAssumption
<1>2. /\ wake' \in 0 .. Interval /\ misses' \in 0 .. Threshold - 1 /\ timedOut' \in 0 .. Threshold
      /\ grace' \in 0 .. Grace /\ probe' \in Nat /\ stuck' \in Nat
  BY <1>1 DEF EndProcess
<1>3. /\ pc' \in {"off", "starting", "running", "stopping"} /\ writer' \in {"none", "running", "dead"}
      /\ blocked' \in BOOLEAN /\ hung' \in BOOLEAN /\ terminating' \in BOOLEAN
  BY DEF EndProcess
<1>4. QED
  BY <1>2, <1>3 DEF TypeOK

\* Every step keeps the types.
LEMMA TypeStep == TypeOK /\ [Next]_vars => TypeOK'
<1> SUFFICES ASSUME TypeOK, [Next]_vars PROVE TypeOK'
  OBVIOUS
<1> USE TimesAssumption DEF TypeOK, file, probes, ending
<1>1. CASE Start
  BY <1>1 DEF Start, EndProcess
<1>2. CASE ProbeOk
  BY <1>2 DEF ProbeOk, EndProcess
<1>3. CASE ProbeMiss
  <2>1. budget' \in [FaultKinds -> Nat]
    BY <1>3, KindsOfFaults, SpendType DEF ProbeMiss, ProbeFails
  <2>2. timedOut' \in 0 .. Threshold
    BY <1>3 DEF ProbeMiss, ProbeFails
  <2>3. QED
    BY <1>3, <2>1, <2>2 DEF ProbeMiss, ProbeFails, Terminate
<1>4. CASE ProbeKills
  <2>1. budget' \in [FaultKinds -> Nat]
    BY <1>4, KindsOfFaults, SpendType DEF ProbeKills, ProbeFails
  <2>2. timedOut' \in 0 .. Threshold
    BY <1>4 DEF ProbeKills, ProbeFails
  <2>3. QED
    BY <1>4, <2>1, <2>2 DEF ProbeKills, ProbeFails, Terminate
<1>5. CASE Tick
  BY <1>5 DEF Tick, ProbeDue, Least
<1>6. CASE Started
  BY <1>6 DEF Started, EndProcess
<1>7. CASE StartError
  <2>1. budget' \in [FaultKinds -> Nat]
    BY <1>7, KindsOfFaults, SpendType DEF StartError
  <2>2. QED
    BY <1>7, <2>1, EndType DEF StartError, file
<1>8. CASE Write
  BY <1>8 DEF Write, EndProcess
<1>9. CASE WriteError
  <2>1. budget' \in [FaultKinds -> Nat]
    BY <1>9, KindsOfFaults, SpendType DEF WriteError
  <2>2. QED
    BY <1>9, <2>1 DEF WriteError, EndProcess, Terminate
<1>10. CASE Block
  <2>1. budget' \in [FaultKinds -> Nat]
    BY <1>10, KindsOfFaults, SpendType DEF Block
  <2>2. QED
    BY <1>10, <2>1 DEF Block, EndProcess, Terminate
<1>11. CASE Unblock
  BY <1>11 DEF Unblock, EndProcess
<1>12. CASE Hang
  <2>1. budget' \in [FaultKinds -> Nat]
    BY <1>12, KindsOfFaults, SpendType DEF Hang
  <2>2. QED
    BY <1>12, <2>1 DEF Hang, EndProcess, Terminate
<1>13. CASE Signal
  <2>1. budget' \in [FaultKinds -> Nat]
    BY <1>13, KindsOfFaults, SpendType DEF Signal
  <2>2. QED
    BY <1>13, <2>1 DEF Signal, EndProcess, Terminate
<1>14. CASE Stop
  <2>1. budget' \in [FaultKinds -> Nat]
    BY <1>14, KindsOfFaults, SpendType DEF Stop
  <2>2. QED
    BY <1>14, <2>1 DEF Stop
<1>15. CASE Stopped
  BY <1>15, EndType DEF Stopped
<1>16. CASE StopError
  <2>1. budget' \in [FaultKinds -> Nat]
    BY <1>16, KindsOfFaults, SpendType DEF StopError
  <2>2. QED
    BY <1>16, <2>1, EndType DEF StopError, file
<1>17. CASE Kill
  <2>1. budget' \in [FaultKinds -> Nat]
    BY <1>17, KindsOfFaults, SpendType DEF Kill
  <2>2. QED
    BY <1>17, <2>1, EndType DEF Kill, file
<1>18. CASE KillAfterGrace
  BY <1>18, EndType DEF KillAfterGrace, file
<1>19. CASE UNCHANGED vars
  BY <1>19 DEF vars, file, probes, ending
<1>20. QED
  BY <1>1, <1>2, <1>3, <1>4, <1>5, <1>6, <1>7, <1>8, <1>9, <1>10,
     <1>11, <1>12, <1>13, <1>14, <1>15, <1>16, <1>17, <1>18, <1>19
     DEF Next, Kubelet

\* The initial state has the types.
LEMMA TypeInit == Init => TypeOK
<1>1. /\ 0 \in 0 .. Interval /\ 0 \in 0 .. MaxAge /\ 0 \in 0 .. Threshold - 1
      /\ 0 \in 0 .. Threshold /\ 0 \in 0 .. Grace /\ InitialDelay \in Nat
  BY TimesAssumption
<1>2. Init => budget \in [FaultKinds -> Nat] /\ probe \in Nat /\ wake \in 0 .. Interval
  BY <1>1, BudgetAssumption DEF Init
<1>3. Init => age \in 0 .. MaxAge /\ stuck \in Nat /\ misses \in 0 .. Threshold - 1
  BY <1>1 DEF Init
<1>4. Init => timedOut \in 0 .. Threshold /\ grace \in 0 .. Grace
  BY <1>1 DEF Init
<1>5. QED
  BY <1>2, <1>3, <1>4 DEF Init, TypeOK

\* Every variable of HealthCheck keeps its type.
THEOREM TypeCorrect == Spec => []TypeOK
BY TypeInit, TypeStep, PTL DEF Spec

-----------------------------------------------------------------------------
(***************************************************************************)
(* A blocked event loop                                                    *)
(***************************************************************************)

\* Which process has what: the writer lives from Started to the end of the
\* process, and only a process is blocked or told to end.
PhaseInv ==
    /\ blocked \/ terminating => pc # "off"
    /\ pc \in {"off", "starting"} => writer = "none"
    /\ pc \in {"running", "stopping"} => writer # "none"
    /\ pc = "off" => stuck = 0 /\ probe = InitialDelay /\ misses = 0 /\ timedOut = 0

\* The file is at least as old as the time the loop is stuck; the first probe
\* comes before it is stale, and then one in each period, and from the last on
\* the grace period runs.
StuckInv ==
    /\ stuck <= age \/ MaxAge <= age
    /\ pc # "off" /\ ~terminating => probe <= Period \/ probe + stuck <= InitialDelay
    /\ MaxAge <= stuck /\ ~terminating => stuck + probe < MaxAge + (misses + 1) * Period
    /\ terminating => stuck + grace < MaxAge + Threshold * Period + Grace

\* Every step keeps writer and process together.
LEMMA PhaseStep == TypeOK /\ PhaseInv /\ [Next]_vars => PhaseInv'
<1> SUFFICES ASSUME TypeOK, PhaseInv, [Next]_vars PROVE PhaseInv'
  OBVIOUS
<1> USE DEF TypeOK, PhaseInv, file, probes, ending
<1>1. CASE Start
  BY <1>1 DEF Start, EndProcess, Free
<1>2. CASE ProbeOk
  BY <1>2 DEF ProbeOk, ProbeDue
<1>3. CASE ProbeMiss
  BY <1>3 DEF ProbeMiss, ProbeFails, ProbeDue, Terminate
<1>4. CASE ProbeKills
  BY <1>4 DEF ProbeKills, ProbeFails, ProbeDue, Terminate
<1>5. CASE Tick
  BY <1>5 DEF Tick, EndProcess, Free
<1>6. CASE Started
  BY <1>6 DEF Started, EndProcess, Free
<1>7. CASE StartError
  BY <1>7 DEF StartError, EndProcess, Free
<1>8. CASE Write
  BY <1>8 DEF Write, EndProcess, Free
<1>9. CASE WriteError
  BY <1>9 DEF WriteError, WriteDue
<1>10. CASE Block
  BY <1>10 DEF Block, EndProcess, Free
<1>11. CASE Unblock
  BY <1>11 DEF Unblock, EndProcess, Free
<1>12. CASE Hang
  BY <1>12 DEF Hang, EndProcess, Free
<1>13. CASE Signal
  BY <1>13 DEF Signal, Terminate
<1>14. CASE Stop
  BY <1>14 DEF Stop, EndProcess, Free
<1>15. CASE Stopped
  BY <1>15 DEF Stopped, EndProcess, Free
<1>16. CASE StopError
  BY <1>16 DEF StopError, EndProcess, Free
<1>17. CASE Kill
  BY <1>17 DEF Kill, EndProcess, Free
<1>18. CASE KillAfterGrace
  BY <1>18 DEF KillAfterGrace, EndProcess, Free
<1>19. CASE UNCHANGED vars
  BY <1>19 DEF vars, file, probes, ending
<1>20. QED
  BY <1>1, <1>2, <1>3, <1>4, <1>5, <1>6, <1>7, <1>8, <1>9, <1>10,
     <1>11, <1>12, <1>13, <1>14, <1>15, <1>16, <1>17, <1>18, <1>19
     DEF Next, Kubelet

\* The numbers of a row of failed probes.
LEMMA PeriodCounts ==
    ASSUME TypeOK
    PROVE  /\ Threshold * Period \in Nat /\ Threshold * Period >= Period
           /\ (misses + 1) * Period \in Nat /\ (misses + 1) * Period <= Threshold * Period
<1> USE TimesAssumption DEF TypeOK
<1>1. misses + 1 <= Threshold /\ 1 <= Threshold
  OBVIOUS
<1>2. QED
  BY <1>1

\* Until a process is told to end, its loop is not stuck for longer than the file
\* needs to become stale and the probe to fail Threshold times.
LEMMA StuckInTime ==
    ASSUME TypeOK, StuckInv, ~terminating
    PROVE  stuck + Grace < MaxAge + Threshold * Period + Grace
<1> USE TimesAssumption DEF TypeOK
<1>1. CASE MaxAge <= stuck
  BY <1>1, PeriodCounts DEF StuckInv
<1>2. CASE stuck < MaxAge
  BY <1>2, PeriodCounts
<1>3. QED
  BY <1>1, <1>2

\* Every step keeps the time of a stuck loop.
LEMMA StuckStep == TypeOK /\ PhaseInv /\ StuckInv /\ [Next]_vars => StuckInv'
<1> SUFFICES ASSUME TypeOK, PhaseInv, StuckInv, [Next]_vars PROVE StuckInv'
  OBVIOUS
<1> USE TimesAssumption DEF TypeOK, PhaseInv, StuckInv, file, probes, ending
<1>1. CASE Start
  BY <1>1 DEF Start, EndProcess
<1>2. CASE ProbeOk
  BY <1>2 DEF ProbeOk, ProbeDue, Fresh
<1>3. CASE ProbeMiss
  <2>1. (misses + 2) * Period = (misses + 1) * Period + Period
    OBVIOUS
  <2>2. QED
    BY <1>3, <2>1 DEF ProbeMiss, ProbeFails, ProbeDue
<1>4. CASE ProbeKills
  <2>1. stuck + Grace < MaxAge + Threshold * Period + Grace
    BY <1>4, StuckInTime DEF ProbeKills, ProbeFails, ProbeDue
  <2>2. QED
    BY <1>4, <2>1 DEF ProbeKills, Terminate
<1>5. CASE Tick
  <2>1. (misses + 1) * Period >= Period /\ Threshold * Period \in Nat
    OBVIOUS
  <2>2. CASE terminating
    BY <1>5, <2>1, <2>2 DEF Tick, GraceOver, Least
  <2>3. CASE ~terminating
    BY <1>5, <2>1, <2>3 DEF Tick, ProbeDue, Least
  <2>4. QED
    BY <2>2, <2>3
<1>6. CASE Started
  BY <1>6 DEF Started, EndProcess
<1>7. CASE StartError
  BY <1>7, PeriodCounts DEF StartError, EndProcess
<1>8. CASE Write
  BY <1>8 DEF Write, EndProcess
<1>9. CASE WriteError
  BY <1>9 DEF WriteError, EndProcess
<1>10. CASE Block
  BY <1>10 DEF Block, EndProcess
<1>11. CASE Unblock
  BY <1>11 DEF Unblock, EndProcess
<1>12. CASE Hang
  BY <1>12 DEF Hang, EndProcess
<1>13. CASE Signal
  <2>1. stuck + Grace < MaxAge + Threshold * Period + Grace
    BY <1>13, StuckInTime DEF Signal
  <2>2. QED
    BY <1>13, <2>1 DEF Signal, Terminate
<1>14. CASE Stop
  BY <1>14 DEF Stop, EndProcess
<1>15. CASE Stopped
  BY <1>15, PeriodCounts DEF Stopped, EndProcess
<1>16. CASE StopError
  BY <1>16, PeriodCounts DEF StopError, EndProcess
<1>17. CASE Kill
  BY <1>17, PeriodCounts DEF Kill, EndProcess
<1>18. CASE KillAfterGrace
  BY <1>18, PeriodCounts DEF KillAfterGrace, EndProcess
<1>19. CASE UNCHANGED vars
  BY <1>19 DEF vars, file, probes, ending
<1>20. QED
  BY <1>1, <1>2, <1>3, <1>4, <1>5, <1>6, <1>7, <1>8, <1>9, <1>10,
     <1>11, <1>12, <1>13, <1>14, <1>15, <1>16, <1>17, <1>18, <1>19
     DEF Next, Kubelet

\* Without a process there is no writer, and nothing is stuck.
LEMMA PhaseInit == Init => PhaseInv /\ StuckInv
BY TimesAssumption DEF Init, PhaseInv, StuckInv

\* No event loop stays blocked longer than the file needs to become stale, the
\* probe to fail Threshold times and the grace period to end.
THEOREM KilledInTime == Spec => []BlockedIsKilledInTime
<1>1. TypeOK /\ StuckInv => BlockedIsKilledInTime
  <2> SUFFICES ASSUME TypeOK, StuckInv PROVE BlockedIsKilledInTime
    OBVIOUS
  <2>1. stuck \in Nat /\ grace \in Nat /\ Grace \in Nat /\ MaxAge \in Nat
    BY TimesAssumption DEF TypeOK
  <2>2. CASE terminating
    BY <2>1, <2>2, PeriodCounts DEF StuckInv, BlockedIsKilledInTime
  <2>3. CASE ~terminating
    BY <2>1, <2>3, PeriodCounts, StuckInTime DEF BlockedIsKilledInTime
  <2>4. QED
    BY <2>2, <2>3
<1>2. QED
  BY TypeInit, TypeStep, PhaseInit, PhaseStep, StuckStep, <1>1, PTL DEF Spec

-----------------------------------------------------------------------------
(***************************************************************************)
(* A pod that is spared                                                    *)
(***************************************************************************)

\* While the writer lives, the file is as fresh as the interval and the stuck
\* loop allow, and the failed probes since the last that timed out are one of
\* three: there are none, they are left over from a time that the next probe
\* forgets, because it finds a fresh file, or they are those of this stuck loop,
\* which has lasted for all of them.
FreshInv ==
    /\ pc # "off" /\ ~terminating /\ misses > 0 => probe <= Period
    /\ ~terminating => timedOut <= misses
    /\ writer = "running" =>
         /\ exists
         /\ age <= Interval + stuck
         /\ wake > 0 => age + wake <= Interval
         /\ \/ terminating
            \/ misses = timedOut
            \/ age + probe <= Period
            \/ wake = 0 /\ stuck + probe >= MaxAge - Interval + (misses - timedOut) * Period

\* Every step keeps the account of failed probes.
LEMMA FreshStep == TypeOK /\ PhaseInv /\ FreshInv /\ [Next]_vars => FreshInv'
<1> SUFFICES ASSUME TypeOK, PhaseInv, FreshInv, [Next]_vars PROVE FreshInv'
  OBVIOUS
<1> USE TimesAssumption DEF TypeOK, PhaseInv, FreshInv, file, probes, ending
<1>1. CASE Start
  BY <1>1 DEF Start, EndProcess
<1>2. CASE ProbeOk
  BY <1>2 DEF ProbeOk, ProbeDue
<1>3. CASE ProbeMiss
  <2>1. CASE ~Fresh /\ UNCHANGED <<timedOut, budget>>
    <3>1. /\ (misses + 1 - timedOut) * Period = (misses - timedOut) * Period + Period
          /\ (misses - timedOut) * Period \in Int /\ timedOut <= misses
      BY <1>3 DEF ProbeMiss, ProbeFails, ProbeDue
    <3>2. CASE writer # "running"
      BY <1>3, <2>1, <3>1, <3>2 DEF ProbeMiss, ProbeFails, ProbeDue
    <3>3. CASE writer = "running"
      <4>1. age = MaxAge /\ probe = 0 /\ exists /\ ~terminating
        BY <1>3, <2>1, <3>3 DEF ProbeMiss, ProbeFails, ProbeDue, Fresh
      <4>2. wake = 0 /\ MaxAge <= Interval + stuck
        BY <3>3, <4>1
      <4>3. stuck >= MaxAge - Interval + (misses - timedOut) * Period
        <5>1. CASE misses = timedOut
          BY <4>2, <5>1
        <5>2. CASE misses # timedOut
          BY <3>3, <4>1, <5>2
        <5>3. QED
          BY <5>1, <5>2
      <4>4. QED
        BY <1>3, <2>1, <3>1, <3>3, <4>1, <4>2, <4>3 DEF ProbeMiss
    <3>4. QED
      BY <3>2, <3>3
  <2>2. CASE timedOut' = misses + 1
    BY <1>3, <2>2 DEF ProbeMiss, ProbeFails, ProbeDue
  <2>3. QED
    BY <1>3, <2>1, <2>2 DEF ProbeMiss, ProbeFails
<1>4. CASE ProbeKills
  BY <1>4 DEF ProbeKills, Terminate
<1>5. CASE Tick
  BY <1>5 DEF Tick, ProbeDue, WriteDue, Least
<1>6. CASE Started
  BY <1>6 DEF Started, EndProcess
<1>7. CASE StartError
  BY <1>7 DEF StartError, EndProcess
<1>8. CASE Write
  BY <1>8 DEF Write, WriteDue
<1>9. CASE WriteError
  BY <1>9 DEF WriteError, EndProcess
<1>10. CASE Block
  BY <1>10 DEF Block, EndProcess
<1>11. CASE Unblock
  BY <1>11 DEF Unblock, EndProcess
<1>12. CASE Hang
  BY <1>12 DEF Hang, EndProcess
<1>13. CASE Signal
  BY <1>13 DEF Signal, Terminate
<1>14. CASE Stop
  BY <1>14 DEF Stop, EndProcess
<1>15. CASE Stopped
  BY <1>15 DEF Stopped, EndProcess
<1>16. CASE StopError
  BY <1>16 DEF StopError, EndProcess
<1>17. CASE Kill
  BY <1>17 DEF Kill, EndProcess
<1>18. CASE KillAfterGrace
  BY <1>18 DEF KillAfterGrace, EndProcess
<1>19. CASE UNCHANGED vars
  BY <1>19 DEF vars, file, probes, ending
<1>20. QED
  BY <1>1, <1>2, <1>3, <1>4, <1>5, <1>6, <1>7, <1>8, <1>9, <1>10,
     <1>11, <1>12, <1>13, <1>14, <1>15, <1>16, <1>17, <1>18, <1>19
     DEF Next, Kubelet

\* Initially no probe has failed.
LEMMA FreshInit == Init => FreshInv
BY DEF Init, FreshInv

\* The probe kills no pod that has started, has a living writer, and an event
\* loop that was not blocked for almost as long, unless probes time out.
THEOREM SparedWhileHealthy == Spec => HealthyIsSpared
<1> DEFINE Deserved == \/ pc = "starting" \/ writer = "dead" \/ budget' # budget
                       \/ stuck >= MaxAge + (Threshold - timedOut - 1) * Period - Interval
<1>1. TypeOK /\ PhaseInv /\ FreshInv /\ [Next]_vars => [ProbeKills => Deserved]_vars
  <2> SUFFICES ASSUME TypeOK, PhaseInv, FreshInv, ProbeKills, pc # "starting", writer # "dead",
                      budget' = budget
               PROVE  stuck >= MaxAge + (Threshold - timedOut - 1) * Period - Interval
    OBVIOUS
  <2> USE TimesAssumption DEF TypeOK
  <2>1. ~Fresh
    BY KindsOfFaults, SpendType DEF ProbeKills, ProbeFails
  <2>2. writer = "running" /\ probe = 0 /\ misses = Threshold - 1 /\ ~terminating
    BY DEF ProbeKills, ProbeFails, ProbeDue, PhaseInv
  <2>3. age = MaxAge /\ wake = 0 /\ MaxAge <= Interval + stuck
    BY <2>1, <2>2 DEF Fresh, FreshInv
  <2>4. stuck >= MaxAge - Interval + (misses - timedOut) * Period
    <3>1. CASE misses = timedOut
      BY <2>3, <3>1
    <3>2. CASE misses # timedOut
      BY <2>2, <2>3, <3>2 DEF FreshInv
    <3>3. QED
      BY <3>1, <3>2
  <2>5. Threshold - timedOut - 1 = misses - timedOut
    BY <2>2
  <2>6. QED
    BY <2>4, <2>5
<1>2. QED
  BY TypeInit, TypeStep, PhaseInit, PhaseStep, FreshInit, FreshStep, <1>1, PTL
     DEF Spec, HealthyIsSpared

==============================================================================
