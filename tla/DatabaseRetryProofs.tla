------------------------- MODULE DatabaseRetryProofs -------------------------
(***************************************************************************)
(* Proofs about DatabaseRetry, for every number of retries of both loops   *)
(* and all delays.                                                         *)
(***************************************************************************)
EXTENDS DatabaseRetry, FiniteSets, FiniteSetTheorems, WellFoundedInduction, TLAPS

-----------------------------------------------------------------------------
(***************************************************************************)
(* Both loops                                                              *)
(***************************************************************************)

\* The types without the time, and where the two loops are: inside a call of the
\* handler, retry_async is at one of its attempts; a sleep is followed by another
\* attempt.
LoopInv ==
    /\ handler \in Handlers
    /\ engine \in Engines
    /\ op \in Operations
    /\ valid \in BOOLEAN
    /\ pc \in Ended \cup {"handle", "acquire", "statement", "commit", "db_backoff", "backoff"}
    /\ attempt \in 0 .. MaxRetries
    /\ try \in 0 .. DbAttempts
    /\ stored \in BOOLEAN
    /\ failed \in [Failures -> Nat]
    /\ pc \in {"acquire", "statement", "commit", "db_backoff"} => try >= 1
    /\ pc = "db_backoff" => try < DbAttempts
    /\ pc = "backoff" => attempt < MaxRetries
    /\ pc \in {"acquire", "statement", "commit", "db_backoff"} => valid

\* FailureCap is a number, and larger than any sum of attempts.
LEMMA CapIsNat == FailureCap \in Nat /\ FailureCap > DbAttempts * (MaxRetries + 1)
<1>1. DbAttempts * (MaxRetries + 1) \in Nat
  BY MaxRetriesAssumption, DbAttemptsAssumption
<1>2. QED
  BY <1>1 DEF FailureCap

\* A failure is counted, unless the cap is reached.
LEMMA FailType ==
    ASSUME failed \in [Failures -> Nat], NEW f \in Failures, Fail(f)
    PROVE  /\ failed' \in [Failures -> Nat]
           /\ failed'[f] = failed[f] + 1 \/ (failed'[f] = failed[f] /\ failed[f] >= FailureCap)
           /\ \A g \in Failures \ {f} : failed'[g] = failed[g]
BY CapIsNat DEF Fail

\* The failures that the actions count are kinds of failures.
LEMMA KindsOfFailures == {"connect", "transient", "permanent"} \subseteq Failures
BY DEF Failures

\* Every step keeps the loops in their bounds.
LEMMA LoopStep == LoopInv /\ [Next]_vars => LoopInv'
<1> SUFFICES ASSUME LoopInv, [Next]_vars PROVE LoopInv'
  OBVIOUS
<1> USE MaxRetriesAssumption, DbAttemptsAssumption
       DEF LoopInv, Goto, Raise, GiveUp, RaiseTransient, Ended, Commits, Writes, call
<1>1. CASE Handle
  BY <1>1 DEF Handle
<1>2. CASE Reject
  BY <1>2 DEF Reject
<1>3. CASE Acquire
  BY <1>3 DEF Acquire
<1>4. CASE AcquireError
  <2>1. failed' \in [Failures -> Nat]
    BY <1>4, KindsOfFailures, FailType DEF AcquireError
  <2>2. QED
    BY <1>4, <2>1 DEF AcquireError
<1>5. CASE Execute
  BY <1>5 DEF Execute
<1>6. CASE Commit
  BY <1>6 DEF Commit
<1>7. CASE TransientError
  <2>1. failed' \in [Failures -> Nat]
    BY <1>7, KindsOfFailures, FailType DEF TransientError, MayStore
  <2>2. QED
    BY <1>7, <2>1 DEF TransientError, MayStore
<1>8. CASE PermanentError
  <2>1. failed' \in [Failures -> Nat]
    BY <1>8, KindsOfFailures, FailType DEF PermanentError, MayStore
  <2>2. QED
    BY <1>8, <2>1 DEF PermanentError, MayStore
<1>9. CASE DbBackoff
  BY <1>9 DEF DbBackoff
<1>10. CASE Backoff
  BY <1>10 DEF Backoff
<1>11. CASE UNCHANGED vars
  BY <1>11 DEF vars, call
<1>12. QED
  BY <1>1, <1>2, <1>3, <1>4, <1>5, <1>6, <1>7, <1>8, <1>9, <1>10, <1>11
     DEF Next

\* The handling begins before both loops.
LEMMA LoopInit == Init => LoopInv
<1>1. 0 \in 0 .. MaxRetries /\ 0 \in 0 .. DbAttempts
  BY MaxRetriesAssumption, DbAttemptsAssumption
<1>2. Init => failed \in [Failures -> Nat]
  BY DEF Init
<1>3. QED
  BY <1>1, <1>2 DEF Init, LoopInv, Ended

-----------------------------------------------------------------------------
(***************************************************************************)
(* What is stored                                                          *)
(***************************************************************************)

\* When a handler returns, what it wrote is in the database: whichever engine,
\* and however many attempts it took.
THEOREM StoredOnSuccess == Spec => []SuccessIsStored
<1>1. Init => SuccessIsStored
  BY DEF Init, SuccessIsStored
<1>2. SuccessIsStored /\ [Next]_vars => SuccessIsStored'
  <2> SUFFICES ASSUME SuccessIsStored, [Next]_vars, pc' = "ok", Writes' PROVE stored'
    BY DEF SuccessIsStored
  <2>1. CASE Execute
    BY <2>1 DEF Execute, Goto, Commits, Writes, call
  <2>2. CASE Commit
    BY <2>2 DEF Commit
  <2>3. CASE AcquireError \/ TransientError \/ PermanentError
    BY <2>3 DEF AcquireError, TransientError, PermanentError, MayStore, Raise, RaiseTransient, GiveUp
  <2>4. CASE Handle \/ Reject \/ Acquire \/ DbBackoff \/ Backoff
    BY <2>4 DEF Handle, Reject, Acquire, DbBackoff, Backoff, Goto
  <2>5. CASE UNCHANGED vars
    BY <2>5 DEF vars, call, SuccessIsStored, Writes
  <2>6. QED
    BY <2>1, <2>2, <2>3, <2>4, <2>5 DEF Next
<1>3. QED
  BY <1>1, <1>2, PTL DEF Spec

-----------------------------------------------------------------------------
(***************************************************************************)
(* What a dead letter has cost                                             *)
(***************************************************************************)

Final == failed["connect"] + failed["permanent"]

\* Attempts behind the handling: DbAttempts for each call of the handler that is
\* over, and those of retry_async in the present one.
Behind ==
    CASE pc = "handle" -> DbAttempts * attempt
      [] pc \in {"acquire", "statement", "commit"} -> DbAttempts * attempt + (try - 1)
      [] pc = "db_backoff" -> DbAttempts * attempt + try
      [] OTHER -> DbAttempts * (attempt + 1)

\* In greeting, a final failure stands for the attempts that it ends; in
\* farewell there is no final failure before the end.
EarnedInv ==
    pc # "ok" /\ valid =>
        /\ handler = "greeting" => failed["transient"] + DbAttempts * Final >= Behind
        /\ handler = "farewell" =>
             \/ Final = 0 /\ failed["transient"] = Behind
             \/ Final = 1 /\ pc = "dlq"
        /\ pc = "dlq" => attempt = MaxRetries \/ (handler = "farewell" /\ Final = 1)

\* The arithmetic of attempts.
LEMMA Attempts ==
    ASSUME LoopInv
    PROVE  /\ DbAttempts * attempt \in Nat
           /\ DbAttempts * (attempt + 1) = DbAttempts * attempt + DbAttempts
           /\ DbAttempts * (attempt + 1) <= DbAttempts * (MaxRetries + 1)
           /\ DbAttempts * (MaxRetries + 1) \in Nat
           /\ Final \in Nat
           /\ DbAttempts * Final \in Nat /\ DbAttempts * Final >= Final
           /\ DbAttempts * (Final + 1) = DbAttempts * Final + DbAttempts
           /\ Behind \in Int /\ Behind <= DbAttempts * (MaxRetries + 1)
<1> USE MaxRetriesAssumption, DbAttemptsAssumption
<1>1. attempt \in Nat /\ attempt <= MaxRetries /\ try \in Nat /\ try <= DbAttempts
      /\ DbAttempts \in Nat /\ DbAttempts >= 1
  BY DEF LoopInv
<1>2. Final \in Nat
  BY DEF LoopInv, Final, Failures
<1>3. DbAttempts * attempt \in Nat /\ DbAttempts * Final \in Nat /\ DbAttempts * (MaxRetries + 1) \in Nat
  BY <1>1, <1>2
<1>4. DbAttempts * (attempt + 1) = DbAttempts * attempt + DbAttempts
      /\ DbAttempts * (Final + 1) = DbAttempts * Final + DbAttempts
  BY <1>1, <1>2
<1>5. DbAttempts * (attempt + 1) <= DbAttempts * (MaxRetries + 1)
  BY <1>1
<1>6. DbAttempts * Final >= Final
  BY <1>1, <1>2
<1>7. Behind <= DbAttempts * (attempt + 1)
  BY <1>1, <1>3, <1>4 DEF Behind
<1>8. DbAttempts * (attempt + 1) \in Nat /\ Behind \in Int
  BY <1>1, <1>3, <1>4 DEF Behind
<1>9. QED
  BY <1>2, <1>3, <1>4, <1>5, <1>6, <1>7, <1>8

\* A final failure counts once, or the cap is reached.
LEMMA FinalCounts ==
    ASSUME LoopInv, NEW f \in {"connect", "permanent"}, Fail(f)
    PROVE  /\ failed'["transient"] = failed["transient"]
           /\ \/ Final' = Final + 1
              \/ Final' = Final /\ Final >= FailureCap
<1>1. f \in Failures /\ "transient" \in Failures /\ {"connect", "permanent"} \subseteq Failures
  BY DEF Failures
<1>2. failed \in [Failures -> Nat]
  BY DEF LoopInv
<1>3. failed'["transient"] = failed["transient"]
  BY <1>1, <1>2, FailType
<1>4. CASE f = "connect"
  BY <1>1, <1>2, <1>4, FailType, CapIsNat DEF Final
<1>5. CASE f = "permanent"
  BY <1>1, <1>2, <1>5, FailType, CapIsNat DEF Final
<1>6. QED
  BY <1>3, <1>4, <1>5

\* A final failure ends the call of greeting, or the handling of farewell.
LEMMA FinalStep ==
    ASSUME LoopInv, EarnedInv, NEW f \in {"connect", "permanent"}, Fail(f), Raise(FALSE),
           pc \in {"acquire", "statement", "commit"}, UNCHANGED <<call, attempt>>
    PROVE  EarnedInv'
<1>1. valid /\ handler \in Handlers /\ attempt \in Nat /\ try \in Nat /\ try >= 1
  BY DEF LoopInv
<1>2. failed["transient"] \in Nat /\ Final \in Nat
  BY Attempts DEF LoopInv, Failures
<1>3. CASE handler = "greeting"
  <2>1. pc' \in {"backoff", "dlq"} /\ (pc' = "dlq" => attempt = MaxRetries)
    BY <1>3, MaxRetriesAssumption DEF Raise, GiveUp, LoopInv
  <2>2. Behind' = DbAttempts * (attempt + 1)
    BY <2>1 DEF Behind
  <2>3. failed["transient"] + DbAttempts * Final >= Behind
    BY <1>1, <1>3 DEF EarnedInv
  <2>4. Behind >= DbAttempts * attempt
    BY <1>1, Attempts DEF Behind
  <2>5. failed'["transient"] + DbAttempts * Final' >= DbAttempts * (attempt + 1)
    <3>0. /\ DbAttempts * attempt \in Nat /\ DbAttempts * Final \in Nat /\ DbAttempts \in Nat
          /\ DbAttempts * (attempt + 1) = DbAttempts * attempt + DbAttempts
          /\ DbAttempts * (attempt + 1) <= DbAttempts * (MaxRetries + 1)
          /\ DbAttempts * (MaxRetries + 1) \in Nat
          /\ failed'["transient"] = failed["transient"] /\ failed["transient"] \in Nat
      BY <1>2, Attempts, FinalCounts, DbAttemptsAssumption
    <3>1. CASE Final' = Final + 1
      <4>1. DbAttempts * Final' = DbAttempts * Final + DbAttempts
        BY <3>1, Attempts
      <4>2. failed["transient"] + DbAttempts * Final >= DbAttempts * attempt
        BY <2>3, <2>4, <3>0, Attempts
      <4>3. QED
        BY <3>0, <4>1, <4>2
    <3>2. CASE Final' = Final /\ Final >= FailureCap
      <4>1. DbAttempts * Final' >= FailureCap
        BY <1>2, <3>0, <3>2, Attempts, CapIsNat
      <4>2. DbAttempts * Final' \in Nat
        BY <3>0, <3>2
      <4>3. QED
        BY <3>0, <4>1, <4>2, CapIsNat
    <3>3. QED
      BY <3>1, <3>2, FinalCounts
  <2>6. QED
    BY <1>3, <2>1, <2>2, <2>5 DEF EarnedInv, call
<1>4. CASE handler = "farewell"
  <2>1. pc' = "dlq"
    BY <1>4 DEF Raise, GiveUp
  <2>2. Final = 0
    BY <1>1, <1>4 DEF EarnedInv
  <2>3. Final' = 1
    BY <2>2, FinalCounts, Attempts, CapIsNat
  <2>4. QED
    BY <1>4, <2>1, <2>3 DEF EarnedInv, call
<1>5. QED
  BY <1>1, <1>3, <1>4 DEF Handlers

\* A transient failure is one more attempt.
LEMMA TransientStep ==
    ASSUME LoopInv, EarnedInv, Fail("transient"), RaiseTransient,
           pc \in {"statement", "commit"}, UNCHANGED <<call, attempt>>
    PROVE  EarnedInv'
<1>1. /\ valid /\ handler \in Handlers /\ attempt \in Nat
      /\ try \in Nat /\ try >= 1 /\ try <= DbAttempts /\ DbAttempts \in Nat
  BY DbAttemptsAssumption DEF LoopInv
<1>2. failed["transient"] \in Nat /\ Final \in Nat /\ Final' = Final
  BY Attempts, FailType DEF LoopInv, Failures, Final
<1>3. \/ failed'["transient"] = failed["transient"] + 1
      \/ failed'["transient"] = failed["transient"] /\ failed["transient"] >= FailureCap
  BY FailType DEF LoopInv, Failures
<1>4. Behind = DbAttempts * attempt + (try - 1)
  BY DEF Behind
<1>5. Behind' = DbAttempts * attempt + try /\ Behind' <= DbAttempts * (MaxRetries + 1)
  <2>1. CASE try < DbAttempts
    BY <1>1, <2>1, Attempts DEF RaiseTransient, Behind
  <2>2. CASE try = DbAttempts
    <3>1. pc' \in {"backoff", "dlq"}
      BY <2>2, <1>1 DEF RaiseTransient, Raise, GiveUp
    <3>2. Behind' = DbAttempts * (attempt + 1)
      BY <3>1 DEF Behind
    <3>3. QED
      BY <1>1, <2>2, <3>2, Attempts
  <2>3. QED
    BY <1>1, <2>1, <2>2
<1>6. pc' # "ok" /\ (pc' = "dlq" => attempt = MaxRetries)
  BY MaxRetriesAssumption DEF RaiseTransient, Raise, GiveUp, LoopInv
<1>7. CASE handler = "greeting"
  <2>1. failed["transient"] + DbAttempts * Final >= Behind
    BY <1>1, <1>7 DEF EarnedInv
  <2>2. failed'["transient"] + DbAttempts * Final >= Behind'
    BY <1>1, <1>2, <1>3, <1>4, <1>5, <2>1, Attempts, CapIsNat
  <2>3. QED
    BY <1>2, <1>6, <1>7, <2>2 DEF EarnedInv, call
<1>8. CASE handler = "farewell"
  <2>1. Final = 0 /\ failed["transient"] = Behind
    BY <1>1, <1>8 DEF EarnedInv
  <2>2. failed'["transient"] = Behind'
    BY <1>1, <1>2, <1>3, <1>4, <1>5, <2>1, Attempts, CapIsNat
  <2>3. QED
    BY <1>2, <1>6, <1>8, <2>1, <2>2 DEF EarnedInv, call
<1>9. QED
  BY <1>1, <1>7, <1>8 DEF Handlers

\* Every step keeps the account of attempts.
LEMMA EarnedStep == LoopInv /\ EarnedInv /\ [Next]_vars => EarnedInv'
<1> SUFFICES ASSUME LoopInv, EarnedInv, [Next]_vars PROVE EarnedInv'
  OBVIOUS
<1>1. CASE Handle
  BY <1>1, Attempts DEF Handle, EarnedInv, Goto, call, Behind, Final
<1>2. CASE Reject
  BY <1>2 DEF Reject, EarnedInv, Goto, call, Behind, Final
<1>3. CASE Acquire
  BY <1>3 DEF Acquire, EarnedInv, Goto, call, Behind, Final
<1>4. CASE AcquireError
  BY <1>4, FinalStep DEF AcquireError
<1>5. CASE Execute
  BY <1>5 DEF Execute, EarnedInv, Goto, call, Behind, Final
<1>6. CASE Commit
  BY <1>6 DEF Commit, EarnedInv, Goto, call, Behind, Final
<1>7. CASE TransientError
  BY <1>7, TransientStep DEF TransientError, MayStore
<1>8. CASE PermanentError
  BY <1>8, FinalStep DEF PermanentError, MayStore
<1>9. CASE DbBackoff
  BY <1>9, Attempts DEF DbBackoff, EarnedInv, LoopInv, Goto, call, Behind, Final
<1>10. CASE Backoff
  BY <1>10 DEF Backoff, EarnedInv, Goto, call, Behind, Final
<1>11. CASE UNCHANGED vars
  BY <1>11 DEF vars, call, EarnedInv, Behind, Final
<1>12. QED
  BY <1>1, <1>2, <1>3, <1>4, <1>5, <1>6, <1>7, <1>8, <1>9, <1>10, <1>11
     DEF Next

\* Nothing has failed yet.
LEMMA EarnedInit == Init => EarnedInv
<1>1. DbAttempts * 0 = 0
  BY DbAttemptsAssumption
<1>2. QED
  BY <1>1 DEF Init, EarnedInv, Behind, Final, Failures

\* A valid event is dead-lettered only after all the attempts it is entitled to.
THEOREM EarnedBeforeDlq == Spec => []DeadLetterIsEarned
<1>1. LoopInv /\ EarnedInv => DeadLetterIsEarned
  <2> SUFFICES ASSUME LoopInv, EarnedInv, pc = "dlq", valid
               PROVE  IF handler = "greeting"
                      THEN failed["transient"] >= DbAttempts * (MaxRetries + 1 - Final)
                      ELSE Final = 1 \/ failed["transient"] = DbAttempts * (MaxRetries + 1)
    BY DEF DeadLetterIsEarned, Final
  <2>1. Behind = DbAttempts * (attempt + 1)
    BY DEF Behind
  <2>2. CASE handler = "greeting"
    <3>1. attempt = MaxRetries
          /\ failed["transient"] + DbAttempts * Final >= DbAttempts * (MaxRetries + 1)
      BY <2>1, <2>2 DEF EarnedInv
    <3>2. DbAttempts * (MaxRetries + 1 - Final) = DbAttempts * (MaxRetries + 1) - DbAttempts * Final
      BY Attempts, MaxRetriesAssumption, DbAttemptsAssumption
    <3>3. failed["transient"] \in Nat
      BY DEF LoopInv, Failures
    <3>4. QED
      BY <2>2, <3>1, <3>2, <3>3, Attempts
  <2>3. CASE handler = "farewell"
    BY <2>1, <2>3 DEF EarnedInv
  <2>4. QED
    BY <2>2, <2>3 DEF LoopInv, Handlers
<1>2. QED
  BY LoopInit, LoopStep, EarnedInit, EarnedStep, <1>1, PTL DEF Spec

-----------------------------------------------------------------------------
(***************************************************************************)
(* How long it takes                                                       *)
(***************************************************************************)

\* How long a loop sleeps before its attempt n + 1.
Delay(base, n) == Least((3 * base * 2^n) \div 2, RetryCap)

\* The times are numbers.
LEMMA TimesAreNat ==
    /\ RetryBase \in Nat /\ RetryCap \in Nat /\ DbBase \in Nat
    /\ Command \in Nat /\ Connect \in Nat /\ Forever \in Nat
BY TimesAssumption

\* A power of two is a number: it counts the subsets of a finite set.
LEMMA PowerIsNat ==
    ASSUME NEW n \in Nat
    PROVE  2^n \in Nat
<1>1. IsFiniteSet(1 .. n) /\ Cardinality(1 .. n) = n
  BY FS_Interval
<1>2. QED
  BY <1>1, FS_SUBSET, FS_CardinalityType

\* So is a delay.
LEMMA DelayIsNat ==
    ASSUME NEW base \in Nat, NEW n \in Nat
    PROVE  Delay(base, n) \in Nat
<1>1. 2^n \in Nat
  BY PowerIsNat
<1>2. 3 * base * 2^n \in Nat
  BY <1>1
<1>3. (3 * base * 2^n) \div 2 \in Nat
  BY <1>2
<1>4. QED
  BY <1>3, TimesAreNat DEF Delay, Least

\* The sleeps of both loops take the time by which they are told to.
LEMMA SleepTakes ==
    ASSUME elapsed \in 0 .. Forever, NEW base \in Nat, NEW n \in Nat, Sleeps(base, n)
    PROVE  elapsed' \in 0 .. Forever /\ elapsed' <= elapsed + Delay(base, n)
<1>1. elapsed' = Least(elapsed + Delay(base, n), Forever)
  BY DEF Sleeps, Delay
<1>2. Delay(base, n) \in Nat /\ elapsed \in Nat /\ Forever \in Nat /\ elapsed <= Forever
  BY DelayIsNat, TimesAreNat
<1>3. QED
  BY <1>1, <1>2 DEF Least

\* A request takes what its client allows, at most.
LEMMA RequestTakes ==
    ASSUME elapsed \in 0 .. Forever, NEW limit \in Nat, Takes(limit)
    PROVE  elapsed' \in 0 .. Forever /\ elapsed' <= elapsed + limit
BY TimesAreNat DEF Takes, Least

TimeInv == elapsed \in 0 .. Forever

\* Every step keeps the type of the time.
LEMMA TimeStep == LoopInv /\ TimeInv /\ [Next]_vars => TimeInv'
<1> SUFFICES ASSUME LoopInv, elapsed \in 0 .. Forever, [Next]_vars
             PROVE  elapsed' \in 0 .. Forever
  BY DEF TimeInv
<1>1. ASSUME Connecting PROVE elapsed' \in 0 .. Forever
  BY <1>1, RequestTakes, TimesAreNat DEF Connecting
<1>2. ASSUME Statement PROVE elapsed' \in 0 .. Forever
  BY <1>2, RequestTakes, TimesAreNat DEF Statement
<1>3. CASE Acquire \/ AcquireError
  BY <1>1, <1>3 DEF Acquire, AcquireError
<1>4. CASE Execute \/ Commit \/ TransientError \/ PermanentError
  BY <1>2, <1>4 DEF Execute, Commit, TransientError, PermanentError
<1>5. CASE DbBackoff
  <2>1. try - 1 \in Nat /\ Sleeps(DbBase, try - 1)
    BY <1>5, DbAttemptsAssumption DEF LoopInv, DbBackoff, Goto
  <2>2. QED
    BY <2>1, SleepTakes, TimesAreNat
<1>6. CASE Backoff
  <2>1. attempt \in Nat /\ Sleeps(RetryBase, attempt)
    BY <1>6, MaxRetriesAssumption DEF LoopInv, Backoff
  <2>2. QED
    BY <2>1, SleepTakes, TimesAreNat
<1>7. CASE Handle \/ Reject \/ UNCHANGED vars
  BY <1>7 DEF Handle, Reject, vars
<1>8. QED
  BY <1>3, <1>4, <1>5, <1>6, <1>7 DEF Next

\* Every variable of DatabaseRetry keeps its type, and neither loop runs too often.
THEOREM TypeCorrect == Spec => []TypeOK
<1>1. Init => TimeInv
  BY TimesAreNat DEF Init, TimeInv
<1>2. LoopInv /\ TimeInv => TypeOK
  BY DEF LoopInv, TimeInv, TypeOK
<1>3. QED
  BY LoopInit, LoopStep, TimeStep, <1>1, <1>2, PTL DEF Spec

-----------------------------------------------------------------------------
(***************************************************************************)
(* How long it may take.  The sums of the delays are given as a table: a   *)
(* recursive definition would need induction to be unfolded.               *)
(***************************************************************************)

\* sum[i]: how long the first i sleeps take together.
Sums(sum, base, n) ==
    /\ sum \in [0 .. n -> Nat]
    /\ sum[0] = 0
    /\ \A i \in 0 .. n - 1 : sum[i + 1] = sum[i] + Delay(base, i)

\* A set of natural numbers that is not empty has a least element.
LEMMA HasLeast ==
    ASSUME NEW T, T \subseteq Nat, T # {}
    PROVE  \E m \in T : \A k \in T : ~ (k < m)
<1> DEFINE R == OpToRel(<, Nat)
<1>1. \A k, m \in Nat : k < m => <<k, m>> \in R
  BY DEF OpToRel
<1>2. IsWellFoundedOn(R, Nat)
  BY NatLessThanWellFounded, Zenon
<1> HIDE DEF R
<1>3. PICK m \in T : \A k \in T : ~ (<<k, m>> \in R)
  BY <1>2, WFMin
<1>4. QED
  BY <1>1, <1>3

\* No sum is larger than the sum of all: there is no last one that is.
LEMMA SumsGrow ==
    ASSUME NEW base \in Nat, NEW n \in Nat, NEW sum, Sums(sum, base, n)
    PROVE  \A i \in 0 .. n : sum[i] \in Nat /\ sum[i] <= sum[n]
<1>1. \A i \in 0 .. n : sum[i] \in Nat
  BY DEF Sums
<1>2. ASSUME NEW i \in 0 .. n, sum[i] > sum[n] PROVE FALSE
  <2> DEFINE Left == {m \in 0 .. n : sum[n - m] > sum[n]}
  <2>1. n - i \in Left /\ Left \subseteq Nat
    BY <1>2
  <2>2. PICK m \in Left : \A k \in Left : ~ (k < m)
    BY <2>1, HasLeast
  <2>3. m \in 0 .. n /\ m # 0 /\ sum[n - m] > sum[n]
    BY <1>1, <2>2
  <2>4. m - 1 \in 0 .. n /\ n - m \in 0 .. n - 1 /\ (n - m) + 1 = n - (m - 1)
    BY <2>3
  <2>5. sum[n - (m - 1)] = sum[n - m] + Delay(base, n - m) /\ Delay(base, n - m) \in Nat
    BY <2>4, DelayIsNat DEF Sums
  <2>6. sum[n - (m - 1)] > sum[n]
    BY <1>1, <2>3, <2>4, <2>5
  <2>7. m - 1 \in Left
    BY <2>4, <2>6
  <2>8. QED
    BY <2>2, <2>3, <2>7
<1>3. n \in 0 .. n
  OBVIOUS
<1>4. QED
  BY <1>1, <1>2, <1>3

\* The longest that one attempt of retry_async waits for its requests.
Attempt == Connect + 2 * Command

\* The longest call of a handler: all attempts of retry_async, and the sleeps
\* between them, of which db is the table.
CallTime(db) == DbAttempts * Attempt + db[DbAttempts - 1]

\* The longest time from the beginning of the present call to now.
InCall(db) ==
    CASE pc = "handle" -> 0
      [] pc = "acquire" -> (try - 1) * Attempt + db[try - 1]
      [] pc = "statement" -> (try - 1) * Attempt + db[try - 1] + Connect
      [] pc = "db_backoff" -> try * Attempt + db[try - 1]
      [] OTHER -> CallTime(db)

\* With PostgreSQL: the calls that are over, the sleeps between them, and the
\* present call.
SlowInv(db, rt) ==
    engine = "postgresql" =>
        /\ pc # "commit"
        /\ elapsed <= attempt * CallTime(db) + rt[attempt] + InCall(db)

\* The longest time altogether.
Longest(db, rt) == (MaxRetries + 1) * CallTime(db) + rt[MaxRetries]

\* The tables of both loops.
Tables(db, rt) == Sums(db, DbBase, DbAttempts - 1) /\ Sums(rt, RetryBase, MaxRetries)

\* The numbers of the bound.
LEMMA SlowNumbers ==
    ASSUME LoopInv, NEW db, NEW rt, Tables(db, rt)
    PROVE  /\ Attempt \in Nat /\ CallTime(db) \in Nat
           /\ attempt \in Nat /\ attempt * CallTime(db) \in Nat
           /\ (attempt + 1) * CallTime(db) = attempt * CallTime(db) + CallTime(db)
           /\ rt[attempt] \in Nat
           /\ Longest(db, rt) \in Nat
           /\ attempt * CallTime(db) + rt[attempt] + CallTime(db) <= Longest(db, rt)
<1>1. /\ DbAttempts \in Nat /\ DbAttempts >= 1 /\ MaxRetries \in Nat
      /\ attempt \in Nat /\ attempt <= MaxRetries /\ attempt \in 0 .. MaxRetries
  BY DbAttemptsAssumption, MaxRetriesAssumption DEF LoopInv
<1>2. Attempt \in Nat
  BY TimesAreNat DEF Attempt
<1>3. db[DbAttempts - 1] \in Nat
  BY <1>1 DEF Tables, Sums
<1>4. rt[attempt] \in Nat /\ rt[MaxRetries] \in Nat /\ rt[attempt] <= rt[MaxRetries]
  <2>1. Sums(rt, RetryBase, MaxRetries) /\ MaxRetries \in 0 .. MaxRetries
    BY <1>1 DEF Tables
  <2>2. QED
    BY <1>1, <2>1, SumsGrow, TimesAreNat
<1>5. CallTime(db) \in Nat
  <2>1. DbAttempts * Attempt \in Nat
    BY <1>1, <1>2
  <2>2. QED
    BY <1>3, <2>1 DEF CallTime
<1> HIDE DEF CallTime
<1>6. /\ attempt * CallTime(db) \in Nat /\ (MaxRetries + 1) * CallTime(db) \in Nat
      /\ (attempt + 1) * CallTime(db) = attempt * CallTime(db) + CallTime(db)
      /\ (attempt + 1) * CallTime(db) <= (MaxRetries + 1) * CallTime(db)
  BY <1>1, <1>5
<1>7. QED
  BY <1>1, <1>2, <1>4, <1>5, <1>6 DEF Longest

\* The numbers of the present call: while it goes on, it is no longer than the
\* longest one.
LEMMA CallNumbers ==
    ASSUME LoopInv, NEW db, NEW rt, Tables(db, rt), try >= 1
    PROVE  /\ (try - 1) * Attempt \in Nat /\ try * Attempt \in Nat
           /\ try * Attempt = (try - 1) * Attempt + Attempt
           /\ db[try - 1] \in Nat
           /\ try * Attempt + db[try - 1] <= CallTime(db)
           /\ try < DbAttempts => db[try] = db[try - 1] + Delay(DbBase, try - 1)
<1>1. /\ DbAttempts \in Nat /\ DbAttempts >= 1 /\ try \in Nat /\ try <= DbAttempts
      /\ try - 1 \in 0 .. DbAttempts - 1 /\ DbAttempts - 1 \in Nat
  BY DbAttemptsAssumption DEF LoopInv
<1>2. Attempt \in Nat
  BY TimesAreNat DEF Attempt
<1>3. /\ db[try - 1] \in Nat /\ db[try - 1] <= db[DbAttempts - 1] /\ db[DbAttempts - 1] \in Nat
  <2>1. Sums(db, DbBase, DbAttempts - 1) /\ DbAttempts - 1 \in 0 .. DbAttempts - 1
    BY <1>1 DEF Tables
  <2>2. QED
    BY <1>1, <2>1, SumsGrow, TimesAreNat
<1>4. /\ (try - 1) * Attempt \in Nat /\ try * Attempt \in Nat /\ DbAttempts * Attempt \in Nat
      /\ try * Attempt = (try - 1) * Attempt + Attempt
      /\ try * Attempt <= DbAttempts * Attempt
  BY <1>1, <1>2
<1>5. try * Attempt + db[try - 1] <= CallTime(db)
  BY <1>3, <1>4 DEF CallTime
<1>6. ASSUME try < DbAttempts PROVE db[try] = db[try - 1] + Delay(DbBase, try - 1)
  <2>1. try - 1 \in 0 .. (DbAttempts - 1) - 1 /\ (try - 1) + 1 = try
    BY <1>1, <1>6
  <2>2. QED
    BY <2>1 DEF Tables, Sums
<1>7. QED
  BY <1>3, <1>4, <1>5, <1>6

\* An exception ends the call, and both sleeps and dead letters come after it.
LEMMA RaiseEndsCall ==
    ASSUME LoopInv, NEW retryable \in BOOLEAN, Raise(retryable)
    PROVE  pc' \in {"backoff", "dlq"} /\ try' = try
BY DEF Raise, GiveUp

\* A step inside a call that takes no longer than its request may.
LEMMA SlowStep ==
    ASSUME LoopInv, TimeInv, NEW db, NEW rt, Tables(db, rt), SlowInv(db, rt), [Next]_vars
    PROVE  SlowInv(db, rt)'
<1> SUFFICES ASSUME engine' = "postgresql"
             PROVE  /\ pc' # "commit"
                    /\ elapsed' <= attempt' * CallTime(db) + rt[attempt'] + InCall(db)'
  BY DEF SlowInv, CallTime, Attempt
<1>1. engine = "postgresql"
  BY DEF Next, Handle, Reject, Acquire, AcquireError, Execute, Commit, TransientError, PermanentError,
         DbBackoff, Backoff, vars, call
<1>2. pc # "commit" /\ elapsed <= attempt * CallTime(db) + rt[attempt] + InCall(db)
  BY <1>1 DEF SlowInv
<1>3. /\ attempt * CallTime(db) \in Nat /\ rt[attempt] \in Nat /\ CallTime(db) \in Nat
      /\ elapsed \in Nat /\ Connect \in Nat /\ Command \in Nat /\ Attempt = Connect + 2 * Command
  BY SlowNumbers, TimesAreNat DEF TimeInv, Attempt
<1> DEFINE Before == attempt * CallTime(db) + rt[attempt]
<1>4. Before \in Nat
  BY <1>3
<1>5. elapsed <= Before + InCall(db)
  BY <1>2
<1>6. ASSUME attempt' = attempt, pc' # "commit", elapsed' <= Before + InCall(db)'
      PROVE  /\ pc' # "commit"
             /\ elapsed' <= attempt' * CallTime(db) + rt[attempt'] + InCall(db)'
  BY <1>6
<1>7. Connecting => elapsed' \in Nat /\ elapsed' <= elapsed + Connect
  BY <1>1, RequestTakes, TimesAreNat DEF Connecting, TimeInv
<1>8. Statement => elapsed' \in Nat /\ elapsed' <= elapsed + 2 * Command
  BY <1>1, RequestTakes, TimesAreNat DEF Statement, TimeInv
<1>9. try >= 1 => /\ (try - 1) * Attempt \in Nat /\ try * Attempt \in Nat
                  /\ try * Attempt = (try - 1) * Attempt + Attempt
                  /\ db[try - 1] \in Nat
                  /\ try * Attempt + db[try - 1] <= CallTime(db)
                  /\ try < DbAttempts => db[try] = db[try - 1] + Delay(DbBase, try - 1)
  BY CallNumbers
<1>10. try \in Nat /\ (pc \in {"acquire", "statement", "db_backoff"} => try >= 1)
  BY DbAttemptsAssumption DEF LoopInv
<1> HIDE DEF Before
<1>11. CASE Handle
  <2>1. InCall(db) = 0 /\ attempt' = attempt /\ elapsed' = elapsed /\ pc' = "acquire" /\ try' = 1
    BY <1>11 DEF Handle, Goto, InCall
  <2>2. InCall(db)' = (1 - 1) * Attempt + db[1 - 1]
    BY <2>1 DEF InCall, Attempt
  <2>3. db[0] \in Nat /\ Attempt \in Nat
    <3>1. 0 \in 0 .. DbAttempts - 1
      BY DbAttemptsAssumption
    <3>2. QED
      BY <3>1, SlowNumbers DEF Tables, Sums
  <2>4. InCall(db)' \in Nat
    BY <2>2, <2>3
  <2>5. elapsed' <= Before + InCall(db)'
    BY <1>3, <1>4, <1>5, <2>1, <2>4
  <2>6. QED
    BY <1>6, <2>1, <2>5
<1>12. CASE Reject
  <2>1. InCall(db) = 0 /\ attempt' = attempt /\ elapsed' = elapsed /\ pc' = "dlq"
    BY <1>12 DEF Reject, Goto, InCall
  <2>2. InCall(db)' = CallTime(db)
    BY <2>1 DEF InCall, CallTime, Attempt
  <2>3. elapsed' <= Before + InCall(db)'
    BY <1>3, <1>4, <1>5, <2>1, <2>2
  <2>4. QED
    BY <1>6, <2>1, <2>3
<1>13. CASE Acquire
  <2>1. pc = "acquire" /\ pc' = "statement" /\ attempt' = attempt /\ try' = try /\ try >= 1
    BY <1>10, <1>13 DEF Acquire, Goto
  <2>2. InCall(db) = (try - 1) * Attempt + db[try - 1]
    BY <2>1 DEF InCall
  <2>3. InCall(db)' = (try - 1) * Attempt + db[try - 1] + Connect
    BY <2>1 DEF InCall, Attempt
  <2>4. elapsed' \in Nat /\ elapsed' <= elapsed + Connect
    BY <1>7, <1>13 DEF Acquire
  <2>5. elapsed' <= Before + InCall(db)'
    BY <1>3, <1>4, <1>5, <1>9, <2>1, <2>2, <2>3, <2>4
  <2>6. QED
    BY <1>6, <2>1, <2>5
<1>14. CASE AcquireError
  <2>1. pc = "acquire" /\ pc' \in {"backoff", "dlq"} /\ attempt' = attempt /\ try >= 1
    BY <1>10, <1>14, RaiseEndsCall DEF AcquireError
  <2>2. InCall(db) = (try - 1) * Attempt + db[try - 1]
    BY <2>1 DEF InCall
  <2>3. InCall(db)' = CallTime(db)
    BY <2>1 DEF InCall, CallTime, Attempt
  <2>4. elapsed' \in Nat /\ elapsed' <= elapsed + Connect
    BY <1>7, <1>14 DEF AcquireError
  <2>5. elapsed' <= Before + InCall(db)'
    BY <1>3, <1>4, <1>5, <1>9, <2>1, <2>2, <2>3, <2>4
  <2>6. QED
    BY <1>6, <2>1, <2>5
<1>15. CASE Execute \/ PermanentError
  <2>1. pc = "statement" /\ pc' \in {"ok", "backoff", "dlq"} /\ attempt' = attempt /\ try >= 1
    BY <1>1, <1>2, <1>10, <1>15, RaiseEndsCall DEF Execute, PermanentError, Goto, Commits
  <2>2. InCall(db) = (try - 1) * Attempt + db[try - 1] + Connect
    BY <2>1 DEF InCall
  <2>3. InCall(db)' = CallTime(db)
    BY <2>1 DEF InCall, CallTime, Attempt
  <2>4. elapsed' \in Nat /\ elapsed' <= elapsed + 2 * Command
    BY <1>8, <1>15 DEF Execute, PermanentError
  <2>5. elapsed' <= Before + InCall(db)'
    BY <1>3, <1>4, <1>5, <1>9, <2>1, <2>2, <2>3, <2>4
  <2>6. QED
    BY <1>6, <2>1, <2>5
<1>16. CASE Commit
  BY <1>2, <1>16 DEF Commit, Goto
<1>17. CASE TransientError
  <2>1. /\ pc = "statement" /\ pc' \in {"db_backoff", "backoff", "dlq"}
        /\ attempt' = attempt /\ try' = try /\ try >= 1
    BY <1>2, <1>10, <1>17, RaiseEndsCall DEF TransientError, RaiseTransient
  <2>2. InCall(db) = (try - 1) * Attempt + db[try - 1] + Connect
    BY <2>1 DEF InCall
  <2>3. \/ InCall(db)' = CallTime(db)
        \/ InCall(db)' = try * Attempt + db[try - 1]
    BY <2>1 DEF InCall, CallTime, Attempt
  <2>4. elapsed' \in Nat /\ elapsed' <= elapsed + 2 * Command
    BY <1>8, <1>17 DEF TransientError, MayStore
  <2>5. elapsed' <= Before + InCall(db)'
    BY <1>3, <1>4, <1>5, <1>9, <2>1, <2>2, <2>3, <2>4
  <2>6. QED
    BY <1>6, <2>1, <2>5
<1>18. CASE DbBackoff
  <2>1. /\ pc = "db_backoff" /\ pc' = "acquire" /\ attempt' = attempt /\ try' = try + 1
        /\ try >= 1 /\ try < DbAttempts
    BY <1>10, <1>18 DEF DbBackoff, Goto, LoopInv
  <2>2. InCall(db) = try * Attempt + db[try - 1]
    BY <2>1 DEF InCall
  <2>3. InCall(db)' = (try' - 1) * Attempt + db[try' - 1]
    BY <2>1 DEF InCall, Attempt
  <2>4. try' - 1 = try /\ db[try] = db[try - 1] + Delay(DbBase, try - 1)
    BY <1>9, <1>10, <2>1
  <2>5. InCall(db)' = try * Attempt + (db[try - 1] + Delay(DbBase, try - 1))
    BY <2>3, <2>4
  <2>6. try - 1 \in Nat /\ Sleeps(DbBase, try - 1)
    BY <1>10, <1>18, <2>1 DEF DbBackoff
  <2>7. elapsed' \in Nat /\ elapsed' <= elapsed + Delay(DbBase, try - 1)
        /\ Delay(DbBase, try - 1) \in Nat
    BY <2>6, SleepTakes, DelayIsNat, TimesAreNat DEF TimeInv
  <2>8. elapsed' <= Before + InCall(db)'
    BY <1>3, <1>4, <1>5, <1>9, <2>1, <2>2, <2>5, <2>7
  <2>9. QED
    BY <1>6, <2>1, <2>8
<1>19. CASE Backoff
  <2>1. pc = "backoff" /\ pc' = "handle" /\ attempt' = attempt + 1 /\ attempt < MaxRetries
        /\ attempt \in Nat
    BY <1>19, MaxRetriesAssumption DEF Backoff, Goto, LoopInv
  <2>2. InCall(db) = CallTime(db) /\ InCall(db)' = 0
    BY <2>1 DEF InCall
  <2>3. elapsed' \in Nat /\ elapsed' <= elapsed + Delay(RetryBase, attempt)
        /\ Delay(RetryBase, attempt) \in Nat
    BY <1>19, <2>1, SleepTakes, DelayIsNat, TimesAreNat DEF Backoff, TimeInv
  <2>4. rt[attempt + 1] = rt[attempt] + Delay(RetryBase, attempt)
    BY <2>1, MaxRetriesAssumption DEF Tables, Sums
  <2>5. (attempt + 1) * CallTime(db) = attempt * CallTime(db) + CallTime(db)
    BY SlowNumbers
  <2>6. elapsed' <= (attempt + 1) * CallTime(db) + rt[attempt + 1] + 0
    BY <1>2, <1>3, <2>2, <2>3, <2>4, <2>5
  <2>7. QED
    BY <2>1, <2>2, <2>6
<1>20. CASE UNCHANGED vars
  <2>1. InCall(db)' = InCall(db) /\ attempt' = attempt /\ pc' = pc /\ elapsed' = elapsed
    BY <1>20 DEF vars, InCall, CallTime, Attempt
  <2>2. QED
    BY <1>2, <2>1
<1>21. QED
  BY <1>11, <1>12, <1>13, <1>14, <1>15, <1>16, <1>17, <1>18, <1>19, <1>20 DEF Next

\* With PostgreSQL a message is handled within MaxTime, when that allows for the
\* requests of all attempts of both loops and for the sleeps between them.
THEOREM SlowestHandling ==
    ASSUME NEW db, NEW rt, Tables(db, rt), Longest(db, rt) <= MaxTime
    PROVE  Spec => []HandledInTime
<1>1. Init => SlowInv(db, rt)
  <2> SUFFICES ASSUME Init PROVE SlowInv(db, rt)
    OBVIOUS
  <2>1. attempt = 0 /\ elapsed = 0 /\ pc = "handle" /\ InCall(db) = 0
    BY DEF Init, InCall
  <2>2. LoopInv
    BY LoopInit
  <2>3. attempt * CallTime(db) \in Nat /\ rt[attempt] \in Nat
    BY <2>2, SlowNumbers
  <2>4. QED
    BY <2>1, <2>3 DEF SlowInv
<1>2. LoopInv /\ TimeInv /\ SlowInv(db, rt) /\ [Next]_vars => SlowInv(db, rt)'
  BY SlowStep
<1>3. LoopInv /\ TimeInv /\ SlowInv(db, rt) => HandledInTime
  <2> SUFFICES ASSUME LoopInv, TimeInv, SlowInv(db, rt), engine = "postgresql"
               PROVE  elapsed <= MaxTime
    BY DEF HandledInTime
  <2>1. elapsed <= attempt * CallTime(db) + rt[attempt] + InCall(db)
    BY DEF SlowInv
  <2>2. InCall(db) \in Nat /\ InCall(db) <= CallTime(db)
    <3>1. CASE pc \in {"acquire", "statement", "db_backoff"}
      <4>1. try >= 1 /\ Attempt \in Nat /\ Attempt = Connect + 2 * Command
            /\ Connect \in Nat /\ Command \in Nat /\ CallTime(db) \in Nat
        BY <3>1, SlowNumbers, TimesAreNat DEF LoopInv, Attempt
      <4>2. /\ (try - 1) * Attempt \in Nat /\ try * Attempt \in Nat
            /\ try * Attempt = (try - 1) * Attempt + Attempt
            /\ db[try - 1] \in Nat
            /\ try * Attempt + db[try - 1] <= CallTime(db)
        BY <4>1, CallNumbers
      <4>3. InCall(db) \in {(try - 1) * Attempt + db[try - 1],
                            (try - 1) * Attempt + db[try - 1] + Connect,
                            try * Attempt + db[try - 1]}
        BY <3>1 DEF InCall
      <4>4. QED
        BY <4>1, <4>2, <4>3
    <3>2. CASE pc \notin {"acquire", "statement", "db_backoff"}
      BY <3>2, SlowNumbers DEF InCall
    <3>3. QED
      BY <3>1, <3>2
  <2>3. /\ attempt * CallTime(db) + rt[attempt] + CallTime(db) <= Longest(db, rt)
        /\ attempt * CallTime(db) \in Nat /\ rt[attempt] \in Nat /\ CallTime(db) \in Nat
        /\ Longest(db, rt) \in Nat
    BY SlowNumbers
  <2>4. elapsed \in Nat /\ MaxTime \in Nat
    BY TimesAssumption DEF TimeInv
  <2>5. QED
    BY <2>1, <2>2, <2>3, <2>4
<1>4. Init => TimeInv
  BY TimesAreNat DEF Init, TimeInv
<1>5. QED
  BY LoopInit, LoopStep, TimeStep, <1>1, <1>2, <1>3, <1>4, PTL DEF Spec
==============================================================================
