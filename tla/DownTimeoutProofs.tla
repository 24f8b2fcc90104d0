-------------------------- MODULE DownTimeoutProofs --------------------------
(***************************************************************************)
(* Proofs about DownTimeout, for every unit, every length of a jiffy and   *)
(* every width of the parameter of usecs_to_jiffies.                       *)
(***************************************************************************)
EXTENDS DownTimeout, TLAPS

\* No timeout that is asked for overflows the product in ns, nor is it negative
\* as a long long: the case on a 64-bit kernel.
NoOverflow == \A t \in Timeouts : MsNs * t < ULongMod /\ 2 * (MsNs * t) < LLongMod

\* The product of two naturals is a natural and grows with its factors.
LEMMA MulFacts ==
    ASSUME NEW a \in Nat, NEW b \in Nat, NEW c \in Nat, a <= b
    PROVE  a * c \in Nat /\ a * c <= b * c
  OBVIOUS

\* Rounding down to a multiple.
LEMMA DivFacts ==
    ASSUME NEW a \in Nat, NEW b \in Nat \ {0}
    PROVE  a \div b \in Nat /\ (a \div b) * b <= a
  OBVIOUS

\* A remainder is not larger than the number divided.
LEMMA ModFacts ==
    ASSUME NEW a \in Nat, NEW m \in Nat \ {0}
    PROVE  a % m \in Nat /\ a % m <= a /\ (a < m => a % m = a)
  OBVIOUS

\* A jiffy is a positive time.
LEMMA JiffyType == Jiffy \in Nat \ {0}
  BY UnitsAssumption DEF Jiffy

\* Without overflow, down_timeoutms computes the nanoseconds it was asked for.
LEMMA ToNsExact ==
    ASSUME NoOverflow, NEW t \in Timeouts
    PROVE  ToNs(t) = MsNs * t /\ ToNs(t) \in Nat
  <1>1. MsNs * t \in Nat
    BY UnitsAssumption, TimeoutsAssumption
  <1>2. (MsNs * t) % ULongMod = MsNs * t
    BY <1>1, ModFacts, UnitsAssumption DEF NoOverflow
  <1>3. ~ (2 * (MsNs * t) >= LLongMod)
    BY <1>1, UnitsAssumption DEF NoOverflow
  <1> QED
    BY <1>1, <1>2, <1>3 DEF ToNs

\* The sleep is at most a jiffy longer than the rest of the wait, whatever
\* usecs_to_jiffies makes of an argument that is too long for it.
LEMMA LocalJiffiesBound ==
    ASSUME NEW rest \in Nat
    PROVE  /\ LocalJiffies(rest) \in Nat
           /\ LocalJiffies(rest) * Jiffy <= rest + Jiffy
  <1> DEFINE us0 == rest \div UsNs
             us == us0 % UIntMod
             jiffies == (us + JiffyUs - 1) \div JiffyUs
  <1>1. us0 \in Nat /\ us0 * UsNs <= rest
    BY DivFacts, UnitsAssumption
  <1>2. us \in Nat /\ us <= us0
    BY <1>1, ModFacts, UnitsAssumption
  <1>3. us * UsNs \in Nat /\ us * UsNs <= rest
    <2>1. us * UsNs \in Nat /\ us * UsNs <= us0 * UsNs
      BY <1>1, <1>2, MulFacts, UnitsAssumption
    <2> QED
      BY <2>1, <1>1, UnitsAssumption
  <1>4. us + JiffyUs - 1 \in Nat /\ us + JiffyUs - 1 <= us + JiffyUs
    BY <1>2, UnitsAssumption
  <1>5. jiffies \in Nat /\ jiffies * JiffyUs <= us + JiffyUs
    BY <1>4, <1>2, DivFacts, UnitsAssumption
  <1>6. (jiffies * JiffyUs) * UsNs <= (us + JiffyUs) * UsNs
    <2>1. jiffies * JiffyUs \in Nat /\ us + JiffyUs \in Nat /\ UsNs \in Nat
      BY <1>5, <1>2, UnitsAssumption
    <2> HIDE DEF us, jiffies
    <2> QED
      BY <2>1, <1>5, MulFacts
  <1>7. jiffies * Jiffy <= rest + Jiffy
    <2>1. jiffies * Jiffy = (jiffies * JiffyUs) * UsNs
      BY <1>5, UnitsAssumption DEF Jiffy
    <2>2. (us + JiffyUs) * UsNs = us * UsNs + Jiffy
      BY <1>2, UnitsAssumption DEF Jiffy
    <2>3. jiffies * Jiffy \in Nat
      BY <1>5, JiffyType
    <2> HIDE DEF us, jiffies
    <2> QED
      BY <2>1, <2>2, <2>3, <1>3, <1>6, JiffyType
  <1>8. LocalJiffies(rest) = IF jiffies > 1 THEN jiffies ELSE 1
    BY DEF LocalJiffies
  <1> HIDE DEF jiffies
  <1> QED
    BY <1>5, <1>7, <1>8, JiffyType

\* The tick at which down_timeout gives up is at most a jiffy past the end of
\* the wait.
LEMMA WakeupBound ==
    ASSUME NEW n \in Nat, NEW rest \in Nat
    PROVE  /\ (n \div Jiffy + LocalJiffies(rest)) * Jiffy \in Nat
           /\ (n \div Jiffy + LocalJiffies(rest)) * Jiffy <= n + rest + Jiffy
  <1> DEFINE q == n \div Jiffy
             j == LocalJiffies(rest)
  <1>1. q \in Nat /\ q * Jiffy <= n
    BY DivFacts, JiffyType
  <1>2. j \in Nat /\ j * Jiffy <= rest + Jiffy
    BY LocalJiffiesBound
  <1> HIDE DEF q, j
  <1>3. (q + j) * Jiffy \in Nat /\ (q + j) * Jiffy = q * Jiffy + j * Jiffy
    BY <1>1, <1>2, JiffyType
  <1>4. (q + j) * Jiffy <= n + rest + Jiffy
    BY <1>1, <1>2, <1>3, JiffyType
  <1> QED
    BY <1>3, <1>4 DEF q, j

-----------------------------------------------------------------------------
(* Type correctness.                                                       *)

\* The first state is well typed.
LEMMA TypeInit == Init => TypeOK
  BY JiffyType, LimitsAssumption DEF Init, TypeOK

\* Every step of the caller, of the clock and of the handler keeps the types.
LEMMA TypeNext ==
    ASSUME NoOverflow, TypeOK, [Next]_vars
    PROVE  TypeOK'
  <1> USE LimitsAssumption DEF TypeOK, ETIME
  <1>1. CASE Sleep
    <2>1. wakeup' \in Nat
      BY <1>1, WakeupBound DEF Sleep
    <2> QED
      BY <1>1, <2>1 DEF Sleep
  <1>2. CASE \E t \in Timeouts : Call(t)
    BY <1>2, ToNsExact, TimeoutsAssumption DEF Call
  <1>3. CASE Acquire \/ Expire \/ Recalculate \/ Return
    BY <1>3 DEF Acquire, Expire, Recalculate, Return
  <1>4. CASE Tick \/ Delay \/ Up
    BY <1>4 DEF Tick, Delay, Up
  <1>5. CASE UNCHANGED vars
    BY <1>5 DEF vars
  <1> QED
    BY <1>1, <1>2, <1>3, <1>4, <1>5 DEF Next, Run

\* Without overflow, every reachable state of down_timeoutms is well typed.
THEOREM TypeCorrect ==
    ASSUME NoOverflow
    PROVE  Spec => []TypeOK
  <1>1. TypeOK /\ [Next]_vars => TypeOK'
    BY TypeNext
  <1> QED
    BY <1>1, TypeInit, PTL DEF Spec

-----------------------------------------------------------------------------
(* The two bounds on the wait.                                             *)

\* The end of the wait is as far from its start as was asked for, and the
\* caller is not past it by more than a jiffy and what was stolen from it.
EndInv ==
    pc # "idle" =>
        /\ endtime = start + MsNs * timeout_ms
        /\ now <= endtime + Jiffy + stolen

\* At the head of the loop rest_ns is what was left at some earlier time: the
\* wait does not end before now + rest_ns, nor much before.
RestInv ==
    pc = "loop" => endtime <= now + rest_ns /\ now + rest_ns <= endtime + stolen

\* The sleep in progress ends in time, and a failure is reported late enough.
WakeupInv ==
    /\ pc = "down" => wakeup <= endtime + Jiffy + stolen
    /\ pc = "done" /\ err # 0 => endtime <= now

TimeInv == EndInv /\ RestInv /\ WakeupInv

\* No call has begun in the first state.
LEMMA TimeInit == Init => TimeInv
  BY DEF Init, TimeInv, EndInv, RestInv, WakeupInv

\* Every step keeps the time invariant.  The steps that matter are Sleep, by
\* the bound on the tick, and Recalculate, which measures instead of counting.
LEMMA TimeNext ==
    ASSUME NoOverflow, TypeOK, TimeInv, [Next]_vars
    PROVE  TimeInv'
  <1>0. \A t \in Nat : MsNs * t \in Nat
    BY UnitsAssumption
  <1> USE LimitsAssumption, JiffyType, <1>0 DEF TypeOK, TimeInv, EndInv, RestInv, WakeupInv
  <1>1. CASE \E t \in Timeouts : Call(t)
    <2> PICK t \in Timeouts : Call(t)
      BY <1>1
    <2>1. ToNs(t) = MsNs * t /\ ToNs(t) \in Nat
      BY ToNsExact
    <2> QED
      BY <2>1 DEF Call
  <1>2. CASE Sleep
    <2>1. now \in Nat /\ rest_ns \in Nat
      BY <1>2 DEF Sleep
    <2>2. (now \div Jiffy + LocalJiffies(rest_ns)) * Jiffy <= now + rest_ns + Jiffy
      BY <2>1, WakeupBound
    <2>3. wakeup' <= now + rest_ns + Jiffy /\ wakeup' \in Nat
      BY <1>2, <2>2, TypeNext DEF Sleep
    <2> QED
      BY <1>2, <2>3 DEF Sleep
  <1>3. CASE Acquire
    BY <1>3 DEF Acquire
  <1>4. CASE Expire
    BY <1>4 DEF Expire
  <1>5. CASE Recalculate
    BY <1>5 DEF Recalculate
  <1>6. CASE Return
    BY <1>6 DEF Return
  <1>7. CASE Tick
    BY <1>7 DEF Tick, Asleep
  <1>8. CASE Delay
    BY <1>8 DEF Delay
  <1>9. CASE Up
    BY <1>9 DEF Up
  <1>10. CASE UNCHANGED vars
    BY <1>10 DEF vars
  <1> QED
    BY <1>1, <1>2, <1>3, <1>4, <1>5, <1>6, <1>7, <1>8, <1>9, <1>10 DEF Next, Run

\* "waits minimum: timeout_ms", for every unit, jiffy and timeout, if the product
\* in ns fits: a failed down_timeoutms has lasted for the whole timeout.
THEOREM WaitsMinimumCorrect ==
    ASSUME NoOverflow
    PROVE  Spec => []WaitsMinimum
  <1>1. TimeInv /\ TypeOK => WaitsMinimum
    <2>1. \A t \in Nat : MsNs * t \in Nat
      BY UnitsAssumption
    <2> QED
      BY <2>1 DEF TimeInv, EndInv, WakeupInv, TypeOK, WaitsMinimum
  <1>2. TimeInv /\ TypeOK /\ [Next]_vars => TimeInv'
    BY TimeNext
  <1> QED
    BY <1>1, <1>2, TimeInit, TypeCorrect, PTL DEF Spec

\* "maximum: timeout_ms + 1 jiffie", for every unit, jiffy and timeout, if the
\* product in ns fits and timers fire at their tick: down_timeoutms takes no
\* longer, apart from time stolen from it.
THEOREM WaitsMaximumCorrect ==
    ASSUME NoOverflow
    PROVE  Spec => []WaitsMaximum
  <1>1. TimeInv /\ TypeOK => WaitsMaximum
    <2>1. \A t \in Nat : MsNs * t \in Nat
      BY UnitsAssumption
    <2> QED
      BY <2>1, JiffyType, LimitsAssumption DEF TimeInv, EndInv, TypeOK, WaitsMaximum
  <1>2. TimeInv /\ TypeOK /\ [Next]_vars => TimeInv'
    BY TimeNext
  <1> QED
    BY <1>1, <1>2, TimeInit, TypeCorrect, PTL DEF Spec

-----------------------------------------------------------------------------
(* Interrupts are neither lost nor reported twice.                         *)

\* Each interrupt is still in the semaphore or was reported by exactly one
\* successful call of down_timeoutms, however often it retries.
THEOREM SignalsConservedCorrect ==
    ASSUME NoOverflow
    PROVE  Spec => []SignalsConserved
  <1>1. Init => SignalsConserved
    BY DEF Init, SignalsConserved
  <1>2. SignalsConserved /\ TypeOK /\ [Next]_vars => SignalsConserved'
    BY DEF SignalsConserved, TypeOK, Next, Run, Call, Sleep, Acquire, Expire,
           Recalculate, Return, Tick, Delay, Up, vars
  <1> QED
    BY <1>1, <1>2, TypeCorrect, PTL DEF Spec
=============================================================================
