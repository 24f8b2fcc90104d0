----------------------------- MODULE DownTimeout -----------------------------
(***************************************************************************)
(* down_timeoutms of the gpioirq driver: wait for the semaphore that the   *)
(* interrupt handler raises, or for a timeout in milliseconds.             *)
(*                                                                         *)
(* The kernel can only sleep for whole jiffies, and a sleep that begins    *)
(* between two ticks is shorter than its number of jiffies says.  The      *)
(* function therefore keeps the end of the wait in nanoseconds and sleeps  *)
(* again until that has passed.  The units and widths are constants: their *)
(* relations matter, not their size.                                       *)
(*                                                                         *)
(* Time passes while the caller sleeps; time that passes while it could    *)
(* run but does not (a late timer, a preemption) is counted in stolen.     *)
(***************************************************************************)
EXTENDS Integers

CONSTANTS
    MsNs, UsNs,  \* fac_ms2ns and fac_us2ns: ns in a ms, in a us
    JiffyUs,     \* us in a jiffy, USEC_PER_SEC / HZ
    ULongMod,    \* values of unsigned long: 2^64, on 32-bit ARM 2^32
    LLongMod,    \* values of long long, 2^64
    UIntMod,     \* values of the parameter of usecs_to_jiffies, 2^32
    Timeouts,    \* timeouts that callers ask for, in ms
    MaxTime,     \* bound: no call begins later
    MaxUps,      \* bound: number of interrupts
    MaxStolen    \* bound: time the caller is kept from running

ASSUME UnitsAssumption ==
    /\ MsNs \in Nat \ {0} /\ UsNs \in Nat \ {0} /\ JiffyUs \in Nat \ {0}
    /\ ULongMod \in Nat \ {0} /\ LLongMod \in Nat \ {0} /\ UIntMod \in Nat \ {0}
ASSUME TimeoutsAssumption == Timeouts \subseteq Nat
ASSUME LimitsAssumption == MaxTime \in Nat /\ MaxUps \in Nat /\ MaxStolen \in Nat

VARIABLES
    now,        \* ktime_get_mono_fast_ns
    sem, ups,   \* the semaphore; interrupts so far
    pc, err, rest_ns, endtime,
    wakeup,     \* the tick at which down_timeout gives up
    timeout_ms, start, stolen, taken  \* history: the call, what it consumed

vars == <<now, sem, ups, pc, err, rest_ns, endtime, wakeup, timeout_ms, start, stolen, taken>>

Jiffy == JiffyUs * UsNs

ETIME == 62

\* (long long)(fac_ms2ns * timeout_ms), the product being unsigned long
ToNs(t) ==
    LET product == (MsNs * t) % ULongMod
    IN  IF 2 * product >= LLongMod THEN product - LLongMod ELSE product

\* Fault: the minimum of one jiffy is missing.
LocalJiffies_NoMinimum(rest) ==
    (((rest \div UsNs) % UIntMod) + JiffyUs - 1) \div JiffyUs

\* usecs_to_jiffies rounds up, after its argument was cut to unsigned int;
\* the code forces at least one jiffy
LocalJiffies(rest) ==
    LET us == (rest \div UsNs) % UIntMod
        jiffies == (us + JiffyUs - 1) \div JiffyUs
    IN  IF jiffies > 1 THEN jiffies ELSE 1

Init ==
    /\ now \in 0 .. Jiffy - 1
    /\ sem = 0 /\ ups = 0
    /\ pc = "idle" /\ err = 0 /\ rest_ns = 0 /\ endtime = 0 /\ wakeup = 0
    /\ timeout_ms = 0 /\ start = 0 /\ stolen = 0 /\ taken = 0

\* The call: err, rest_ns and endtime are set.
Call(t) ==
    /\ pc \in {"idle", "done"} /\ now <= MaxTime /\ pc' = "loop"
    /\ err' = -1
    /\ rest_ns' = ToNs(t)
    /\ endtime' = now + ToNs(t)
    /\ timeout_ms' = t /\ start' = now /\ stolen' = 0
    /\ UNCHANGED <<now, sem, ups, wakeup, taken>>

\* Fault: the sleep is one jiffy longer, to be on the safe side.
Sleep_OneMore ==
    /\ pc = "loop" /\ rest_ns > 0 /\ pc' = "down"
    /\ wakeup' = (now \div Jiffy + LocalJiffies(rest_ns) + 1) * Jiffy
    /\ UNCHANGED <<now, sem, ups, err, rest_ns, endtime, timeout_ms, start, stolen, taken>>

\* Head of the loop: down_timeout is entered; its timer fires at a tick.
Sleep ==
    /\ pc = "loop" /\ rest_ns > 0 /\ pc' = "down"
    /\ wakeup' = (now \div Jiffy + LocalJiffies(rest_ns)) * Jiffy
    /\ UNCHANGED <<now, sem, ups, err, rest_ns, endtime, timeout_ms, start, stolen, taken>>

\* Fault: success does not leave the loop.
Acquire_NoBreak ==
    /\ pc = "down" /\ sem > 0 /\ pc' = "recalc"
    /\ sem' = sem - 1 /\ err' = 0
    /\ UNCHANGED <<now, ups, rest_ns, endtime, wakeup, timeout_ms, start, stolen, taken>>

\* Fault: the call succeeds whatever down_timeout returns.
Acquire_Unchecked ==
    /\ pc = "down" /\ pc' = "done"
    /\ sem' = sem - 1 /\ err' = 0
    /\ taken' = taken + 1
    /\ UNCHANGED <<now, ups, rest_ns, endtime, wakeup, timeout_ms, start, stolen>>

\* down_timeout obtains the semaphore, and the loop is left.
Acquire ==
    /\ pc = "down" /\ sem > 0 /\ pc' = "done"
    /\ sem' = sem - 1 /\ err' = 0
    /\ taken' = taken + 1
    /\ UNCHANGED <<now, ups, rest_ns, endtime, wakeup, timeout_ms, start, stolen>>

\* down_timeout gives up: the semaphore was not raised before its timer fired.
Expire ==
    /\ pc = "down" /\ sem = 0 /\ now >= wakeup /\ pc' = "recalc"
    /\ err' = -ETIME
    /\ UNCHANGED <<now, sem, ups, rest_ns, endtime, wakeup, timeout_ms, start, stolen, taken>>

\* Fault: a first failure ends the wait.
Recalculate_GiveUp ==
    /\ pc = "recalc" /\ pc' = "loop"
    /\ rest_ns' = 0
    /\ UNCHANGED <<now, sem, ups, err, endtime, wakeup, timeout_ms, start, stolen, taken>>

\* What is left of the wait.
Recalculate ==
    /\ pc = "recalc" /\ pc' = "loop"
    /\ rest_ns' = endtime - now
    /\ UNCHANGED <<now, sem, ups, err, endtime, wakeup, timeout_ms, start, stolen, taken>>

\* The condition of the loop fails, and err is returned.
Return ==
    /\ pc = "loop" /\ rest_ns <= 0 /\ pc' = "done"
    /\ UNCHANGED <<now, sem, ups, err, rest_ns, endtime, wakeup, timeout_ms, start,
                   stolen, taken>>

-----------------------------------------------------------------------------
(* The environment: time and interrupts (external).                        *)

Asleep == pc = "down" /\ sem = 0 /\ now < wakeup

\* Time passes while the caller sleeps.
Tick ==
    /\ Asleep
    /\ now' = now + 1
    /\ UNCHANGED <<sem, ups, pc, err, rest_ns, endtime, wakeup, timeout_ms, start,
                   stolen, taken>>

\* Time passes while the caller could run, or has nothing to wait for.
Delay ==
    /\ ~Asleep /\ stolen < MaxStolen
    /\ now' = now + 1 /\ stolen' = stolen + 1
    /\ UNCHANGED <<sem, ups, pc, err, rest_ns, endtime, wakeup, timeout_ms, start, taken>>

\* r_irq_handler: up(&md->irq_lsigsema)
Up ==
    /\ ups < MaxUps
    /\ sem' = sem + 1 /\ ups' = ups + 1
    /\ UNCHANGED <<now, pc, err, rest_ns, endtime, wakeup, timeout_ms, start, stolen, taken>>

Run  == Sleep \/ Acquire \/ Expire \/ Recalculate \/ Return
Next == Run \/ Tick \/ Delay \/ Up \/ \E t \in Timeouts : Call(t)

Spec == Init /\ [][Next]_vars

\* The caller runs when it can, and the clock does not stop while it sleeps.
FairSpec == Spec /\ WF_vars(Run) /\ WF_vars(Tick)
-----------------------------------------------------------------------------
(* Properties.                                                             *)

\* The variables keep their types; in particular a call that reports success
\* has found the semaphore raised.
TypeOK ==
    /\ now \in Nat /\ sem \in Nat /\ ups \in Nat /\ taken \in Nat
    /\ pc \in {"idle", "loop", "down", "recalc", "done"}
    /\ err \in {0, -1, -ETIME} /\ rest_ns \in Int /\ endtime \in Int /\ wakeup \in Nat
    /\ timeout_ms \in Nat /\ start \in Nat /\ stolen \in 0 .. MaxStolen

\* "waits minimum: timeout_ms": a call that reports failure has lasted for the
\* whole timeout, although every sleep may end up to a jiffy early.
WaitsMinimum ==
    pc = "done" /\ err # 0 => now - start >= MsNs * timeout_ms

\* "maximum: timeout_ms + 1 jiffie": no call lasts longer than that, apart from
\* time in which it was kept from running.
WaitsMaximum ==
    pc # "idle" => now - start <= MsNs * timeout_ms + Jiffy + stolen

\* Each interrupt is still in the semaphore or was reported by one successful
\* call: retrying neither swallows nor repeats one, and a call that succeeds
\* has consumed one.
SignalsConserved ==
    ups = sem + taken

\* Every call comes to an end, with or without interrupts.
CallReturns == pc = "loop" ~> pc = "done"
=============================================================================
