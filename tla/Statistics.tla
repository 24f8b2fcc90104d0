------------------------------ MODULE Statistics ------------------------------
(***************************************************************************)
(* The statistics of the real-time cycle, and the line that main prints of *)
(* them.  Each cycle of execute_fromthread measures its run time and the   *)
(* time since the cycle before, and hands both to a stattool; bashoutput   *)
(* reads the results one by one, without a lock, at any moment.            *)
(*                                                                         *)
(* Times are natural numbers in one unit.  A mean is the pair of sum and   *)
(* count that is divided, and a deviation the number of values that it     *)
(* belongs to, or 0 if it is zero; rounding is left out.  A double is      *)
(* loaded and stored in one access.                                        *)
(*                                                                         *)
(* The race is undefined in C++.  With inorder, the loads and the stores   *)
(* of the ten results happen in program order, as in the debug build on a  *)
(* processor that keeps it; without, the stores of one calc and the loads  *)
(* of one stattool happen in any order, as optimiser and processor please. *)
(* Between two cycles there are system calls and accesses to the chip, and *)
(* between the two calls of calc there is a call: nothing is moved over    *)
(* the former; the order of the two stattools is kept throughout, since    *)
(* what is stated without inorder regards one of them only.                *)
(***************************************************************************)
EXTENDS Integers, SequencesExt

CONSTANTS
    Orders,    \* values of inorder considered
    Boot,      \* clock at the start of the first cycle
    Times,     \* for a cycle, the time since the start of the one before, and that
               \* which MainTask takes
    MaxCycles  \* bound: number of cycles

ASSUME OrdersAssumption == Orders \subseteq BOOLEAN
ASSUME TimesAssumption ==
    Boot \in Nat /\ Times \subseteq Nat \X Nat
ASSUME MaxCyclesAssumption == MaxCycles \in Nat

VARIABLES
    inorder,
    \* real-time thread: control, stores that calc has still to make, results to be stored
    rt, todo, new,
    start_run, m_laststart, m_lastruntime, m_count,
    sbuf,         \* the results, of each stattool
    \* main: loads that bashoutput has still to make, the line
    toread, line,
    \* history: number of cycles begun; distances of starts and run times from the
    \* third cycle on; calls of calc completed before this line was begun; a
    \* deviation was being stored while it was read
    cycles, gaps, runs, before, overlap

cycle   == <<start_run, m_laststart, m_lastruntime, m_count>>
printer == <<toread, line, before, overlap>>
history == <<cycles, gaps, runs>>
vars    == <<inorder, rt, todo, new, cycle, sbuf, printer, history>>

Tools  == {"runtime", "period"}
Fields == {"vmean", "vrange", "vstddev", "vmax", "vmin"}
Loads  == Tools \X Fields

\* STATBUFFER after reset: zeroes
Reset ==
    [vmean |-> <<0, 0>>, vrange |-> 0, vstddev |-> 0, vmax |-> 0, vmin |-> 0,
     count |-> 0, ic_sum |-> 0, ic_sum2 |-> 0]

Init ==
    /\ inorder \in Orders
    /\ rt = "wait" /\ todo = {} /\ new = Reset
    /\ start_run = 0 /\ m_laststart = 0 /\ m_lastruntime = 0 /\ m_count = 0
    /\ sbuf = [t \in Tools |-> Reset]
    /\ toread = {} /\ line = [t \in Tools |-> Reset]
    /\ before = [t \in Tools |-> 0] /\ overlap = [t \in Tools |-> FALSE]
    /\ cycles = 0 /\ gaps = <<>> /\ runs = <<>>

-----------------------------------------------------------------------------
(* stattool::calc.                                                         *)

\* Fault: the first value is compared with the zeroes of reset.
Calc_FirstCompared(s, value) ==
    LET hi == IF value > s.vmax THEN value ELSE s.vmax
        lo == IF value < s.vmin THEN value ELSE s.vmin
        sum == s.ic_sum + value
        sum2 == s.ic_sum2 + value * value
        n == s.count + 1
    IN  [vmean |-> <<sum, n>>, vrange |-> hi - lo, vmax |-> hi, vmin |-> lo,
         vstddev |-> IF n > 1 /\ n * sum2 - sum * sum > 0 THEN n ELSE 0,
         count |-> n, ic_sum |-> sum, ic_sum2 |-> sum2]

\* The results after one more value.  The expression under the root is
\* (n * sum2 - sum * sum) / (n * (n - 1)).
Calc(s, value) ==
    LET hi == IF s.count = 0 \/ value > s.vmax THEN value ELSE s.vmax
        lo == IF s.count = 0 \/ value < s.vmin THEN value ELSE s.vmin
        sum == s.ic_sum + value
        sum2 == s.ic_sum2 + value * value
        n == s.count + 1
    IN  [vmean |-> <<sum, n>>, vrange |-> hi - lo, vmax |-> hi, vmin |-> lo,
         vstddev |-> IF n > 1 /\ n * sum2 - sum * sum > 0 THEN n ELSE 0,
         count |-> n, ic_sum |-> sum, ic_sum2 |-> sum2]

\* The order of the stores of calc for the n-th value.
StoreOrder(n) ==
    (IF n = 1 THEN <<"vmin", "vmax">> ELSE <<"vmax", "vmin">>)
        \o <<"vrange", "vmean", "zero", "vstddev">>

\* x comes before y in the sequence s.
Precedes(s, x, y) == \E i, j \in DOMAIN s : i < j /\ s[i] = x /\ s[j] = y

\* The next store may be that of f: in program order, or in any order, except that
\* both stores go to the same place.
MayStore(f) ==
    /\ f \in todo
    /\ inorder => \A g \in todo : ~Precedes(StoreOrder(new.count), g, f)
    /\ f = "vstddev" => "zero" \notin todo

\* One store of calc for the stattool t; count and sums are the thread's own.
Store(t, f) ==
    /\ rt = t /\ MayStore(f) /\ todo' = todo \ {f}
    /\ sbuf' = [sbuf EXCEPT ![t] =
          IF f = "zero" THEN [@ EXCEPT !.vstddev = 0] ELSE [@ EXCEPT ![f] = new[f]]]
    /\ overlap' = [overlap EXCEPT ![t] = @ \/ f = "zero"]
    /\ UNCHANGED <<inorder, rt, new, cycle, toread, line, before, history>>

\* calc has returned.
Returned(t) ==
    sbuf' = [sbuf EXCEPT ![t].count = new.count, ![t].ic_sum = new.ic_sum,
                         ![t].ic_sum2 = new.ic_sum2]

-----------------------------------------------------------------------------
(* execute_fromthread.                                                     *)

\* A cycle: the clock is read, MainTask runs, the clock is read again.
Begin(t, value) == rt' = t /\ new' = Calc(sbuf[t], value)
                   /\ todo' = Fields \cup {"zero"}

\* Fault: the second cycle is measured although the first has no predecessor.
Measured_AtOnce == m_count >= 0

\* The first two cycles are not measured.
Measured == m_count > 1

Cycle(p, r) ==
    /\ rt = "wait" /\ cycles < MaxCycles /\ cycles' = cycles + 1
    /\ start_run' = IF cycles = 0 THEN Boot ELSE start_run + p
    /\ m_lastruntime' = r
    /\ gaps' = IF cycles < 2 THEN gaps ELSE Append(gaps, p)
    /\ runs' = IF cycles < 2 THEN runs ELSE Append(runs, r)
    /\ IF Measured
       THEN Begin("runtime", r)
       ELSE rt' = "end" /\ UNCHANGED <<todo, new>>
    /\ UNCHANGED <<inorder, m_laststart, m_count, sbuf, printer>>

\* The run time is done, the period follows.
PeriodBegin ==
    /\ rt = "runtime" /\ todo = {}
    /\ Returned("runtime")
    /\ Begin("period", start_run - m_laststart)
    /\ UNCHANGED <<inorder, cycle, printer, history>>

PeriodEnd ==
    /\ rt = "period" /\ todo = {} /\ rt' = "end"
    /\ Returned("period")
    /\ UNCHANGED <<inorder, todo, new, cycle, printer, history>>

\* m_count and m_laststart, and the thread waits for the next interrupt.
CycleEnd ==
    /\ rt = "end" /\ rt' = "wait"
    /\ m_count' = m_count + 1 /\ m_laststart' = start_run
    /\ UNCHANGED <<inorder, todo, new, start_run, m_lastruntime, sbuf, printer, history>>

-----------------------------------------------------------------------------
(* bashoutput.                                                             *)

\* Fault: the extrema are printed before the mean.
PrintOrder_ExtremaFirst == <<"vmax", "vmin", "vmean", "vrange", "vstddev">>

\* The order of a stattool's results in the line; the period comes first.
PrintOrder == <<"vmean", "vrange", "vstddev", "vmax", "vmin">>

LineBegin ==
    /\ toread = {} /\ toread' = Loads
    /\ before' = [t \in Tools |-> sbuf[t].count]
    /\ overlap' = [t \in Tools |-> rt = t /\ "vstddev" \in todo /\ "zero" \notin todo]
    /\ line' = [t \in Tools |-> Reset]
    /\ UNCHANGED <<inorder, rt, todo, new, cycle, sbuf, history>>

\* Fault: the run time is printed first.
MayLoad_RuntimeFirst(t, f) ==
    /\ <<t, f>> \in toread
    /\ t = "period" => \A g \in Fields : <<"runtime", g>> \notin toread
    /\ inorder => \A g \in Fields : <<t, g>> \in toread => ~Precedes(PrintOrder, g, f)

\* The next load is that of the result f of the stattool t, in program order or
\* in any order.
MayLoad(t, f) ==
    /\ <<t, f>> \in toread
    /\ t = "runtime" => \A g \in Fields : <<"period", g>> \notin toread
    /\ inorder => \A g \in Fields : <<t, g>> \in toread => ~Precedes(PrintOrder, g, f)

Load(t, f) ==
    /\ MayLoad(t, f) /\ toread' = toread \ {<<t, f>>}
    /\ line' = [line EXCEPT ![t] = [@ EXCEPT ![f] = sbuf[t][f]]]
    /\ UNCHANGED <<inorder, rt, todo, new, cycle, sbuf, before, overlap, history>>

RtNext ==
    \/ \E time \in Times : Cycle(time[1], time[2])
    \/ \E t \in Tools, f \in Fields \cup {"zero"} : Store(t, f)
    \/ PeriodBegin \/ PeriodEnd \/ CycleEnd
PrintNext == LineBegin \/ \E t \in Tools, f \in Fields : Load(t, f)
Next == RtNext \/ PrintNext

Spec == Init /\ [][Next]_vars
-----------------------------------------------------------------------------
(* Properties.                                                             *)

\* The values that a stattool is to be given.
Values(t) == IF t = "runtime" THEN runs ELSE gaps

\* The sums of the first values of s, for each number of them.
Sums(s) ==
    LET sum[n \in Nat] == IF n = 0 THEN 0 ELSE sum[n - 1] + s[n]
    IN  sum

\* The first n values of s.
Among(s, n) == {s[i] : i \in 1 .. n}

\* The results as they are defined for the first n values of s.  The deviation is
\* zero if all of them are equal.
Results(s, n) ==
    IF n = 0 THEN Reset
    ELSE LET values == Among(s, n)
         IN  [vmean |-> <<Sums(s)[n], n>>,
              vmax |-> Max(values), vmin |-> Min(values), vrange |-> Max(values) - Min(values),
              vstddev |-> IF \A x, y \in values : x = y THEN 0 ELSE n]

\* "calculate mean,min,max and stddeviation": between two cycles the results are
\* those of all periods and run times except for the first cycles, in which
\* m_laststart does not hold a start yet.
StatisticsCorrect ==
    rt = "wait" => \A t \in Tools, f \in Fields :
        sbuf[t][f] = Results(Values(t), Len(Values(t)))[f]

\* In whatever order loads and stores happen, a result in the line of bashoutput is
\* that of a number of values which the stattool had, at some moment since the line
\* was begun; only the deviation may be a zero that is none, while it is updated.
LineCurrent ==
    \A t \in Tools : \A f \in Fields :
        <<t, f>> \notin toread =>
            \/ \E n \in before[t] .. Len(Values(t)) :
                  line[t][f] = Results(Values(t), n)[f]
            \/ f = "vstddev" /\ overlap[t] /\ line[t][f] = 0

\* In program order, a line does not contradict itself although its results belong
\* to different cycles, from the first value on: the mean is not outside the
\* extrema, nor the range greater than their distance.
LineConsistent ==
    \A t \in Tools :
        (inorder /\ before[t] > 0 /\ \A f \in Fields : <<t, f>> \notin toread) =>
            LET sum == line[t].vmean[1]
                n   == line[t].vmean[2]
            IN  /\ n * line[t].vmin <= sum /\ sum <= n * line[t].vmax
                /\ line[t].vrange <= line[t].vmax - line[t].vmin

\* In program order, the run time of a line is never of fewer cycles than its period.
RuntimeNotOlder ==
    (inorder /\ toread = {}) => line["runtime"].vmean[2] >= line["period"].vmean[2]
=============================================================================
