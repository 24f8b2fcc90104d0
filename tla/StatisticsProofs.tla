--------------------------- MODULE StatisticsProofs ---------------------------
(***************************************************************************)
(* Proofs about Statistics, for every clock, all times and any number of   *)
(* cycles: what the results are, and what bashoutput prints of them.       *)
(*                                                                         *)
(* The sums of StatisticsCorrect and LineCurrent are a recursive function; *)
(* what is needed of it for every number of values is proved by induction  *)
(* over sets of numbers (NatSet).                                          *)
(***************************************************************************)
EXTENDS Statistics, TLAPS, WellFoundedInduction

USE DEF vars, cycle, printer, history

\* The results that the proofs look into.
Stat == [vmean : Nat \X Nat, vrange : Int, vstddev : Nat, vmax : Nat, vmin : Nat,
         count : Nat, ic_sum : Nat, ic_sum2 : Nat]

StatType ==
    /\ sbuf \in [Tools -> Stat] /\ line \in [Tools -> Stat] /\ new \in Stat
    /\ todo \subseteq Fields \cup {"zero"} /\ toread \subseteq Loads
    /\ start_run \in Nat /\ m_laststart \in Nat

\* What reset leaves are results.
LEMMA ResetType == Reset \in Stat
BY DEF Reset, Stat

\* What calc makes of a value are results, of one value more.
LEMMA CalcType ==
    ASSUME NEW s \in Stat, NEW v \in Nat
    PROVE  Calc(s, v) \in Stat /\ Calc(s, v).count = s.count + 1
           /\ Calc(s, v).vmean[2] = s.count + 1
<1>1. /\ s.count \in Nat /\ s.ic_sum \in Nat /\ s.ic_sum2 \in Nat /\ s.vmax \in Nat
      /\ s.vmin \in Nat
  BY DEF Stat
<1>2. v * v \in Nat
  OBVIOUS
<1> QED
  BY <1>1, <1>2 DEF Calc, Stat

\* r is s but for the result f, which is that of n.
Merged(r, s, n, f) ==
    /\ r \in Stat /\ r.count = s.count /\ r.ic_sum = s.ic_sum
    /\ r.vmean = IF f = "vmean" THEN n.vmean ELSE s.vmean
    /\ r.vmax = IF f = "vmax" THEN n.vmax ELSE s.vmax
    /\ r.vmin = IF f = "vmin" THEN n.vmin ELSE s.vmin
    /\ r.vrange = IF f = "vrange" THEN n.vrange ELSE s.vrange

\* One result is replaced by that of n.
LEMMA ExceptType ==
    ASSUME NEW s \in Stat, NEW n \in Stat, NEW f \in Fields
    PROVE  Merged([s EXCEPT ![f] = n[f]], s, n, f)
<1> USE DEF Merged
<1>1. CASE f = "vmean"
  BY <1>1 DEF Stat, Fields
<1>2. CASE f = "vrange"
  BY <1>2 DEF Stat, Fields
<1>3. CASE f = "vstddev"
  BY <1>3 DEF Stat, Fields
<1>4. CASE f = "vmax"
  BY <1>4 DEF Stat, Fields
<1>5. CASE f = "vmin"
  BY <1>5 DEF Stat, Fields
<1> QED
  BY <1>1, <1>2, <1>3, <1>4, <1>5 DEF Fields

\* One store of calc into the stattool t.
LEMMA StoreFacts ==
    ASSUME StatType, NEW t \in Tools, NEW f \in Fields \cup {"zero"}, Store(t, f)
    PROVE  /\ sbuf' \in [Tools -> Stat]
           /\ \A u \in Tools : u # t => sbuf'[u] = sbuf[u]
           /\ Merged(sbuf'[t], sbuf[t], new, f)
<1>1. sbuf[t] \in Stat /\ new \in Stat /\ sbuf \in [Tools -> Stat]
  BY DEF StatType
<1>2. CASE f = "zero"
  <2>1. sbuf' = [sbuf EXCEPT ![t] = [@ EXCEPT !.vstddev = 0]]
    BY <1>2 DEF Store
  <2>2. [sbuf[t] EXCEPT !.vstddev = 0] \in Stat
    BY <1>1 DEF Stat
  <2> QED
    BY <1>1, <1>2, <2>1, <2>2 DEF Stat, Merged
<1>3. CASE f # "zero"
  <2>1. sbuf' = [sbuf EXCEPT ![t] = [@ EXCEPT ![f] = new[f]]] /\ f \in Fields
    BY <1>3 DEF Store
  <2>2. Merged([sbuf[t] EXCEPT ![f] = new[f]], sbuf[t], new, f)
    BY <1>1, <2>1, ExceptType
  <2>3. [sbuf[t] EXCEPT ![f] = new[f]] \in Stat
    BY <2>2 DEF Merged
  <2>4. /\ sbuf' \in [Tools -> Stat] /\ sbuf'[t] = [sbuf[t] EXCEPT ![f] = new[f]]
        /\ \A u \in Tools : u # t => sbuf'[u] = sbuf[u]
    BY <1>1, <2>1, <2>3
  <2> QED
    BY <2>2, <2>4
<1> QED
  BY <1>2, <1>3

\* One load of bashoutput.
LEMMA LoadFacts ==
    ASSUME StatType, NEW t \in Tools, NEW f \in Fields, Load(t, f)
    PROVE  /\ line' \in [Tools -> Stat]
           /\ \A u \in Tools : u # t => line'[u] = line[u]
           /\ Merged(line'[t], line[t], sbuf[t], f)
<1>1. sbuf[t] \in Stat /\ line[t] \in Stat /\ line \in [Tools -> Stat]
  BY DEF StatType
<1>2. line' = [line EXCEPT ![t] = [@ EXCEPT ![f] = sbuf[t][f]]]
  BY DEF Load
<1>3. Merged([line[t] EXCEPT ![f] = sbuf[t][f]], line[t], sbuf[t], f)
  BY <1>1, ExceptType
<1>4. [line[t] EXCEPT ![f] = sbuf[t][f]] \in Stat
  BY <1>3 DEF Merged
<1>5. /\ line' \in [Tools -> Stat] /\ line'[t] = [line[t] EXCEPT ![f] = sbuf[t][f]]
      /\ \A u \in Tools : u # t => line'[u] = line[u]
  BY <1>1, <1>2, <1>4
<1> QED
  BY <1>3, <1>5

\* calc returns, and leaves the results alone.
LEMMA ReturnedFacts ==
    ASSUME StatType, NEW t \in Tools, Returned(t)
    PROVE  /\ sbuf' \in [Tools -> Stat]
           /\ \A u \in Tools : u # t => sbuf'[u] = sbuf[u]
           /\ sbuf'[t].count = new.count /\ sbuf'[t].vmean = sbuf[t].vmean
           /\ sbuf'[t].vmax = sbuf[t].vmax /\ sbuf'[t].vmin = sbuf[t].vmin
           /\ sbuf'[t].vrange = sbuf[t].vrange /\ sbuf'[t].ic_sum = new.ic_sum
<1>1. sbuf[t] \in Stat /\ new \in Stat /\ sbuf \in [Tools -> Stat]
  BY DEF StatType
<1>2. sbuf' = [sbuf EXCEPT ![t] = [@ EXCEPT !.count = new.count, !.ic_sum = new.ic_sum,
                                            !.ic_sum2 = new.ic_sum2]]
  BY <1>1 DEF Returned
<1>3. [sbuf[t] EXCEPT !.count = new.count, !.ic_sum = new.ic_sum,
                      !.ic_sum2 = new.ic_sum2] \in Stat
  BY <1>1 DEF Stat
<1> QED
  BY <1>1, <1>2, <1>3 DEF Stat

-----------------------------------------------------------------------------
(* Types and counts, in any order of loads and stores.                     *)

\* How many values the mean of a stattool is of.  The run time is one ahead while
\* the period is calculated.
CountInv ==
    /\ rt \in {"wait", "runtime", "period", "end"}
    /\ m_laststart <= start_run
    /\ cycles \in Nat /\ (cycles = 0 => rt = "wait" /\ m_laststart = 0)
    /\ rt \in Tools => new.count = sbuf[rt].count + 1 /\ new.vmean[2] = new.count
    /\ \A t \in Tools :
          sbuf[t].vmean[2] = IF rt = t /\ "vmean" \notin todo THEN new.count
                             ELSE sbuf[t].count
    /\ sbuf["runtime"].count =
          IF rt = "period" THEN sbuf["period"].count + 1 ELSE sbuf["period"].count

\* The period is read first, and the means that are read later are not of fewer values.
PrintedInv ==
    /\ line["period"].vmean[2] <= sbuf["period"].vmean[2]
    /\ <<"runtime", "vmean">> \notin toread =>
          /\ <<"period", "vmean">> \notin toread
          /\ line["period"].vmean[2] <= line["runtime"].vmean[2]

RuntimeInv == StatType /\ CountInv /\ PrintedInv

\* Nothing is counted at first.
LEMMA RuntimeInit == Init => RuntimeInv
<1> SUFFICES ASSUME Init PROVE RuntimeInv
  OBVIOUS
<1>1. Reset \in Stat /\ Reset.count = 0 /\ Reset.vmean[2] = 0
  BY ResetType DEF Reset
<1>2. \A t \in Tools : sbuf[t] = Reset /\ line[t] = Reset
  BY DEF Init
<1>3. StatType
  BY <1>1 DEF Init, StatType
<1>4. CountInv
  BY <1>1, <1>2 DEF Init, CountInv, Tools
<1>5. PrintedInv
  BY <1>1, <1>2 DEF Init, PrintedInv, Tools
<1> QED
  BY <1>3, <1>4, <1>5 DEF RuntimeInv

\* Of the steps, one action per case.
LEMMA NextCases ==
    ASSUME Next
    PROVE  \/ \E p, r \in Nat : Cycle(p, r)
           \/ \E t \in Tools, f \in Fields \cup {"zero"} : Store(t, f)
           \/ PeriodBegin \/ PeriodEnd \/ CycleEnd \/ LineBegin
           \/ \E t \in Tools, f \in Fields : Load(t, f)
<1>1. \A time \in Times : time[1] \in Nat /\ time[2] \in Nat
  BY TimesAssumption
<1> QED
  BY <1>1 DEF Next, RtNext, PrintNext

\* Each step keeps the counts.
LEMMA RuntimeNext ==
    ASSUME RuntimeInv, [Next]_vars
    PROVE  RuntimeInv'
<1> USE DEF RuntimeInv
<1>0. /\ "runtime" \in Tools /\ "period" \in Tools
      /\ \A t \in Tools : t = "runtime" \/ t = "period"
  BY DEF Tools
<1>1. \A s \in Stat : s.count \in Nat /\ s.vmean[2] \in Nat
  BY DEF Stat
<1>2. CASE UNCHANGED vars
  BY <1>2 DEF StatType, CountInv, PrintedInv
<1>3. CASE \E p, r \in Nat : Cycle(p, r)
  <2> PICK p \in Nat, r \in Nat : Cycle(p, r)
    BY <1>3
  <2>1. /\ rt = "wait" /\ start_run' \in Nat /\ m_laststart' = m_laststart
        /\ UNCHANGED <<sbuf, line, toread>>
    BY TimesAssumption DEF Cycle, StatType
  <2>2. m_laststart' <= start_run' /\ cycles' \in Nat /\ cycles' # 0
    BY TimesAssumption DEF Cycle, CountInv, StatType
  <2>3. CASE Begin("runtime", r)
    <3>1. /\ new' \in Stat /\ new'.count = sbuf["runtime"].count + 1
          /\ new'.vmean[2] = new'.count
      BY <1>0, <2>3, CalcType DEF Begin, StatType
    <3>2. rt' = "runtime" /\ todo' = Fields \cup {"zero"}
      BY <2>3 DEF Begin
    <3> QED
      BY <1>0, <2>1, <2>2, <3>1, <3>2 DEF StatType, CountInv, PrintedInv, Fields
  <2>4. CASE rt' = "end" /\ UNCHANGED <<todo, new>>
    BY <2>1, <2>2, <2>4 DEF StatType, CountInv, PrintedInv, Tools
  <2> QED
    BY <2>3, <2>4 DEF Cycle
<1>4. CASE \E t \in Tools, f \in Fields \cup {"zero"} : Store(t, f)
  <2> PICK t \in Tools, f \in Fields \cup {"zero"} : Store(t, f)
    BY <1>4
  <2>1. /\ rt = t /\ f \in todo /\ todo' = todo \ {f}
        /\ UNCHANGED <<rt, new, start_run, m_laststart, toread, line, cycles>>
    BY DEF Store, MayStore
  <2>2. /\ sbuf' \in [Tools -> Stat]
        /\ \A u \in Tools : u # t => sbuf'[u] = sbuf[u]
        /\ sbuf'[t].count = sbuf[t].count
        /\ sbuf'[t].vmean = IF f = "vmean" THEN new.vmean ELSE sbuf[t].vmean
    BY StoreFacts DEF Merged
  <2>3. StatType'
    BY <2>1, <2>2 DEF StatType
  <2>4. CountInv'
    BY <1>0, <2>1, <2>2 DEF CountInv
  <2>5. sbuf["period"].vmean[2] <= sbuf'["period"].vmean[2]
    BY <1>0, <1>1, <2>1, <2>2 DEF CountInv, StatType
  <2>6. PrintedInv'
    BY <1>0, <1>1, <2>1, <2>2, <2>5 DEF PrintedInv, StatType
  <2> QED
    BY <2>3, <2>4, <2>6
<1>5. CASE PeriodBegin
  <2>1. /\ rt = "runtime" /\ todo = {} /\ Returned("runtime")
        /\ Begin("period", start_run - m_laststart)
        /\ UNCHANGED <<start_run, m_laststart, toread, line, cycles>>
    BY <1>5 DEF PeriodBegin
  <2>2. /\ sbuf' \in [Tools -> Stat] /\ sbuf'["period"] = sbuf["period"]
        /\ sbuf'["runtime"].count = new.count
        /\ sbuf'["runtime"].vmean = sbuf["runtime"].vmean
    BY <1>0, <2>1, ReturnedFacts
  <2>3. start_run - m_laststart \in Nat
    BY DEF StatType, CountInv
  <2>4. /\ new' \in Stat /\ new'.count = sbuf["period"].count + 1
        /\ new'.vmean[2] = new'.count /\ rt' = "period" /\ todo' = Fields \cup {"zero"}
    BY <1>0, <2>1, <2>3, CalcType DEF Begin, StatType
  <2>5. StatType'
    BY <2>1, <2>2, <2>4 DEF StatType
  <2>6. CountInv'
    BY <1>0, <2>1, <2>2, <2>4 DEF CountInv, Fields
  <2>7. PrintedInv'
    BY <2>1, <2>2 DEF PrintedInv
  <2> QED
    BY <2>5, <2>6, <2>7
<1>6. CASE PeriodEnd
  <2>1. /\ rt = "period" /\ todo = {} /\ rt' = "end" /\ Returned("period")
        /\ UNCHANGED <<todo, new, start_run, m_laststart, toread, line, cycles>>
    BY <1>6 DEF PeriodEnd
  <2>2. /\ sbuf' \in [Tools -> Stat] /\ sbuf'["runtime"] = sbuf["runtime"]
        /\ sbuf'["period"].count = new.count
        /\ sbuf'["period"].vmean = sbuf["period"].vmean
    BY <1>0, <2>1, ReturnedFacts
  <2>3. StatType'
    BY <2>1, <2>2 DEF StatType
  <2>4. CountInv'
    BY <1>0, <2>1, <2>2 DEF CountInv
  <2>5. PrintedInv'
    BY <2>1, <2>2 DEF PrintedInv
  <2> QED
    BY <2>3, <2>4, <2>5
<1>7. CASE CycleEnd
  BY <1>0, <1>7 DEF CycleEnd, StatType, CountInv, PrintedInv
<1>8. CASE LineBegin
  <2>1. /\ toread' = Loads /\ line' = [t \in Tools |-> Reset]
        /\ UNCHANGED <<rt, todo, new, start_run, m_laststart, sbuf, cycles>>
    BY <1>8 DEF LineBegin
  <2>2. line' \in [Tools -> Stat] /\ line'["period"].vmean[2] = 0
    BY <1>0, <2>1, ResetType DEF Reset
  <2>3. <<"runtime", "vmean">> \in toread'
    BY <2>1 DEF Loads, Tools, Fields
  <2>4. StatType'
    BY <2>1, <2>2 DEF StatType
  <2>5. CountInv'
    BY <2>1 DEF CountInv
  <2>6. PrintedInv'
    BY <1>0, <1>1, <2>1, <2>2, <2>3 DEF PrintedInv, StatType
  <2> QED
    BY <2>4, <2>5, <2>6
<1>9. CASE \E t \in Tools, f \in Fields : Load(t, f)
  <2> PICK t \in Tools, f \in Fields : Load(t, f)
    BY <1>9
  <2>1. /\ <<t, f>> \in toread /\ toread' = toread \ {<<t, f>>}
        /\ t = "runtime" => \A g \in Fields : <<"period", g>> \notin toread
        /\ UNCHANGED <<rt, todo, new, start_run, m_laststart, sbuf, cycles>>
    BY DEF Load, MayLoad
  <2>2. /\ line' \in [Tools -> Stat]
        /\ \A u \in Tools : u # t => line'[u] = line[u]
        /\ line'[t].vmean = IF f = "vmean" THEN sbuf[t].vmean ELSE line[t].vmean
    BY LoadFacts DEF Merged
  <2>3. StatType'
    BY <2>1, <2>2 DEF StatType
  <2>4. CountInv'
    BY <2>1 DEF CountInv
  <2>5. sbuf["period"].vmean[2] <= sbuf["runtime"].vmean[2]
    BY <1>0, <1>1 DEF CountInv, StatType
  <2>6. "vmean" \in Fields
    BY DEF Fields
  <2>7. CASE t = "period"
    <3>1. line'["runtime"] = line["runtime"] /\ (<<"runtime", "vmean">> \notin toread' <=> <<"runtime", "vmean">> \notin toread)
      BY <1>0, <2>1, <2>2, <2>7
    <3>2. <<"runtime", "vmean">> \notin toread => f # "vmean"
      BY <2>1, <2>7 DEF PrintedInv
    <3>3. line'["period"].vmean[2] <= sbuf["period"].vmean[2]
      BY <1>0, <1>1, <2>2, <2>7 DEF PrintedInv, StatType
    <3> QED
      BY <2>1, <2>2, <2>3, <2>4, <2>7, <3>1, <3>2, <3>3 DEF PrintedInv
  <2>8. CASE t = "runtime"
    <3>1. line'["period"] = line["period"] /\ <<"period", "vmean">> \notin toread
      BY <1>0, <2>1, <2>2, <2>6, <2>8
    <3>2. line["period"].vmean[2] <= sbuf["period"].vmean[2]
      BY DEF PrintedInv
    <3>3. line["period"].vmean[2] <= sbuf["runtime"].vmean[2]
      BY <1>0, <1>1, <2>5, <3>2 DEF StatType
    <3>4. <<"runtime", "vmean">> \notin toread' =>
              line["period"].vmean[2] <= line'["runtime"].vmean[2]
      BY <2>1, <2>2, <2>8, <3>3 DEF PrintedInv
    <3> QED
      BY <2>1, <2>3, <2>4, <3>1, <3>2, <3>4 DEF PrintedInv
  <2> QED
    BY <1>0, <2>7, <2>8
<1> QED
  BY <1>2, <1>3, <1>4, <1>5, <1>6, <1>7, <1>8, <1>9, NextCases

\* In program order, bashoutput never prints a run time of fewer cycles than the period
\* beside it.  Of that order, only that between the two stattools counts.
THEOREM RuntimeNotOlderCorrect == Spec => []RuntimeNotOlder
<1>1. RuntimeInv => RuntimeNotOlder
  BY DEF RuntimeInv, PrintedInv, RuntimeNotOlder, StatType, Stat, Tools
<1>2. RuntimeInv /\ [Next]_vars => RuntimeInv'
  BY RuntimeNext
<1> QED
  BY <1>1, <1>2, RuntimeInit, PTL DEF Spec

-----------------------------------------------------------------------------
(* Mean and extrema, in program order.                                     *)

\* The mean <<sum, n>> is between lo and hi.
Between(lo, mean, hi) == mean[2] * lo <= mean[1] /\ mean[1] <= mean[2] * hi

\* What is left to be stored and to be loaded, in program order.
OrderInv ==
    /\ rt \in Tools /\ ("vrange" \notin todo \/ "vmean" \notin todo) =>
          "vmax" \notin todo /\ "vmin" \notin todo
    /\ \A t \in Tools :
          (<<t, "vmax">> \notin toread \/ <<t, "vmin">> \notin toread) =>
              <<t, "vmean">> \notin toread /\ <<t, "vrange">> \notin toread

\* The results that calc is going to store.
NewInv ==
    rt \in Tools =>
        /\ new.vmean = <<new.ic_sum, new.count>> /\ Between(new.vmin, new.vmean, new.vmax)
        /\ new.vrange <= new.vmax - new.vmin
        /\ sbuf[rt].count > 0 => sbuf[rt].vmax <= new.vmax /\ new.vmin <= sbuf[rt].vmin
        /\ "vmax" \notin todo => sbuf[rt].vmax = new.vmax
        /\ "vmin" \notin todo => sbuf[rt].vmin = new.vmin
        /\ "vrange" \notin todo => sbuf[rt].vrange = new.vrange
        /\ "vmean" \notin todo => sbuf[rt].vmean = new.vmean

\* The results that are stored.
ToolInv ==
    \A t \in Tools :
        /\ rt # t => sbuf[t].vmean = <<sbuf[t].ic_sum, sbuf[t].count>>
        /\ sbuf[t].count = 0 => sbuf[t].ic_sum = 0
        /\ sbuf[t].count > 0 => /\ Between(sbuf[t].vmin, sbuf[t].vmean, sbuf[t].vmax)
                                /\ sbuf[t].vrange <= sbuf[t].vmax - sbuf[t].vmin

\* A result of the line, or what would be loaded for it now.
Seen(t) == [max |-> IF <<t, "vmax">> \in toread THEN sbuf[t].vmax ELSE line[t].vmax,
            min |-> IF <<t, "vmin">> \in toread THEN sbuf[t].vmin ELSE line[t].vmin]

\* What has been loaded stays within the extrema, which only widen.
SeenInv ==
    \A t \in Tools :
        before[t] > 0 =>
            /\ sbuf[t].count > 0
            /\ <<t, "vmean">> \notin toread => Between(Seen(t).min, line[t].vmean, Seen(t).max)
            /\ <<t, "vrange">> \notin toread => line[t].vrange <= Seen(t).max - Seen(t).min

LineInv == OrderInv /\ NewInv /\ ToolInv /\ SeenInv

\* Wider extrema still hold a mean.
LEMMA BetweenWider ==
    ASSUME NEW lo \in Nat, NEW hi \in Nat, NEW lo2 \in Nat, NEW hi2 \in Nat,
           NEW mean \in Nat \X Nat, Between(lo, mean, hi), lo2 <= lo, hi <= hi2
    PROVE  Between(lo2, mean, hi2)
<1>1. mean[1] \in Nat /\ mean[2] \in Nat
  OBVIOUS
<1>2. mean[2] * lo2 <= mean[2] * lo /\ mean[2] * hi <= mean[2] * hi2
  BY <1>1
<1> QED
  BY <1>1, <1>2 DEF Between

\* Inequalities are added.
LEMMA SumMono ==
    ASSUME NEW a \in Nat, NEW b \in Nat, NEW x \in Nat, NEW y \in Nat, a <= x, b <= y
    PROVE  a + b <= x + y
OBVIOUS

\* calc counts the value in.
LEMMA CalcBetween ==
    ASSUME NEW s \in Stat, NEW v \in Nat, s.vmean = <<s.ic_sum, s.count>>,
           s.count = 0 => s.ic_sum = 0,
           s.count > 0 => Between(s.vmin, s.vmean, s.vmax)
    PROVE  LET c == Calc(s, v)
           IN  /\ c.vmean = <<c.ic_sum, c.count>> /\ Between(c.vmin, c.vmean, c.vmax)
               /\ c.vrange = c.vmax - c.vmin
               /\ s.count > 0 => s.vmax <= c.vmax /\ c.vmin <= s.vmin
<1> DEFINE c == Calc(s, v)
<1>1. /\ s.count \in Nat /\ s.ic_sum \in Nat /\ s.vmax \in Nat /\ s.vmin \in Nat
      /\ c \in Stat
  BY CalcType DEF Stat
<1>2. /\ c.vmean = <<s.ic_sum + v, s.count + 1>> /\ c.vmean = <<c.ic_sum, c.count>>
      /\ c.vmax = IF s.count = 0 \/ v > s.vmax THEN v ELSE s.vmax
      /\ c.vmin = IF s.count = 0 \/ v < s.vmin THEN v ELSE s.vmin
      /\ c.vrange = c.vmax - c.vmin
  BY DEF Calc
<1> HIDE DEF c
<1>3. c.vmin \in Nat /\ c.vmax \in Nat /\ c.vmin <= v /\ v <= c.vmax
  BY <1>1, <1>2
<1>4. s.count * c.vmin <= s.ic_sum /\ s.ic_sum <= s.count * c.vmax
  <2>1. CASE s.count = 0
    BY <1>1, <1>3, <2>1
  <2>2. CASE s.count > 0
    <3>1. s.vmean \in Nat \X Nat /\ c.vmin <= s.vmin /\ s.vmax <= c.vmax
      BY <1>1, <1>2, <2>2
    <3>2. Between(c.vmin, s.vmean, c.vmax)
      BY <1>1, <1>3, <2>2, <3>1, BetweenWider
    <3> QED
      BY <1>1, <3>2 DEF Between
  <2> QED
    BY <1>1, <2>1, <2>2
<1>5. /\ (s.count + 1) * c.vmin = s.count * c.vmin + c.vmin
      /\ (s.count + 1) * c.vmax = s.count * c.vmax + c.vmax
  BY <1>1, <1>3
<1>6. s.count * c.vmin \in Nat /\ s.count * c.vmax \in Nat
  BY <1>1, <1>3
<1>7. (s.count + 1) * c.vmin <= s.ic_sum + v /\ s.ic_sum + v <= (s.count + 1) * c.vmax
  <2>1. /\ s.count * c.vmin + c.vmin <= s.ic_sum + v
        /\ s.ic_sum + v <= s.count * c.vmax + c.vmax
    BY <1>1, <1>3, <1>4, <1>6, SumMono
  <2> QED
    BY <1>5, <2>1
<1>8. Between(c.vmin, c.vmean, c.vmax)
  BY <1>2, <1>7 DEF Between
<1>9. s.count > 0 => s.vmax <= c.vmax /\ c.vmin <= s.vmin
  BY <1>1, <1>2
<1> QED
  BY <1>2, <1>8, <1>9 DEF c

\* calc stores the extrema before range and mean, and bashoutput loads them after.
LEMMA OrderFacts ==
    /\ \A n : \A x \in {"vmax", "vmin"}, y \in {"vrange", "vmean"} : Precedes(StoreOrder(n), x, y)
    /\ \A x \in {"vmean", "vrange"}, y \in {"vmax", "vmin"} : Precedes(PrintOrder, x, y)
<1>1. ASSUME NEW n, NEW x \in {"vmax", "vmin"}, NEW y \in {"vrange", "vmean"}
      PROVE  Precedes(StoreOrder(n), x, y)
  <2>1. StoreOrder(n) = IF n = 1 THEN <<"vmin", "vmax", "vrange", "vmean", "zero", "vstddev">>
                        ELSE <<"vmax", "vmin", "vrange", "vmean", "zero", "vstddev">>
    BY DEF StoreOrder
  <2>2. PICK i \in 1 .. 2 : StoreOrder(n)[i] = x
    <3>1. \E i \in 1 .. 2 : StoreOrder(n)[i] = x
      BY <2>1
    <3> QED
      BY <3>1
  <2>3. PICK j \in 3 .. 4 : StoreOrder(n)[j] = y
    <3>1. \E j \in 3 .. 4 : StoreOrder(n)[j] = y
      BY <2>1
    <3> QED
      BY <3>1
  <2>4. DOMAIN StoreOrder(n) = 1 .. 6
    BY <2>1
  <2> QED
    BY <2>2, <2>3, <2>4 DEF Precedes
<1>2. ASSUME NEW x \in {"vmean", "vrange"}, NEW y \in {"vmax", "vmin"}
      PROVE  Precedes(PrintOrder, x, y)
  <2>1. PrintOrder = <<"vmean", "vrange", "vstddev", "vmax", "vmin">>
    BY DEF PrintOrder
  <2>2. DOMAIN PrintOrder = 1 .. 5
    BY <2>1
  <2>3. \E i \in 1 .. 2 : PrintOrder[i] = x
    BY <2>1
  <2>4. \E j \in 4 .. 5 : PrintOrder[j] = y
    BY <2>1
  <2> QED
    BY <2>2, <2>3, <2>4 DEF Precedes
<1> QED
  BY <1>1, <1>2

\* Nothing is stored or printed at first.
LEMMA LineInit == Init => (inorder => LineInv)
<1> SUFFICES ASSUME Init PROVE LineInv
  OBVIOUS
<1>1. /\ Reset.count = 0 /\ Reset.ic_sum = 0 /\ Reset.vmean = <<0, 0>>
  BY DEF Reset
<1>2. \A t \in Tools : sbuf[t] = Reset /\ line[t] = Reset /\ before[t] = 0
  BY DEF Init
<1>3. OrderInv /\ NewInv
  <2>1. rt \notin Tools /\ \A t \in Tools : before[t] = 0 /\ toread = {}
    BY DEF Init, Tools
  <2> QED
    BY <2>1 DEF OrderInv, NewInv
<1>4. ToolInv /\ SeenInv
  BY <1>1, <1>2 DEF ToolInv, SeenInv
<1> QED
  BY <1>3, <1>4 DEF LineInv

\* Extrema that widen, at a store of calc, hold what they held.
LEMMA SeenWider ==
    ASSUME StatType, StatType', SeenInv,
           UNCHANGED <<before, toread, line>>,
           \A t \in Tools :
              /\ sbuf[t].count > 0 => sbuf'[t].count > 0
              /\ sbuf[t].count > 0 =>
                    sbuf[t].vmax <= sbuf'[t].vmax /\ sbuf'[t].vmin <= sbuf[t].vmin
    PROVE  SeenInv'
<1> SUFFICES ASSUME NEW t \in Tools, before[t] > 0
             PROVE  /\ sbuf'[t].count > 0
                    /\ <<t, "vmean">> \notin toread =>
                          Between(Seen(t).min, line[t].vmean, Seen(t).max)'
                    /\ <<t, "vrange">> \notin toread =>
                          line[t].vrange <= Seen(t).max' - Seen(t).min'
  BY DEF SeenInv
<1>1. /\ sbuf[t].count > 0 /\ sbuf'[t].count > 0
      /\ sbuf[t].vmax <= sbuf'[t].vmax /\ sbuf'[t].vmin <= sbuf[t].vmin
  BY DEF SeenInv
<1>2. /\ sbuf[t].vmax \in Nat /\ sbuf[t].vmin \in Nat /\ sbuf'[t].vmax \in Nat
      /\ sbuf'[t].vmin \in Nat /\ line[t].vmax \in Nat /\ line[t].vmin \in Nat
      /\ line[t].vmean \in Nat \X Nat /\ line[t].vrange \in Int
  BY DEF StatType, Stat
<1>3. /\ Seen(t).max \in Nat /\ Seen(t).min \in Nat
      /\ Seen(t).max' \in Nat /\ Seen(t).min' \in Nat
      /\ Seen(t).max <= Seen(t).max' /\ Seen(t).min' <= Seen(t).min
  BY <1>1, <1>2 DEF Seen
<1>4. ASSUME <<t, "vmean">> \notin toread
      PROVE  Between(Seen(t).min', line[t].vmean, Seen(t).max')
  <2>1. Between(Seen(t).min, line[t].vmean, Seen(t).max)
    BY <1>4 DEF SeenInv
  <2> QED
    BY <1>2, <1>3, <2>1, BetweenWider
<1>5. ASSUME <<t, "vrange">> \notin toread
      PROVE  line[t].vrange <= Seen(t).max' - Seen(t).min'
  <2>1. line[t].vrange <= Seen(t).max - Seen(t).min
    BY <1>5 DEF SeenInv
  <2> QED
    BY <1>2, <1>3, <2>1
<1>6. Between(Seen(t).min, line[t].vmean, Seen(t).max)' =
          Between(Seen(t).min', line[t].vmean, Seen(t).max')
  BY DEF Between
<1> QED
  BY <1>1, <1>4, <1>5, <1>6

\* One store of calc: the extrema widen, then range and mean follow them.
LEMMA LineStore ==
    ASSUME inorder, StatType, StatType', LineInv,
           NEW t \in Tools, NEW f \in Fields \cup {"zero"}, Store(t, f)
    PROVE  LineInv'
<1>1. /\ rt = t /\ f \in todo /\ todo' = todo \ {f}
      /\ \A g \in todo : ~Precedes(StoreOrder(new.count), g, f)
      /\ UNCHANGED <<rt, new, toread, line, before>>
  BY DEF Store, MayStore
<1>2. /\ \A u \in Tools : u # t => sbuf'[u] = sbuf[u]
      /\ sbuf'[t].count = sbuf[t].count /\ sbuf'[t].ic_sum = sbuf[t].ic_sum
      /\ sbuf'[t].vmean = IF f = "vmean" THEN new.vmean ELSE sbuf[t].vmean
      /\ sbuf'[t].vmax = IF f = "vmax" THEN new.vmax ELSE sbuf[t].vmax
      /\ sbuf'[t].vmin = IF f = "vmin" THEN new.vmin ELSE sbuf[t].vmin
      /\ sbuf'[t].vrange = IF f = "vrange" THEN new.vrange ELSE sbuf[t].vrange
  BY StoreFacts DEF Merged
<1>3. f \in {"vmean", "vrange"} => "vmax" \notin todo /\ "vmin" \notin todo
  BY <1>1, OrderFacts
<1>4. OrderInv'
  BY <1>1, <1>3 DEF LineInv, OrderInv
<1>5. NewInv'
  <2>1. Between(new.vmin, new.vmean, new.vmax)' = Between(new.vmin, new.vmean, new.vmax)
    BY <1>1 DEF Between
  <2>2. new.vmax \in Nat /\ new.vmin \in Nat /\ sbuf[t].vmax \in Nat /\ sbuf[t].vmin \in Nat
    BY DEF StatType, Stat
  <2>3. sbuf[t].count > 0 => sbuf'[t].vmax <= new.vmax /\ new.vmin <= sbuf'[t].vmin
    BY <1>1, <1>2, <2>2 DEF LineInv, NewInv
  <2> QED
    BY <1>1, <1>2, <2>1, <2>3 DEF LineInv, NewInv
<1>6. /\ new.vmax \in Nat /\ new.vmin \in Nat /\ new.vmean \in Nat \X Nat /\ new.vrange \in Int
      /\ sbuf[t].vmax \in Nat /\ sbuf[t].vmin \in Nat /\ sbuf[t].vmean \in Nat \X Nat
      /\ sbuf[t].vrange \in Int
      /\ sbuf'[t].vmax \in Nat /\ sbuf'[t].vmin \in Nat
  BY DEF StatType, Stat
<1>7. sbuf[t].count > 0 =>
          sbuf[t].vmax <= sbuf'[t].vmax /\ sbuf'[t].vmin <= sbuf[t].vmin
  BY <1>1, <1>2, <1>6 DEF LineInv, NewInv
<1>8. ASSUME sbuf[t].count > 0
      PROVE  /\ Between(sbuf'[t].vmin, sbuf'[t].vmean, sbuf'[t].vmax)
             /\ sbuf'[t].vrange <= sbuf'[t].vmax - sbuf'[t].vmin
  <2>1. /\ Between(sbuf[t].vmin, sbuf[t].vmean, sbuf[t].vmax)
        /\ sbuf[t].vrange <= sbuf[t].vmax - sbuf[t].vmin
    BY <1>8 DEF LineInv, ToolInv
  <2>2. /\ Between(new.vmin, new.vmean, new.vmax) /\ new.vrange <= new.vmax - new.vmin
        /\ "vmax" \notin todo => sbuf[t].vmax = new.vmax
        /\ "vmin" \notin todo => sbuf[t].vmin = new.vmin
    BY <1>1 DEF LineInv, NewInv
  <2>3. Between(sbuf'[t].vmin, sbuf[t].vmean, sbuf'[t].vmax)
    BY <1>6, <1>7, <1>8, <2>1, BetweenWider
  <2>4. Between(sbuf'[t].vmin, sbuf'[t].vmean, sbuf'[t].vmax)
    BY <1>2, <1>3, <2>2, <2>3
  <2>5. sbuf[t].vrange <= sbuf'[t].vmax - sbuf'[t].vmin
    BY <1>6, <1>7, <1>8, <2>1
  <2>6. sbuf'[t].vrange <= sbuf'[t].vmax - sbuf'[t].vmin
    BY <1>2, <1>3, <2>2, <2>5
  <2> QED
    BY <2>4, <2>6
<1>9. ToolInv'
  <2> SUFFICES ASSUME NEW u \in Tools
               PROVE  /\ rt' # u => sbuf'[u].vmean = <<sbuf'[u].ic_sum, sbuf'[u].count>>
                      /\ sbuf'[u].count = 0 => sbuf'[u].ic_sum = 0
                      /\ sbuf'[u].count > 0 =>
                            /\ Between(sbuf'[u].vmin, sbuf'[u].vmean, sbuf'[u].vmax)
                            /\ sbuf'[u].vrange <= sbuf'[u].vmax - sbuf'[u].vmin
    BY DEF ToolInv, Between
  <2>1. CASE u = t
    BY <1>1, <1>2, <1>8, <2>1 DEF LineInv, ToolInv
  <2>2. CASE u # t
    BY <1>1, <1>2, <2>2 DEF LineInv, ToolInv
  <2> QED
    BY <2>1, <2>2
<1>10. SeenInv'
  <2>1. \A u \in Tools :
           /\ sbuf[u].count > 0 => sbuf'[u].count > 0
           /\ sbuf[u].count > 0 =>
                 sbuf[u].vmax <= sbuf'[u].vmax /\ sbuf'[u].vmin <= sbuf[u].vmin
    <3>1. \A u \in Tools : sbuf[u].vmax \in Nat /\ sbuf[u].vmin \in Nat
      BY DEF StatType, Stat
    <3> QED
      BY <1>2, <1>7, <3>1
  <2> QED
    BY <1>1, <2>1, SeenWider DEF LineInv
<1> QED
  BY <1>4, <1>5, <1>9, <1>10 DEF LineInv

\* calc for the next value of the stattool t, whose results are all stored.
LEMMA BeginFacts ==
    ASSUME NEW s \in Stat, NEW v \in Nat, NEW c, c = Calc(s, v),
           s.vmean = <<s.ic_sum, s.count>>, s.count = 0 => s.ic_sum = 0,
           s.count > 0 => Between(s.vmin, s.vmean, s.vmax)
    PROVE  /\ c.vmean = <<c.ic_sum, c.count>> /\ Between(c.vmin, c.vmean, c.vmax)
           /\ c.vrange <= c.vmax - c.vmin
           /\ s.count > 0 => s.vmax <= c.vmax /\ c.vmin <= s.vmin
<1>1. c.vmax - c.vmin \in Int
  <2>1. c \in Stat
    BY CalcType
  <2> QED
    BY <2>1 DEF Stat
<1>2. /\ c.vmean = <<c.ic_sum, c.count>> /\ Between(c.vmin, c.vmean, c.vmax)
      /\ c.vrange = c.vmax - c.vmin
      /\ s.count > 0 => s.vmax <= c.vmax /\ c.vmin <= s.vmin
  BY CalcBetween
<1> QED
  BY <1>1, <1>2

\* When calc returns, its results are those of the values counted.
LEMMA LineReturned ==
    ASSUME StatType, StatType', CountInv, LineInv, NEW t \in Tools, rt = t, todo = {},
           Returned(t), rt' # t, UNCHANGED <<toread, line, before>>
    PROVE  ToolInv' /\ SeenInv'
<1>1. /\ \A u \in Tools : u # t => sbuf'[u] = sbuf[u]
      /\ sbuf'[t].count = new.count /\ sbuf'[t].vmean = sbuf[t].vmean
      /\ sbuf'[t].vmax = sbuf[t].vmax /\ sbuf'[t].vmin = sbuf[t].vmin
      /\ sbuf'[t].vrange = sbuf[t].vrange /\ sbuf'[t].ic_sum = new.ic_sum
  BY ReturnedFacts
<1>2. /\ new.vmean = <<new.ic_sum, new.count>> /\ Between(new.vmin, new.vmean, new.vmax)
      /\ new.vrange <= new.vmax - new.vmin
      /\ sbuf[t].vmax = new.vmax /\ sbuf[t].vmin = new.vmin
      /\ sbuf[t].vrange = new.vrange /\ sbuf[t].vmean = new.vmean
  BY DEF LineInv, NewInv
<1>3. new.count \in Nat /\ new.count > 0
  BY DEF StatType, Stat, CountInv
<1>4. ToolInv'
  <2> SUFFICES ASSUME NEW u \in Tools
               PROVE  /\ rt' # u => sbuf'[u].vmean = <<sbuf'[u].ic_sum, sbuf'[u].count>>
                      /\ sbuf'[u].count = 0 => sbuf'[u].ic_sum = 0
                      /\ sbuf'[u].count > 0 =>
                            /\ Between(sbuf'[u].vmin, sbuf'[u].vmean, sbuf'[u].vmax)
                            /\ sbuf'[u].vrange <= sbuf'[u].vmax - sbuf'[u].vmin
    BY DEF ToolInv, Between
  <2>1. CASE u = t
    BY <1>1, <1>2, <1>3, <2>1
  <2>2. CASE u # t
    BY <1>1, <2>2 DEF LineInv, ToolInv
  <2> QED
    BY <2>1, <2>2
<1>5. \A u \in Tools :
         /\ sbuf[u].count > 0 => sbuf'[u].count > 0
         /\ sbuf[u].count > 0 =>
               sbuf[u].vmax <= sbuf'[u].vmax /\ sbuf'[u].vmin <= sbuf[u].vmin
  <2>1. \A u \in Tools : sbuf[u].vmax \in Nat /\ sbuf[u].vmin \in Nat
    BY DEF StatType, Stat
  <2> QED
    BY <1>1, <1>3, <2>1
<1> QED
  BY <1>4, <1>5, SeenWider DEF LineInv

\* One load: the mean and the range are within extrema that are still to be loaded.
LEMMA LineLoad ==
    ASSUME inorder, StatType, StatType', LineInv,
           NEW t \in Tools, NEW f \in Fields, Load(t, f)
    PROVE  LineInv'
<1>1. /\ <<t, f>> \in toread /\ toread' = toread \ {<<t, f>>}
      /\ \A g \in Fields : <<t, g>> \in toread => ~Precedes(PrintOrder, g, f)
      /\ UNCHANGED <<rt, todo, new, sbuf, before>>
  BY DEF Load, MayLoad
<1>2. /\ \A u \in Tools : u # t => line'[u] = line[u]
      /\ line'[t].vmean = IF f = "vmean" THEN sbuf[t].vmean ELSE line[t].vmean
      /\ line'[t].vmax = IF f = "vmax" THEN sbuf[t].vmax ELSE line[t].vmax
      /\ line'[t].vmin = IF f = "vmin" THEN sbuf[t].vmin ELSE line[t].vmin
      /\ line'[t].vrange = IF f = "vrange" THEN sbuf[t].vrange ELSE line[t].vrange
  BY LoadFacts DEF Merged
<1>3. f \in {"vmax", "vmin"} => <<t, "vmean">> \notin toread /\ <<t, "vrange">> \notin toread
  BY <1>1, OrderFacts DEF Fields
<1>4. OrderInv'
  <2>1. \A u \in Tools :
           (<<u, "vmax">> \notin toread' \/ <<u, "vmin">> \notin toread') =>
               <<u, "vmean">> \notin toread' /\ <<u, "vrange">> \notin toread'
    BY <1>1, <1>3 DEF LineInv, OrderInv
  <2> QED
    BY <1>1, <2>1 DEF LineInv, OrderInv
<1>5. NewInv' /\ ToolInv'
  BY <1>1 DEF LineInv, NewInv, ToolInv, Between
<1>6. \A u \in Tools : Seen(u)' = Seen(u)
  BY <1>1, <1>2 DEF Seen
<1>7. f \in {"vmean", "vrange"} => Seen(t).max = sbuf[t].vmax /\ Seen(t).min = sbuf[t].vmin
  BY <1>1 DEF LineInv, OrderInv, Seen
<1>8. SeenInv'
  <2> SUFFICES ASSUME NEW u \in Tools, before[u] > 0
               PROVE  /\ sbuf[u].count > 0
                      /\ <<u, "vmean">> \notin toread' =>
                            Between(Seen(u).min, line'[u].vmean, Seen(u).max)
                      /\ <<u, "vrange">> \notin toread' =>
                            line'[u].vrange <= Seen(u).max - Seen(u).min
    BY <1>1, <1>6 DEF SeenInv, Between
  <2>1. sbuf[u].count > 0
    BY DEF LineInv, SeenInv
  <2>2. ASSUME <<u, "vmean">> \notin toread'
        PROVE  Between(Seen(u).min, line'[u].vmean, Seen(u).max)
    BY <1>1, <1>2, <1>7, <2>1, <2>2 DEF LineInv, SeenInv, ToolInv
  <2>3. ASSUME <<u, "vrange">> \notin toread'
        PROVE  line'[u].vrange <= Seen(u).max - Seen(u).min
    BY <1>1, <1>2, <1>7, <2>1, <2>3 DEF LineInv, SeenInv, ToolInv
  <2> QED
    BY <2>1, <2>2, <2>3
<1> QED
  BY <1>4, <1>5, <1>8 DEF LineInv

\* Each step keeps a line from contradicting itself.
LEMMA LineNext ==
    ASSUME inorder, RuntimeInv, RuntimeInv', LineInv, [Next]_vars
    PROVE  LineInv'
<1> USE DEF RuntimeInv
<1>0. /\ "runtime" \in Tools /\ "period" \in Tools
      /\ \A t \in Tools : t = "runtime" \/ t = "period"
  BY DEF Tools
<1>1. CASE UNCHANGED <<rt, todo, new, sbuf, toread, line, before>>
  BY <1>1 DEF LineInv, OrderInv, NewInv, ToolInv, SeenInv, Seen, Between
<1>2. CASE \E p, r \in Nat : Cycle(p, r)
  <2> PICK p \in Nat, r \in Nat : Cycle(p, r)
    BY <1>2
  <2>1. rt = "wait" /\ UNCHANGED <<sbuf, toread, line, before>>
    BY DEF Cycle
  <2>2. SeenInv'
    BY <2>1 DEF LineInv, SeenInv, Seen, Between
  <2>3. CASE Begin("runtime", r)
    <3>1. /\ rt' = "runtime" /\ new' = Calc(sbuf["runtime"], r)
          /\ todo' = Fields \cup {"zero"}
      BY <2>3 DEF Begin
    <3>2. /\ sbuf["runtime"].vmean = <<sbuf["runtime"].ic_sum, sbuf["runtime"].count>>
          /\ sbuf["runtime"].count = 0 => sbuf["runtime"].ic_sum = 0
          /\ sbuf["runtime"].count > 0 =>
               Between(sbuf["runtime"].vmin, sbuf["runtime"].vmean, sbuf["runtime"].vmax)
      BY <1>0, <2>1 DEF LineInv, ToolInv
    <3>3. /\ new'.vmean = <<new'.ic_sum, new'.count>>
          /\ Between(new'.vmin, new'.vmean, new'.vmax)
          /\ new'.vrange <= new'.vmax - new'.vmin
          /\ sbuf["runtime"].count > 0 =>
               sbuf["runtime"].vmax <= new'.vmax /\ new'.vmin <= sbuf["runtime"].vmin
      BY <1>0, <3>1, <3>2, BeginFacts DEF StatType
    <3>4. NewInv'
      BY <2>1, <3>1, <3>3 DEF NewInv, Between, Fields
    <3>5. OrderInv'
      BY <2>1, <3>1 DEF LineInv, OrderInv, Fields
    <3>6. ToolInv'
      BY <2>1, <3>1 DEF LineInv, ToolInv, Between, Tools
    <3> QED
      BY <2>2, <3>4, <3>5, <3>6 DEF LineInv
  <2>4. CASE rt' = "end" /\ UNCHANGED <<todo, new>>
    BY <1>0, <2>1, <2>2, <2>4 DEF LineInv, OrderInv, NewInv, ToolInv, Between, Tools
  <2> QED
    BY <2>3, <2>4 DEF Cycle
<1>3. CASE \E t \in Tools, f \in Fields \cup {"zero"} : Store(t, f)
  BY <1>3, LineStore
<1>4. CASE PeriodBegin
  <2>1. /\ rt = "runtime" /\ todo = {} /\ Returned("runtime")
        /\ rt' = "period" /\ new' = Calc(sbuf["period"], start_run - m_laststart)
        /\ todo' = Fields \cup {"zero"}
        /\ UNCHANGED <<toread, line, before>>
    BY <1>4 DEF PeriodBegin, Begin
  <2>2. /\ sbuf'["period"] = sbuf["period"]
        /\ sbuf'["runtime"].count = new.count
        /\ sbuf'["runtime"].vmean = sbuf["runtime"].vmean
        /\ sbuf'["runtime"].vmax = sbuf["runtime"].vmax
        /\ sbuf'["runtime"].vmin = sbuf["runtime"].vmin
        /\ sbuf'["runtime"].vrange = sbuf["runtime"].vrange
        /\ sbuf'["runtime"].ic_sum = new.ic_sum
    BY <1>0, <2>1, ReturnedFacts
  <2>3. start_run - m_laststart \in Nat
    BY DEF StatType, CountInv
  <2>4. /\ sbuf["period"].vmean = <<sbuf["period"].ic_sum, sbuf["period"].count>>
        /\ sbuf["period"].count = 0 => sbuf["period"].ic_sum = 0
        /\ sbuf["period"].count > 0 =>
             Between(sbuf["period"].vmin, sbuf["period"].vmean, sbuf["period"].vmax)
    BY <1>0, <2>1 DEF LineInv, ToolInv
  <2>5. /\ new'.vmean = <<new'.ic_sum, new'.count>>
        /\ Between(new'.vmin, new'.vmean, new'.vmax)
        /\ new'.vrange <= new'.vmax - new'.vmin
        /\ sbuf["period"].count > 0 =>
             sbuf["period"].vmax <= new'.vmax /\ new'.vmin <= sbuf["period"].vmin
    BY <1>0, <2>1, <2>3, <2>4, BeginFacts DEF StatType
  <2>6. NewInv'
    BY <2>1, <2>2, <2>5 DEF NewInv, Between, Fields
  <2>7. OrderInv'
    BY <2>1 DEF LineInv, OrderInv, Fields
  <2>8. ToolInv' /\ SeenInv'
    BY <1>0, <2>1, LineReturned
  <2> QED
    BY <2>6, <2>7, <2>8 DEF LineInv
<1>5. CASE PeriodEnd
  <2>1. /\ rt = "period" /\ todo = {} /\ rt' = "end" /\ Returned("period")
        /\ UNCHANGED <<todo, new, toread, line, before>>
    BY <1>5 DEF PeriodEnd
  <2>2. ToolInv' /\ SeenInv'
    BY <1>0, <2>1, LineReturned
  <2>3. OrderInv' /\ NewInv'
    BY <2>1 DEF LineInv, OrderInv, NewInv, Tools
  <2> QED
    BY <2>2, <2>3 DEF LineInv
<1>6. CASE CycleEnd
  BY <1>6 DEF CycleEnd, LineInv, OrderInv, NewInv, ToolInv, SeenInv, Seen, Between, Tools
<1>7. CASE LineBegin
  <2>1. /\ toread' = Loads /\ before' = [t \in Tools |-> sbuf[t].count]
        /\ UNCHANGED <<rt, todo, new, sbuf>>
    BY <1>7 DEF LineBegin
  <2>2. OrderInv' /\ SeenInv'
    BY <2>1 DEF LineInv, OrderInv, SeenInv, Loads, Fields
  <2>3. NewInv' /\ ToolInv'
    BY <2>1 DEF LineInv, NewInv, ToolInv, Between
  <2> QED
    BY <2>2, <2>3 DEF LineInv
<1>8. CASE \E t \in Tools, f \in Fields : Load(t, f)
  BY <1>8, LineLoad
<1> QED
  BY <1>1, <1>2, <1>3, <1>4, <1>5, <1>6, <1>7, <1>8, NextCases

\* In program order, the results that bashoutput prints of one stattool agree with each
\* other, although calc ran between their loads.
THEOREM LineConsistentCorrect == Spec => []LineConsistent
<1> DEFINE Inv == RuntimeInv /\ (inorder => LineInv)
<1>1. Init => Inv
  BY RuntimeInit, LineInit
<1>2. Inv /\ [Next]_vars => Inv'
  <2> SUFFICES ASSUME Inv, [Next]_vars PROVE Inv'
    OBVIOUS
  <2>1. RuntimeInv'
    BY RuntimeNext
  <2>2. inorder' = inorder
    BY DEF Next, RtNext, PrintNext, Cycle, Store, PeriodBegin, PeriodEnd, CycleEnd,
           LineBegin, Load
  <2>3. inorder => LineInv'
    BY <2>1, LineNext
  <2> QED
    BY <2>1, <2>2, <2>3
<1>3. Inv => LineConsistent
  <2> SUFFICES ASSUME Inv, NEW t \in Tools, inorder, before[t] > 0,
                      \A f \in Fields : <<t, f>> \notin toread
               PROVE  /\ line[t].vmean[2] * line[t].vmin <= line[t].vmean[1]
                      /\ line[t].vmean[1] <= line[t].vmean[2] * line[t].vmax
                      /\ line[t].vrange <= line[t].vmax - line[t].vmin
    BY DEF LineConsistent
  <2>1. Seen(t).min = line[t].vmin /\ Seen(t).max = line[t].vmax
    BY DEF Seen, Fields
  <2>2. /\ Between(Seen(t).min, line[t].vmean, Seen(t).max)
        /\ line[t].vrange <= Seen(t).max - Seen(t).min
    BY DEF LineInv, SeenInv, Fields
  <2> QED
    BY <2>1, <2>2 DEF Between
<1> QED
  BY <1>1, <1>2, <1>3, PTL DEF Spec

-----------------------------------------------------------------------------
(* Sums.  The induction theorems of the library are about operators, which *)
(* the provers cannot instantiate; NatSet is induction for a set, and with *)
(* it the recursive function Sums is shown to satisfy its equation.        *)

\* A set that holds zero, and with each number the next, holds all.
LEMMA NatSet ==
    ASSUME NEW T, 0 \in T, \A n \in Nat : n \in T => n + 1 \in T
    PROVE  Nat \subseteq T
<1> DEFINE R == {ss \in Nat \X Nat : ss[1] < ss[2]}
           U == {n \in Nat : n \notin T}
<1>1. ASSUME U # {} PROVE FALSE
  <2>1. IsWellFoundedOn(R, Nat)
    BY NatLessThanWellFounded DEF OpToRel
  <2>2. U \subseteq Nat
    OBVIOUS
  <2> HIDE DEF R, U
  <2>3. PICK x \in U : \A y \in U : ~(<<y, x>> \in R)
    BY <1>1, <2>1, <2>2, WFMin
  <2> USE DEF R, U
  <2>4. x \in Nat /\ x # 0 /\ x - 1 \in Nat /\ x - 1 < x
    BY <2>3
  <2>5. x - 1 \notin U
    BY <2>3, <2>4
  <2> QED
    BY <2>3, <2>4, <2>5
<1> QED
  BY <1>1

\* h is the sum of the first values of s, up to n of them.
Partial(h, s, n) ==
    h = [i \in 0 .. n |-> IF i = 0 THEN 0 ELSE h[i - 1] + s[i]]

\* Two such sums agree.
LEMMA PartialUnique ==
    ASSUME NEW s, NEW n \in Nat, NEW m \in Nat, NEW h, NEW k, Partial(h, s, n), Partial(k, s, m)
    PROVE  \A i \in Nat : i <= n /\ i <= m => h[i] = k[i]
<1> DEFINE T == {i \in Nat : i <= n /\ i <= m => h[i] = k[i]}
<1>1. 0 \in T
  BY DEF Partial
<1>2. ASSUME NEW i \in Nat, i \in T PROVE i + 1 \in T
  <2>1. SUFFICES ASSUME i + 1 <= n, i + 1 <= m PROVE h[i + 1] = k[i + 1]
    OBVIOUS
  <2>2. h[i + 1] = h[i] + s[i + 1]
    BY <2>1 DEF Partial
  <2>3. k[i + 1] = k[i] + s[i + 1]
    BY <2>1 DEF Partial
  <2> QED
    BY <1>2, <2>1, <2>2, <2>3
<1> HIDE DEF T
<1>3. Nat \subseteq T
  BY <1>1, <1>2, NatSet
<1> QED
  BY <1>3 DEF T

\* There is one up to each number.
LEMMA PartialExists ==
    ASSUME NEW s
    PROVE  \A n \in Nat : \E h : Partial(h, s, n)
<1> DEFINE T == {n \in Nat : \E h : Partial(h, s, n)}
<1>1. 0 \in T
  <2>1. Partial([i \in 0 .. 0 |-> 0], s, 0)
    BY DEF Partial
  <2> QED
    BY <2>1
<1>2. ASSUME NEW n \in Nat, n \in T PROVE n + 1 \in T
  <2>1. PICK h : Partial(h, s, n)
    BY <1>2
  <2> DEFINE k == [i \in 0 .. n + 1 |-> IF i <= n THEN h[i] ELSE h[n] + s[n + 1]]
  <2>2. ASSUME NEW i \in 0 .. n + 1
        PROVE  k[i] = IF i = 0 THEN 0 ELSE k[i - 1] + s[i]
    <3>1. CASE i <= n
      BY <2>1, <3>1 DEF Partial
    <3>2. CASE i = n + 1
      BY <3>2
    <3> QED
      BY <3>1, <3>2
  <2>3. Partial(k, s, n + 1)
    BY <2>2 DEF Partial
  <2> QED
    BY <2>3
<1> HIDE DEF T
<1>3. Nat \subseteq T
  BY <1>1, <1>2, NatSet
<1> QED
  BY <1>3 DEF T

\* The equation that defines Sums has a solution.
LEMMA SumDef ==
    ASSUME NEW s
    PROVE  Sums(s) = [n \in Nat |-> IF n = 0 THEN 0 ELSE Sums(s)[n - 1] + s[n]]
<1> DEFINE h(n) == CHOOSE h : Partial(h, s, n)
           g == [n \in Nat |-> h(n)[n]]
<1>1. ASSUME NEW n \in Nat PROVE Partial(h(n), s, n)
  BY PartialExists
<1> HIDE DEF h
<1>2. ASSUME NEW n \in Nat PROVE g[n] = IF n = 0 THEN 0 ELSE g[n - 1] + s[n]
  <2>1. CASE n = 0
    BY <1>1, <2>1 DEF Partial
  <2>2. CASE n # 0
    <3>1. n - 1 \in Nat
      BY <2>2
    <3>2. Partial(h(n), s, n) /\ Partial(h(n - 1), s, n - 1)
      BY <1>1, <3>1
    <3>3. h(n)[n] = h(n)[n - 1] + s[n]
      BY <2>2, <3>2 DEF Partial
    <3>4. h(n)[n - 1] = h(n - 1)[n - 1]
      BY <3>1, <3>2, PartialUnique
    <3> QED
      BY <2>2, <3>1, <3>3, <3>4
  <2> QED
    BY <2>1, <2>2
<1>3. g = [n \in Nat |-> IF n = 0 THEN 0 ELSE g[n - 1] + s[n]]
  <2>1. g = [n \in Nat |-> g[n]]
    BY DEF g
  <2> HIDE DEF g
  <2> QED
    BY <1>2, <2>1
<1> HIDE DEF g
<1> DEFINE f == CHOOSE f : f = [n \in Nat |-> IF n = 0 THEN 0 ELSE f[n - 1] + s[n]]
<1>4. f = [n \in Nat |-> IF n = 0 THEN 0 ELSE f[n - 1] + s[n]]
  BY <1>3, Zenon
<1>5. Sums(s) = f
  BY DEF Sums
<1> QED
  BY <1>4, <1>5, Zenon

\* The sum of no value, and of one more.
LEMMA SumStep ==
    ASSUME NEW s, NEW n \in Nat
    PROVE  Sums(s)[0] = 0 /\ Sums(s)[n + 1] = Sums(s)[n] + s[n + 1]
<1> DEFINE f == Sums(s)
<1>1. f = [m \in Nat |-> IF m = 0 THEN 0 ELSE f[m - 1] + s[m]]
  BY SumDef
<1> HIDE DEF f
<1>2. f[0] = 0 /\ f[n + 1] = f[n + 1 - 1] + s[n + 1]
  BY <1>1
<1> QED
  BY <1>2 DEF f

-----------------------------------------------------------------------------
(* The deviation.                                                          *)

\* What the square sum says of n values with the given sum between lo and hi.
Spread(n, sum, sum2, lo, hi) ==
    /\ n * sum2 - sum * sum >= 0
    /\ n * sum2 - sum * sum = 0 <=> lo = hi
    /\ lo = hi => sum = n * lo /\ sum2 = n * (lo * lo)

\* Squares, and factors of products, are not negative.
LEMMA SquarePositive ==
    ASSUME NEW x \in Int
    PROVE  x * x >= 0 /\ (x * x = 0 => x = 0)
OBVIOUS

LEMMA ProductPositive ==
    ASSUME NEW n \in Int, NEW q \in Int, n > 0, n * q >= 0
    PROVE  q >= 0
<1>1. ASSUME q <= -1 PROVE FALSE
  <2>1. n * q <= n * (-1)
    BY <1>1
  <2> QED
    BY <2>1
<1> QED
  BY <1>1

\* One more value changes d, n times the sum of the squares less the square of the sum,
\* by q; and n times q is not less than d.
LEMMA Expand ==
    ASSUME NEW n \in Int, NEW sum \in Int, NEW sum2 \in Int, NEW v \in Int
    PROVE  LET d == n * sum2 - sum * sum
               q == sum2 + n * (v * v) - 2 * (sum * v)
           IN  /\ (n + 1) * (sum2 + v * v) - (sum + v) * (sum + v) = d + q
               /\ n * q = d + (sum - n * v) * (sum - n * v)
<1>1. (n + 1) * (sum2 + v * v) = n * sum2 + n * (v * v) + sum2 + v * v
  OBVIOUS
<1>2. (sum + v) * (sum + v) = sum * sum + 2 * (sum * v) + v * v
  OBVIOUS
<1>3. (sum - n * v) * (sum - n * v) = sum * sum - 2 * (sum * (n * v)) + (n * v) * (n * v)
  OBVIOUS
<1>4. n * (sum2 + n * (v * v) - 2 * (sum * v)) = n * sum2 + n * (n * (v * v)) - n * (2 * (sum * v))
  OBVIOUS
<1>5. n * (n * (v * v)) = (n * v) * (n * v) /\ n * (2 * (sum * v)) = 2 * (sum * (n * v))
  OBVIOUS
<1> QED
  BY <1>1, <1>2, <1>3, <1>4, <1>5

\* calc counts the value v in: the deviation stays zero if all values are equal.
LEMMA SpreadNext ==
    ASSUME NEW n \in Nat, NEW sum \in Nat, NEW sum2 \in Nat, NEW lo \in Nat, NEW hi \in Nat,
           NEW v \in Nat, n > 0, lo <= hi, Spread(n, sum, sum2, lo, hi)
    PROVE  Spread(n + 1, sum + v, sum2 + v * v, IF v < lo THEN v ELSE lo, IF v > hi THEN v ELSE hi)
<1> DEFINE lo2 == IF v < lo THEN v ELSE lo
           hi2 == IF v > hi THEN v ELSE hi
           d == n * sum2 - sum * sum
           q == sum2 + n * (v * v) - 2 * (sum * v)
           d2 == (n + 1) * (sum2 + v * v) - (sum + v) * (sum + v)
<1>1. d2 = d + q /\ n * q = d + (sum - n * v) * (sum - n * v)
  BY Expand
<1>2. d \in Int /\ q \in Int /\ d2 \in Int /\ sum - n * v \in Int
  OBVIOUS
<1>3. d >= 0 /\ (d = 0 <=> lo = hi) /\ (lo = hi => sum = n * lo /\ sum2 = n * (lo * lo))
  BY DEF Spread
<1>4. lo2 = hi2 <=> lo = hi /\ lo = v
  OBVIOUS
<1>5. ASSUME lo = hi PROVE q = n * ((lo - v) * (lo - v))
  <2>1. sum = n * lo /\ sum2 = n * (lo * lo)
    BY <1>3, <1>5
  <2>2. q = n * (lo * lo) + n * (v * v) - 2 * ((n * lo) * v)
    BY <2>1
  <2>3. n * ((lo - v) * (lo - v)) = n * (lo * lo) + n * (v * v) - 2 * ((n * lo) * v)
    OBVIOUS
  <2> QED
    BY <2>2, <2>3
<1> HIDE DEF d, q, d2
<1>6. q >= 0
  <2>1. n * q >= 0
    <3>1. (sum - n * v) * (sum - n * v) >= 0
      BY <1>2, SquarePositive
    <3>2. (sum - n * v) * (sum - n * v) \in Int
      OBVIOUS
    <3> QED
      BY <1>1, <1>2, <1>3, <3>1, <3>2
  <2> QED
    BY <1>2, <2>1, ProductPositive
<1>7. d2 >= 0
  BY <1>1, <1>2, <1>3, <1>6
<1>8. ASSUME lo = hi, lo = v PROVE d2 = 0 /\ sum + v = (n + 1) * v /\ sum2 + v * v = (n + 1) * (v * v)
  <2>1. q = n * 0
    BY <1>5, <1>8
  <2>2. d = 0 /\ d2 = 0
    BY <1>1, <1>3, <1>8, <2>1
  <2>3. (n + 1) * v = n * v + v /\ (n + 1) * (v * v) = n * (v * v) + v * v
    OBVIOUS
  <2> QED
    BY <1>3, <1>8, <2>2, <2>3
<1>9. ASSUME d2 = 0 PROVE lo = hi /\ lo = v
  <2>1. d = 0 /\ q = 0
    BY <1>1, <1>2, <1>3, <1>6, <1>9
  <2>2. lo = hi /\ n * ((lo - v) * (lo - v)) = 0
    BY <1>3, <1>5, <2>1
  <2>3. (lo - v) * (lo - v) = 0
    BY <2>2
  <2>4. lo - v = 0
    BY <2>3, SquarePositive
  <2> QED
    BY <2>2, <2>4
<1> QED
  <2>1. d2 = (n + 1) * (sum2 + v * v) - (sum + v) * (sum + v)
    BY DEF d2
  <2>2. lo2 = hi2 => lo2 = v
    BY <1>4
  <2> HIDE DEF lo2, hi2
  <2>3. /\ d2 >= 0 /\ (d2 = 0 <=> lo2 = hi2)
        /\ lo2 = hi2 => sum + v = (n + 1) * lo2 /\ sum2 + v * v = (n + 1) * (lo2 * lo2)
    BY <1>4, <1>7, <1>8, <1>9, <2>2
  <2>4. Spread(n + 1, sum + v, sum2 + v * v, lo2, hi2)
    BY <2>1, <2>3 DEF Spread
  <2> QED
    BY <2>4 DEF lo2, hi2

-----------------------------------------------------------------------------
(* The results of a number of values.                                      *)

\* A value that is appended leaves the sums of the values before as they were.
LEMMA SumAppend ==
    ASSUME NEW s \in Seq(Nat), NEW v \in Nat
    PROVE  \A n \in 0 .. Len(s) : Sums(Append(s, v))[n] = Sums(s)[n]
<1> DEFINE a == Append(s, v)
           T == {n \in Nat : n <= Len(s) => Sums(a)[n] = Sums(s)[n]}
<1>1. \A n \in 1 .. Len(s) : a[n] = s[n]
  OBVIOUS
<1> HIDE DEF a
<1>2. 0 \in T
  BY SumStep
<1>3. ASSUME NEW n \in Nat, n \in T PROVE n + 1 \in T
  <2>1. SUFFICES ASSUME n + 1 <= Len(s) PROVE Sums(a)[n + 1] = Sums(s)[n + 1]
    OBVIOUS
  <2>2. Sums(a)[n] = Sums(s)[n] /\ a[n + 1] = s[n + 1]
    BY <1>1, <1>3, <2>1
  <2> QED
    BY <2>2, SumStep
<1> HIDE DEF T
<1>4. Nat \subseteq T
  BY <1>2, <1>3, NatSet
<1> QED
  BY <1>4 DEF T, a

\* A value that is appended leaves the results of the values before as they were.
LEMMA ResultsAppend ==
    ASSUME NEW s \in Seq(Nat), NEW v \in Nat, NEW n \in 0 .. Len(s)
    PROVE  Results(Append(s, v), n) = Results(s, n)
<1>1. Sums(Append(s, v))[n] = Sums(s)[n]
  BY SumAppend
<1>2. Among(Append(s, v), n) = Among(s, n)
  <2>1. \A i \in 1 .. n : Append(s, v)[i] = s[i]
    OBVIOUS
  <2> QED
    BY <2>1 DEF Among
<1>3. CASE n = 0
  BY <1>3, Zenon DEF Results
<1>4. CASE n # 0
  <2> DEFINE Of(sum, values) ==
               [vmean |-> <<sum, n>>, vmax |-> Max(values), vmin |-> Min(values),
                vrange |-> Max(values) - Min(values),
                vstddev |-> IF \A x, y \in values : x = y THEN 0 ELSE n]
  <2>1. /\ Results(Append(s, v), n) = Of(Sums(Append(s, v))[n], Among(Append(s, v), n))
        /\ Results(s, n) = Of(Sums(s)[n], Among(s, n))
    BY <1>4, Zenon DEF Results
  <2> HIDE DEF Of
  <2> QED
    BY <1>1, <1>2, <2>1
<1> QED
  BY <1>3, <1>4

\* An element that is not exceeded is the one that Max and Min choose.
LEMMA ExtremaChosen ==
    ASSUME NEW S \in SUBSET Nat, NEW lo \in S, NEW hi \in S,
           \A x \in S : lo <= x /\ x <= hi
    PROVE  Max(S) = hi /\ Min(S) = lo
<1>1. Max(S) \in S /\ \A x \in S : Max(S) >= x
  <2>1. \E m \in S : \A x \in S : m >= x
    BY SMT
  <2> QED
    BY <2>1, Zenon DEF Max
<1>2. Min(S) \in S /\ \A x \in S : Min(S) =< x
  <2>1. \E m \in S : \A x \in S : m =< x
    BY SMT
  <2> QED
    BY <2>1, Zenon DEF Min
<1> HIDE DEF Max, Min
<1>3. Max(S) \in Nat /\ Min(S) \in Nat /\ lo \in Nat /\ hi \in Nat
  BY <1>1, <1>2
<1>4. Max(S) >= hi /\ hi >= Max(S) /\ Min(S) <= lo /\ lo <= Min(S)
  BY <1>1, <1>2
<1> QED
  BY <1>3, <1>4

\* r accounts for the first n values of s.
Account(r, s, n) ==
    /\ r.count = n /\ r.ic_sum = Sums(s)[n] /\ r.vmean = <<Sums(s)[n], n>>
    /\ n = 0 => r.ic_sum2 = 0 /\ r.vrange = 0 /\ r.vstddev = 0 /\ r.vmax = 0 /\ r.vmin = 0
    /\ n > 0 =>
          /\ r.vmax \in Among(s, n) /\ r.vmin \in Among(s, n)
          /\ \A x \in Among(s, n) : r.vmin <= x /\ x <= r.vmax
          /\ r.vrange = r.vmax - r.vmin
          /\ r.vstddev = IF r.vmin = r.vmax THEN 0 ELSE n
          /\ Spread(n, r.ic_sum, r.ic_sum2, r.vmin, r.vmax)

\* The first values of a sequence of natural numbers.
LEMMA AmongNat ==
    ASSUME NEW s \in Seq(Nat), NEW n \in 0 .. Len(s)
    PROVE  Among(s, n) \in SUBSET Nat
<1>1. \A i \in 1 .. n : s[i] \in Nat
  OBVIOUS
<1> QED
  BY <1>1 DEF Among

\* What accounts for some values gives their results.
LEMMA AccountResults ==
    ASSUME NEW s \in Seq(Nat), NEW n \in 0 .. Len(s), NEW r \in Stat, Account(r, s, n)
    PROVE  \A f \in Fields : r[f] = Results(s, n)[f]
<1>1. CASE n = 0
  <2>1. Results(s, n) = Reset /\ Sums(s)[n] = 0
    BY <1>1, SumStep DEF Results
  <2> QED
    BY <1>1, <2>1 DEF Account, Fields, Reset
<1>2. CASE n > 0
  <2> DEFINE values == Among(s, n)
             b == IF \A x, y \in values : x = y THEN 0 ELSE n
  <2>1. /\ r.vmax \in values /\ r.vmin \in values
        /\ \A x \in values : r.vmin <= x /\ x <= r.vmax
        /\ r.vrange = r.vmax - r.vmin
        /\ r.vstddev = IF r.vmin = r.vmax THEN 0 ELSE n
        /\ r.vmean = <<Sums(s)[n], n>>
    BY <1>2 DEF Account
  <2>2. values \in SUBSET Nat
    BY AmongNat
  <2>3. Max(values) = r.vmax /\ Min(values) = r.vmin
    BY <2>1, <2>2, ExtremaChosen
  <2>4. r.vstddev = b
    <3>1. CASE r.vmin = r.vmax
      <4>1. \A x, y \in values : x = y
        BY <2>1, <2>2, <3>1
      <4> QED
        BY <2>1, <3>1, <4>1
    <3>2. CASE r.vmin # r.vmax
      BY <2>1, <3>2
    <3> QED
      BY <3>1, <3>2
  <2>5. Results(s, n) =
          [vmean |-> <<Sums(s)[n], n>>, vmax |-> Max(values), vmin |-> Min(values),
           vrange |-> Max(values) - Min(values), vstddev |-> b]
    <3>1. n # 0
      BY <1>2
    <3> QED
      BY <3>1 DEF Results
  <2> HIDE DEF values, b
  <2> QED
    BY <2>1, <2>3, <2>4, <2>5 DEF Fields
<1> QED
  BY <1>1, <1>2

\* calc accounts for the next value.
LEMMA CalcAccount ==
    ASSUME NEW s \in Seq(Nat), NEW n \in Nat, n < Len(s), NEW r \in Stat, Account(r, s, n)
    PROVE  Account(Calc(r, s[n + 1]), s, n + 1)
<1> DEFINE v == s[n + 1]
           c == Calc(r, v)
<1>1. v \in Nat
  OBVIOUS
<1>2. Sums(s)[n + 1] = r.ic_sum + v /\ r.count = n /\ Sums(s)[0] = 0
  BY SumStep DEF Account
<1>3. /\ Among(s, n + 1) = Among(s, n) \cup {v} /\ Among(s, 0) = {}
      /\ Among(s, n) \in SUBSET Nat
  <2>1. 1 .. n + 1 = (1 .. n) \cup {n + 1} /\ 1 .. 0 = {}
    OBVIOUS
  <2>2. Among(s, n) \in SUBSET Nat
    BY AmongNat
  <2> QED
    BY <2>1, <2>2 DEF Among
<1>4. /\ r.ic_sum \in Nat /\ r.ic_sum2 \in Nat /\ r.vmax \in Nat /\ r.vmin \in Nat
  BY DEF Stat
<1>5. /\ c.vmax = IF n = 0 \/ v > r.vmax THEN v ELSE r.vmax
      /\ c.vmin = IF n = 0 \/ v < r.vmin THEN v ELSE r.vmin
      /\ c.vrange = c.vmax - c.vmin
      /\ c.count = n + 1 /\ c.ic_sum = r.ic_sum + v /\ c.ic_sum2 = r.ic_sum2 + v * v
      /\ c.vmean = <<r.ic_sum + v, n + 1>>
      /\ c.vstddev = IF n + 1 > 1 /\ (n + 1) * (r.ic_sum2 + v * v) - (r.ic_sum + v) * (r.ic_sum + v) > 0
                     THEN n + 1 ELSE 0
  BY <1>2 DEF Calc
<1> HIDE DEF v, c
<1>6. /\ c.vmax \in Among(s, n + 1) /\ c.vmin \in Among(s, n + 1)
      /\ \A x \in Among(s, n + 1) : c.vmin <= x /\ x <= c.vmax
  <2>1. CASE n = 0
    BY <1>1, <1>3, <1>5, <2>1
  <2>2. CASE n > 0
    <3>1. /\ r.vmax \in Among(s, n) /\ r.vmin \in Among(s, n)
          /\ \A x \in Among(s, n) : r.vmin <= x /\ x <= r.vmax
      BY <2>2 DEF Account
    <3>2. c.vmax \in {v, r.vmax} /\ c.vmin \in {v, r.vmin}
      BY <1>5
    <3>3. /\ c.vmin <= v /\ v <= c.vmax /\ c.vmin <= r.vmin /\ r.vmax <= c.vmax
          /\ c.vmin \in Nat /\ c.vmax \in Nat
      <4>1. /\ c.vmax = IF v > r.vmax THEN v ELSE r.vmax
            /\ c.vmin = IF v < r.vmin THEN v ELSE r.vmin
        BY <1>5, <2>2
      <4> QED
        BY <1>1, <1>4, <4>1
    <3>4. \A x \in Among(s, n) : c.vmin <= x /\ x <= c.vmax
      BY <1>3, <1>4, <3>1, <3>3
    <3> QED
      BY <1>3, <3>1, <3>2, <3>3, <3>4
  <2> QED
    BY <2>1, <2>2
<1>7. Spread(n + 1, c.ic_sum, c.ic_sum2, c.vmin, c.vmax)
  <2>1. CASE n = 0
    <3>1. r.ic_sum = 0 /\ r.ic_sum2 = 0
      BY <1>2, <2>1 DEF Account
    <3>2. c.ic_sum = v /\ c.ic_sum2 = v * v /\ c.vmin = v /\ c.vmax = v
      BY <1>1, <1>5, <2>1, <3>1
    <3>3. 1 * (v * v) - v * v = 0 /\ v = 1 * v /\ v * v = 1 * (v * v)
      BY <1>1
    <3> QED
      BY <2>1, <3>2, <3>3 DEF Spread
  <2>2. CASE n > 0
    <3>1. r.vmin <= r.vmax /\ Spread(n, r.ic_sum, r.ic_sum2, r.vmin, r.vmax)
      BY <2>2 DEF Account
    <3>2. Spread(n + 1, r.ic_sum + v, r.ic_sum2 + v * v, IF v < r.vmin THEN v ELSE r.vmin,
                 IF v > r.vmax THEN v ELSE r.vmax)
      BY <1>1, <1>4, <2>2, <3>1, SpreadNext
    <3>3. /\ c.vmax = IF v > r.vmax THEN v ELSE r.vmax
          /\ c.vmin = IF v < r.vmin THEN v ELSE r.vmin
      BY <1>5, <2>2
    <3> QED
      BY <1>5, <3>2, <3>3
  <2> QED
    BY <2>1, <2>2
<1>8. c.vstddev = IF c.vmin = c.vmax THEN 0 ELSE n + 1
  <2> DEFINE d == (n + 1) * (r.ic_sum2 + v * v) - (r.ic_sum + v) * (r.ic_sum + v)
  <2>1. d >= 0 /\ (d = 0 <=> c.vmin = c.vmax) /\ d \in Int
    <3>1. Spread(n + 1, r.ic_sum + v, r.ic_sum2 + v * v, c.vmin, c.vmax)
      BY <1>5, <1>7
    <3>2. d \in Int
      BY <1>1, <1>4
    <3> QED
      BY <3>1, <3>2, Zenon DEF Spread
  <2>2. c.vstddev = IF n + 1 > 1 /\ d > 0 THEN n + 1 ELSE 0
    BY <1>5
  <2> HIDE DEF d
  <2>3. n = 0 => c.vmin = c.vmax
    BY <1>1, <1>5
  <2> QED
    BY <2>1, <2>2, <2>3
<1>9. c.ic_sum = Sums(s)[n + 1] /\ c.vmean = <<Sums(s)[n + 1], n + 1>>
  BY <1>2, <1>5
<1> QED
  BY <1>5, <1>6, <1>7, <1>8, <1>9 DEF Account, v, c

\* A value that is appended leaves the account of the values before as it was.
LEMMA AccountAppend ==
    ASSUME NEW s \in Seq(Nat), NEW v \in Nat, NEW n \in 0 .. Len(s), NEW r, Account(r, s, n)
    PROVE  Account(r, Append(s, v), n)
<1>1. Sums(Append(s, v))[n] = Sums(s)[n]
  BY SumAppend
<1>2. Among(Append(s, v), n) = Among(s, n)
  <2>1. \A i \in 1 .. n : Append(s, v)[i] = s[i]
    OBVIOUS
  <2> QED
    BY <2>1 DEF Among
<1> QED
  BY <1>1, <1>2 DEF Account

-----------------------------------------------------------------------------
(* The results in every state, in any order of loads and stores.           *)

\* How many values a stattool has been given, without the one that calc works on.
Done(t) ==
    IF rt = "runtime" \/ (rt = "period" /\ t = "period")
    THEN Len(Values(t)) - 1 ELSE Len(Values(t))

\* The history, and how far the cycle is with it.
HistInv ==
    /\ runs \in Seq(Nat) /\ gaps \in Seq(Nat) /\ Len(runs) = Len(gaps)
    /\ rt = "wait" => m_count = cycles /\ (cycles > 0 => m_laststart = start_run)
    /\ rt # "wait" => m_count = cycles - 1
    /\ rt \in Tools => Len(runs) > 0
    /\ rt = "runtime" => start_run - m_laststart = gaps[Len(gaps)]

\* What a stattool accounts for, and each result while calc stores it.
StoredInv ==
    \A t \in Tools :
        /\ rt # t => Account(sbuf[t], Values(t), Done(t))
        /\ rt = t =>
              /\ "zero" \in todo => "vstddev" \in todo
              /\ Account(new, Values(t), Len(Values(t)))
              /\ \A f \in Fields :
                    sbuf[t][f] =
                        IF f \notin todo THEN new[f]
                        ELSE IF f = "vstddev" /\ "zero" \notin todo THEN 0
                        ELSE Results(Values(t), Done(t))[f]

\* What the line shows.
ShownInv ==
    /\ overlap \in [Tools -> BOOLEAN]
    /\ \A t \in Tools :
          /\ before[t] \in Nat /\ before[t] <= Done(t)
          /\ rt = t /\ "vstddev" \in todo /\ "zero" \notin todo => overlap[t]
    /\ LineCurrent

ResultsInv == RuntimeInv /\ HistInv /\ StoredInv /\ ShownInv

\* StoredInv in the next state.
LEMMA StoredNext ==
    ASSUME \A t \in Tools :
              /\ rt' # t => Account(sbuf'[t], Values(t)', Done(t)')
              /\ rt' = t =>
                    /\ "zero" \in todo' => "vstddev" \in todo'
                    /\ Account(new', Values(t)', Len(Values(t)'))
                    /\ \A f \in Fields :
                          sbuf'[t][f] =
                              IF f \notin todo' THEN new'[f]
                              ELSE IF f = "vstddev" /\ "zero" \notin todo' THEN 0
                              ELSE Results(Values(t)', Done(t)')[f]
    PROVE  StoredInv'
BY Zenon DEF StoredInv, Account, Sums, Among, Spread, Results, Reset

\* The results, and what they are of, stay as they are.
LEMMA StoredSame ==
    ASSUME StoredInv, UNCHANGED <<rt, todo, new, sbuf>>,
           \A t \in Tools : Values(t)' = Values(t) /\ Done(t)' = Done(t)
    PROVE  StoredInv'
<1>1. ASSUME NEW t \in Tools
      PROVE  /\ rt # t => Account(sbuf[t], Values(t), Done(t))
             /\ rt = t =>
                   /\ "zero" \in todo => "vstddev" \in todo
                   /\ Account(new, Values(t), Len(Values(t)))
                   /\ \A f \in Fields :
                         sbuf[t][f] =
                             IF f \notin todo THEN new[f]
                             ELSE IF f = "vstddev" /\ "zero" \notin todo THEN 0
                             ELSE Results(Values(t), Done(t))[f]
  BY Zenon DEF StoredInv
<1> QED
  BY <1>1, StoredNext

\* No results at first.
LEMMA ResultsInit == Init => ResultsInv
<1> SUFFICES ASSUME Init PROVE ResultsInv
  OBVIOUS
<1>1. RuntimeInv
  BY RuntimeInit
<1>2. /\ rt = "wait" /\ runs = <<>> /\ gaps = <<>> /\ m_count = 0 /\ cycles = 0
      /\ \A t \in Tools : sbuf[t] = Reset /\ line[t] = Reset /\ before[t] = 0
      /\ \A t \in Tools : overlap[t] = FALSE
  BY DEF Init
<1>3. HistInv
  BY <1>2 DEF HistInv, Tools
<1>4. \A t \in Tools : Values(t) = <<>> /\ Done(t) = 0 /\ Len(Values(t)) = 0
  BY <1>2 DEF Values, Done
<1>5. StoredInv
  <2>1. Account(Reset, <<>>, 0)
    BY SumStep DEF Account, Reset
  <2> QED
    BY <1>2, <1>4, <2>1 DEF StoredInv, Tools
<1>6. ShownInv
  <2>1. \A s : Results(s, 0) = Reset
    BY DEF Results
  <2>2. LineCurrent
    BY <1>2, <1>4, <2>1 DEF LineCurrent
  <2>3. overlap \in [Tools -> BOOLEAN]
    BY DEF Init
  <2> QED
    BY <1>2, <1>4, <2>2, <2>3 DEF ShownInv, Tools
<1> QED
  BY <1>1, <1>3, <1>5, <1>6 DEF ResultsInv

\* One store of calc into the stattool t: the result f, and no other.
LEMMA StoreFields ==
    ASSUME StatType, NEW t \in Tools, NEW f \in Fields \cup {"zero"}, Store(t, f)
    PROVE  \A g \in Fields :
              sbuf'[t][g] = IF g = f THEN new[g]
                            ELSE IF f = "zero" /\ g = "vstddev" THEN 0
                            ELSE sbuf[t][g]
<1>1. sbuf[t] \in Stat /\ sbuf \in [Tools -> Stat]
  BY DEF StatType
<1>2. DOMAIN sbuf[t] = Fields \cup {"count", "ic_sum", "ic_sum2"} /\ "zero" \notin Fields
  BY <1>1 DEF Stat, Fields
<1>3. CASE f = "zero"
  <2>1. sbuf'[t] = [sbuf[t] EXCEPT !.vstddev = 0]
    BY <1>1, <1>3 DEF Store
  <2> QED
    BY <1>2, <1>3, <2>1
<1>4. CASE f # "zero"
  <2>1. sbuf'[t] = [sbuf[t] EXCEPT ![f] = new[f]]
    BY <1>1, <1>4 DEF Store
  <2> QED
    BY <1>2, <1>4, <2>1
<1> QED
  BY <1>3, <1>4

\* One load of bashoutput: the result f of the stattool t, and no other.
LEMMA LoadFields ==
    ASSUME StatType, NEW t \in Tools, NEW f \in Fields, Load(t, f)
    PROVE  \A g \in Fields : line'[t][g] = IF g = f THEN sbuf[t][g] ELSE line[t][g]
<1>1. line[t] \in Stat /\ line \in [Tools -> Stat]
  BY DEF StatType
<1>2. DOMAIN line[t] = Fields \cup {"count", "ic_sum", "ic_sum2"}
  BY <1>1 DEF Stat, Fields
<1>3. line'[t] = [line[t] EXCEPT ![f] = sbuf[t][f]]
  BY <1>1 DEF Load
<1> QED
  BY <1>2, <1>3

\* When calc returns, what it has stored accounts for the values.
LEMMA ReturnedAccount ==
    ASSUME StatType, NEW t \in Tools, Returned(t), NEW s, NEW n, Account(new, s, n),
           \A g \in Fields : sbuf[t][g] = new[g]
    PROVE  Account(sbuf'[t], s, n) /\ \A u \in Tools : u # t => sbuf'[u] = sbuf[u]
<1>1. sbuf[t] \in Stat /\ sbuf \in [Tools -> Stat]
  BY DEF StatType
<1>2. /\ sbuf'[t].count = new.count /\ sbuf'[t].ic_sum = new.ic_sum
      /\ sbuf'[t].ic_sum2 = new.ic_sum2
      /\ sbuf'[t].vmean = sbuf[t].vmean /\ sbuf'[t].vmax = sbuf[t].vmax
      /\ sbuf'[t].vmin = sbuf[t].vmin /\ sbuf'[t].vrange = sbuf[t].vrange
      /\ sbuf'[t].vstddev = sbuf[t].vstddev
      /\ \A u \in Tools : u # t => sbuf'[u] = sbuf[u]
  BY <1>1 DEF Returned, Stat
<1>3. /\ sbuf[t].vmean = new.vmean /\ sbuf[t].vmax = new.vmax /\ sbuf[t].vmin = new.vmin
      /\ sbuf[t].vrange = new.vrange /\ sbuf[t].vstddev = new.vstddev
  BY DEF Fields
<1> QED
  BY <1>2, <1>3 DEF Account

\* What HistInv says of the values of one stattool.
LEMMA ValuesFacts ==
    ASSUME RuntimeInv, HistInv, NEW t \in Tools
    PROVE  /\ Values(t) \in Seq(Nat) /\ Len(Values(t)) = Len(runs) /\ Len(runs) \in Nat
           /\ Done(t) \in 0 .. Len(Values(t))
           /\ rt = t => Done(t) = Len(Values(t)) - 1
<1>1. runs \in Seq(Nat) /\ gaps \in Seq(Nat) /\ Len(runs) = Len(gaps)
  BY DEF HistInv
<1>2. Values(t) \in Seq(Nat) /\ Len(Values(t)) = Len(runs) /\ Len(runs) \in Nat
  BY <1>1 DEF Values
<1>3. rt \in Tools => Len(runs) > 0
  BY DEF HistInv
<1> QED
  BY <1>2, <1>3 DEF Done, Tools

\* The stores of calc.
LEMMA ResultsStore ==
    ASSUME ResultsInv, NEW t \in Tools, NEW f \in Fields \cup {"zero"}, Store(t, f)
    PROVE  HistInv' /\ StoredInv' /\ ShownInv'
<1> USE DEF ResultsInv
<1>1. /\ rt = t /\ f \in todo /\ todo' = todo \ {f} /\ (f = "vstddev" => "zero" \notin todo)
      /\ UNCHANGED <<rt, new, start_run, m_laststart, m_count, toread, line, before, runs, gaps,
                     cycles>>
      /\ overlap' = [overlap EXCEPT ![t] = @ \/ f = "zero"]
  BY DEF Store, MayStore
<1>2. /\ \A u \in Tools : u # t => sbuf'[u] = sbuf[u]
      /\ \A g \in Fields :
            sbuf'[t][g] = IF g = f THEN new[g]
                          ELSE IF f = "zero" /\ g = "vstddev" THEN 0 ELSE sbuf[t][g]
  BY StoreFacts, StoreFields DEF RuntimeInv
<1>3. \A u \in Tools : Values(u)' = Values(u) /\ Done(u)' = Done(u)
  BY <1>1 DEF Values, Done
<1>4. HistInv'
  BY <1>1 DEF HistInv
<1>5. StoredInv'
  <2> SUFFICES ASSUME NEW u \in Tools
               PROVE  /\ rt # u => Account(sbuf'[u], Values(u), Done(u))
                      /\ rt = u =>
                            /\ "zero" \in todo' => "vstddev" \in todo'
                            /\ Account(new, Values(u), Len(Values(u)))
                            /\ \A g \in Fields :
                                  sbuf'[u][g] =
                                      IF g \notin todo' THEN new[g]
                                      ELSE IF g = "vstddev" /\ "zero" \notin todo' THEN 0
                                      ELSE Results(Values(u), Done(u))[g]
    BY <1>1, <1>3, StoredNext
  <2>1. CASE rt # u
    BY <1>1, <1>2, <2>1 DEF StoredInv
  <2>2. CASE rt = u
    <3>1. Account(new, Values(u), Len(Values(u)))
      BY <2>2 DEF StoredInv
    <3>2. ASSUME NEW g \in Fields
          PROVE  sbuf'[u][g] = IF g \notin todo' THEN new[g]
                               ELSE IF g = "vstddev" /\ "zero" \notin todo' THEN 0
                               ELSE Results(Values(u), Done(u))[g]
      <4>1. sbuf[u][g] = IF g \notin todo THEN new[g]
                         ELSE IF g = "vstddev" /\ "zero" \notin todo THEN 0
                         ELSE Results(Values(u), Done(u))[g]
        BY <2>2 DEF StoredInv
      <4>2. g # "zero" /\ u = t
        BY <1>1, <2>2 DEF Fields
      <4>3. f = "zero" /\ g = "vstddev" => g \in todo
        BY <1>1, <2>2 DEF StoredInv
      <4> QED
        BY <1>1, <1>2, <4>1, <4>2, <4>3
    <3>3. "zero" \in todo' => "vstddev" \in todo'
      BY <1>1, <2>2 DEF StoredInv
    <3> QED
      BY <2>2, <3>1, <3>2, <3>3
  <2> QED
    BY <2>1, <2>2
<1>6. ShownInv'
  <2>1. /\ overlap' \in [Tools -> BOOLEAN]
        /\ \A u \in Tools : u # t => overlap'[u] = overlap[u]
        /\ overlap'[t] = (overlap[t] \/ f = "zero")
    BY <1>1, Zenon DEF ShownInv
  <2>2. LineCurrent'
    <3>1. \A u \in Tools : overlap[u] => overlap'[u]
      BY <2>1, Zenon
    <3> QED
      BY <1>1, <1>3, <3>1, Zenon DEF ShownInv, LineCurrent
  <2>3. \A u \in Tools : rt' = u /\ "vstddev" \in todo' /\ "zero" \notin todo' => overlap'[u]
    BY <1>1, <2>1 DEF ShownInv
  <2> QED
    BY <1>1, <1>3, <2>1, <2>2, <2>3 DEF ShownInv
<1> QED
  BY <1>4, <1>5, <1>6

\* LineCurrent in the next state.
LEMMA CurrentNext ==
    ASSUME \A t \in Tools : \A f \in Fields :
              <<t, f>> \notin toread' =>
                  \/ \E n \in before'[t] .. Len(Values(t)') :
                        line'[t][f] = Results(Values(t)', n)[f]
                  \/ f = "vstddev" /\ overlap'[t] /\ line'[t][f] = 0
    PROVE  LineCurrent'
BY Zenon DEF LineCurrent, Sums, Among, Results, Reset

\* A step that neither loads nor begins a line, and keeps the values that a stattool
\* has been given, or gives it one more.
LEMMA ShownNext ==
    ASSUME ResultsInv, UNCHANGED printer,
           \A t \in Tools :
              /\ Values(t)' = Values(t) \/ \E v \in Nat : Values(t)' = Append(Values(t), v)
              /\ Done(t)' >= Done(t) /\ Done(t)' \in Nat
              /\ ~(rt' = t /\ "vstddev" \in todo' /\ "zero" \notin todo')
    PROVE  ShownInv'
<1>1. UNCHANGED <<line, before, overlap, toread>>
  OBVIOUS
<1>2. LineCurrent'
  <2> SUFFICES ASSUME NEW t \in Tools, NEW f \in Fields, <<t, f>> \notin toread
               PROVE  \/ \E n \in before[t] .. Len(Values(t)') :
                            line[t][f] = Results(Values(t)', n)[f]
                      \/ f = "vstddev" /\ overlap[t] /\ line[t][f] = 0
    BY <1>1, CurrentNext
  <2>1. CASE f = "vstddev" /\ overlap[t] /\ line[t][f] = 0
    BY <2>1
  <2>2. ASSUME NEW n \in before[t] .. Len(Values(t)), line[t][f] = Results(Values(t), n)[f]
        PROVE  \E m \in before[t] .. Len(Values(t)') : line[t][f] = Results(Values(t)', m)[f]
    <3>1. CASE Values(t)' = Values(t)
      BY <2>2, <3>1
    <3>2. ASSUME NEW v \in Nat, Values(t)' = Append(Values(t), v)
          PROVE  \E m \in before[t] .. Len(Values(t)') : line[t][f] = Results(Values(t)', m)[f]
      <4>1. Values(t) \in Seq(Nat) /\ before[t] \in Nat
        BY ValuesFacts DEF ResultsInv, ShownInv
      <4>2. n \in 0 .. Len(Values(t)) /\ Len(Append(Values(t), v)) = Len(Values(t)) + 1
        BY <4>1
      <4>3. Results(Append(Values(t), v), n) = Results(Values(t), n)
        BY <4>1, <4>2, ResultsAppend
      <4>4. n \in before[t] .. Len(Values(t)')
        BY <3>2, <4>1, <4>2
      <4> QED
        BY <2>2, <3>2, <4>3, <4>4
    <3> QED
      BY <3>1, <3>2
  <2> QED
    BY <2>1, <2>2 DEF ResultsInv, ShownInv, LineCurrent
<1>3. \A t \in Tools : before[t] <= Done(t)' /\ before[t] \in Nat
  <2> SUFFICES ASSUME NEW t \in Tools PROVE before[t] <= Done(t)' /\ before[t] \in Nat
    OBVIOUS
  <2>1. before[t] \in Nat /\ before[t] <= Done(t) /\ Done(t) \in Nat
    BY ValuesFacts DEF ResultsInv, ShownInv
  <2>2. Done(t)' >= Done(t) /\ Done(t)' \in Nat
    OBVIOUS
  <2> QED
    BY <2>1, <2>2
<1>4. overlap' \in [Tools -> BOOLEAN]
  BY <1>1 DEF ResultsInv, ShownInv
<1> QED
  BY <1>1, <1>2, <1>3, <1>4, Zenon DEF ShownInv

\* A cycle begins, and appends a run time and a period to the history.
LEMMA ResultsCycle ==
    ASSUME ResultsInv, NEW p \in Nat, NEW r \in Nat, Cycle(p, r)
    PROVE  HistInv' /\ StoredInv' /\ ShownInv'
<1> USE DEF ResultsInv
<1>1. /\ rt = "wait" /\ cycles' = cycles + 1 /\ cycles \in Nat
      /\ UNCHANGED <<m_laststart, m_count, sbuf, toread, line, before, overlap>>
      /\ m_count = cycles /\ (cycles > 0 => m_laststart = start_run)
  BY DEF Cycle, HistInv, RuntimeInv, CountInv
<1>2. /\ runs \in Seq(Nat) /\ gaps \in Seq(Nat) /\ Len(runs) = Len(gaps) /\ start_run \in Nat
      /\ Len(runs) \in Nat
  BY DEF HistInv, RuntimeInv, StatType
<1>3. \A t \in Tools : Account(sbuf[t], Values(t), Len(Values(t))) /\ Done(t) = Len(Values(t))
  BY <1>1 DEF StoredInv, Done, Tools
<1>4. CASE cycles < 2
  <2>1. gaps' = gaps /\ runs' = runs /\ rt' = "end"
    BY <1>1, <1>4 DEF Cycle, Measured
  <2>2. \A t \in Tools : Values(t)' = Values(t) /\ Done(t)' = Done(t)
    BY <1>1, <2>1 DEF Values, Done
  <2>3. HistInv'
    BY <1>1, <1>2, <2>1 DEF HistInv, Tools
  <2>4. StoredInv'
    BY <1>1, <1>3, <2>1, <2>2, StoredNext DEF Tools
  <2>5. ShownInv'
    BY <1>1, <1>2, <1>3, <2>1, <2>2, ShownNext DEF Tools, Values
  <2> QED
    BY <2>3, <2>4, <2>5
<1>5. CASE ~(cycles < 2)
  <2>1. /\ gaps' = Append(gaps, p) /\ runs' = Append(runs, r) /\ rt' = "runtime"
        /\ new' = Calc(sbuf["runtime"], r) /\ todo' = Fields \cup {"zero"}
        /\ start_run' = start_run + p
    BY <1>1, <1>5 DEF Cycle, Measured, Begin
  <2>2. /\ runs' \in Seq(Nat) /\ gaps' \in Seq(Nat) /\ Len(runs') = Len(runs) + 1
        /\ Len(gaps') = Len(runs) + 1
        /\ gaps'[Len(gaps')] = p /\ runs'[Len(runs) + 1] = r
    BY <1>2, <2>1
  <2>3. HistInv'
    <3>1. start_run' - m_laststart' = p
      BY <1>1, <1>2, <1>5, <2>1
    <3> QED
      BY <1>1, <1>2, <2>1, <2>2, <3>1 DEF HistInv
  <2>4. ASSUME NEW t \in Tools
        PROVE  /\ \E v \in Nat : Values(t)' = Append(Values(t), v)
               /\ Values(t)' \in Seq(Nat) /\ Len(Values(t)') = Len(runs) + 1
               /\ Len(Values(t)) = Len(runs) /\ Done(t)' = Len(runs)
               /\ Account(sbuf[t], Values(t)', Len(runs))
    <3>1. PICK v \in Nat : Values(t)' = Append(Values(t), v)
      BY <2>1 DEF Values
    <3>2. /\ Values(t) \in Seq(Nat) /\ Len(Values(t)) = Len(runs)
          /\ Values(t)' \in Seq(Nat) /\ Len(Values(t)') = Len(runs) + 1
      BY <1>2, <2>2 DEF Values
    <3>3. Done(t)' = IF t = "period" THEN Len(runs) ELSE Len(runs)
      BY <1>2, <2>1, <3>2 DEF Done
    <3>4. Len(runs) \in 0 .. Len(Values(t)) /\ Account(sbuf[t], Values(t), Len(runs))
      BY <1>2, <1>3, <3>2
    <3>5. Account(sbuf[t], Append(Values(t), v), Len(runs))
      BY <3>2, <3>4, AccountAppend
    <3> QED
      BY <3>1, <3>2, <3>3, <3>5
  <2>5. StoredInv'
    <3>1. Account(new', runs', Len(runs'))
      <4>1. "runtime" \in Tools /\ Values("runtime")' = runs'
        BY DEF Tools, Values
      <4>2. Account(sbuf["runtime"], runs', Len(runs)) /\ sbuf["runtime"] \in Stat
        BY <2>4, <4>1 DEF RuntimeInv, StatType
      <4>3. Len(runs) < Len(runs')
        BY <1>2, <2>2
      <4>4. Account(Calc(sbuf["runtime"], runs'[Len(runs) + 1]), runs', Len(runs) + 1)
        BY <1>2, <2>2, <4>2, <4>3, CalcAccount
      <4> QED
        BY <2>1, <2>2, <4>4
    <3>2. ASSUME NEW t \in Tools, NEW f \in Fields
          PROVE  sbuf[t][f] = Results(Values(t)', Done(t)')[f]
      <4>1. /\ Values(t)' \in Seq(Nat) /\ Len(runs) \in 0 .. Len(Values(t)')
            /\ Account(sbuf[t], Values(t)', Len(runs)) /\ sbuf[t] \in Stat
            /\ Done(t)' = Len(runs)
        BY <1>2, <2>4 DEF RuntimeInv, StatType
      <4> QED
        BY <4>1, AccountResults
    <3>3. Values("runtime")' = runs' /\ "vstddev" \in todo' /\ "zero" \in todo'
      BY <2>1 DEF Values, Fields
    <3> QED
      BY <1>1, <2>1, <2>4, <3>1, <3>2, <3>3, StoredNext
  <2>6. ShownInv'
    <3>1. \A t \in Tools : Done(t)' >= Done(t) /\ Done(t)' \in Nat
      BY <1>2, <1>3, <2>4
    <3>2. UNCHANGED printer
      BY <1>1
    <3> QED
      BY <2>1, <2>4, <3>1, <3>2, ShownNext
  <2> QED
    BY <2>3, <2>5, <2>6
<1> QED
  BY <1>4, <1>5

\* calc returns from the run time, and begins with the period.
LEMMA ResultsPeriodBegin ==
    ASSUME ResultsInv, PeriodBegin
    PROVE  HistInv' /\ StoredInv' /\ ShownInv'
<1> USE DEF ResultsInv
<1>1. /\ rt = "runtime" /\ todo = {} /\ Returned("runtime") /\ rt' = "period"
      /\ new' = Calc(sbuf["period"], start_run - m_laststart)
      /\ todo' = Fields \cup {"zero"}
      /\ UNCHANGED <<start_run, m_laststart, m_count, cycles, runs, gaps>>
      /\ UNCHANGED printer
  BY DEF PeriodBegin, Begin
<1>2. "runtime" \in Tools /\ "period" \in Tools /\ \A t \in Tools : t = "runtime" \/ t = "period"
  BY DEF Tools
<1>3. /\ gaps \in Seq(Nat) /\ Len(gaps) \in Nat /\ Len(gaps) > 0 /\ Len(runs) = Len(gaps)
      /\ start_run - m_laststart = gaps[Len(gaps)]
  BY <1>1, <1>2 DEF HistInv
<1>4. /\ \A t \in Tools : Values(t)' = Values(t)
      /\ Values("runtime") = runs /\ Values("period") = gaps
      /\ Done("runtime") = Len(runs) - 1 /\ Done("period") = Len(gaps) - 1
      /\ Done("runtime")' = Len(runs) /\ Done("period")' = Len(gaps) - 1
  BY <1>1 DEF Values, Done
<1>5. Account(sbuf'["runtime"], runs, Len(runs)) /\ sbuf'["period"] = sbuf["period"]
  <2>1. Account(new, runs, Len(runs)) /\ \A g \in Fields : sbuf["runtime"][g] = new[g]
    BY <1>1, <1>2, <1>4 DEF StoredInv
  <2> QED
    BY <1>1, <1>2, <2>1, ReturnedAccount DEF RuntimeInv
<1>6. Account(sbuf["period"], gaps, Len(gaps) - 1) /\ sbuf["period"] \in Stat
  <2>1. rt # "period"
    BY <1>1
  <2> QED
    BY <1>2, <1>4, <2>1 DEF StoredInv, RuntimeInv, StatType
<1>7. HistInv'
  BY <1>1, <1>2, <1>3 DEF HistInv
<1>8. StoredInv'
  <2>1. Account(new', gaps, Len(gaps))
    <3> DEFINE n == Len(gaps) - 1
    <3>1. n \in Nat /\ n < Len(gaps) /\ n + 1 = Len(gaps)
      BY <1>3
    <3> HIDE DEF n
    <3>2. Account(sbuf["period"], gaps, n)
      BY <1>6 DEF n
    <3>3. Account(Calc(sbuf["period"], gaps[n + 1]), gaps, n + 1)
      BY <1>3, <1>6, <3>1, <3>2, CalcAccount
    <3> QED
      BY <1>1, <1>3, <3>1, <3>3
  <2>2. \A f \in Fields : sbuf["period"][f] = Results(gaps, Len(gaps) - 1)[f]
    <3>1. Len(gaps) - 1 \in 0 .. Len(gaps)
      BY <1>3
    <3> QED
      BY <1>3, <1>6, <3>1, AccountResults
  <2>3. "vstddev" \in todo' /\ "zero" \in todo'
    BY <1>1 DEF Fields
  <2> QED
    BY <1>1, <1>2, <1>4, <1>5, <2>1, <2>2, <2>3, StoredNext
<1>9. ShownInv'
  <2>1. \A t \in Tools : Done(t)' >= Done(t) /\ Done(t)' \in Nat
    BY <1>2, <1>3, <1>4
  <2>2. "zero" \in todo'
    BY <1>1
  <2> QED
    BY <1>1, <1>4, <2>1, <2>2, ShownNext
<1> QED
  BY <1>7, <1>8, <1>9

\* calc returns from the period.
LEMMA ResultsPeriodEnd ==
    ASSUME ResultsInv, PeriodEnd
    PROVE  HistInv' /\ StoredInv' /\ ShownInv'
<1> USE DEF ResultsInv
<1>1. /\ rt = "period" /\ todo = {} /\ Returned("period") /\ rt' = "end"
      /\ UNCHANGED <<todo, new, start_run, m_laststart, m_count, cycles, runs, gaps>>
      /\ UNCHANGED printer
  BY DEF PeriodEnd
<1>2. "runtime" \in Tools /\ "period" \in Tools /\ \A t \in Tools : t = "runtime" \/ t = "period"
  BY DEF Tools
<1>3. Len(gaps) \in Nat /\ Len(runs) = Len(gaps)
  BY DEF HistInv
<1>4. /\ \A t \in Tools : Values(t)' = Values(t)
      /\ Values("runtime") = runs /\ Values("period") = gaps
      /\ Done("runtime") = Len(runs) /\ Done("period") = Len(gaps) - 1
      /\ Done("runtime")' = Len(runs) /\ Done("period")' = Len(gaps)
  BY <1>1 DEF Values, Done
<1>5. Account(sbuf'["period"], gaps, Len(gaps)) /\ sbuf'["runtime"] = sbuf["runtime"]
  <2>1. Account(new, gaps, Len(gaps)) /\ \A g \in Fields : sbuf["period"][g] = new[g]
    BY <1>1, <1>2, <1>4 DEF StoredInv
  <2> QED
    BY <1>1, <1>2, <2>1, ReturnedAccount DEF RuntimeInv
<1>6. Account(sbuf["runtime"], runs, Len(runs))
  <2>1. rt # "runtime"
    BY <1>1
  <2> QED
    BY <1>2, <1>4, <2>1 DEF StoredInv
<1>7. HistInv'
  BY <1>1, <1>2 DEF HistInv
<1>8. StoredInv'
  <2>1. \A t \in Tools : rt' # t /\ Account(sbuf'[t], Values(t)', Done(t)')
    BY <1>1, <1>2, <1>4, <1>5, <1>6
  <2> QED
    BY <2>1, StoredNext
<1>9. ShownInv'
  <2>1. \A t \in Tools : Done(t)' >= Done(t) /\ Done(t)' \in Nat /\ rt' # t
    BY <1>1, <1>2, <1>3, <1>4
  <2> QED
    BY <1>1, <1>4, <2>1, ShownNext
<1> QED
  BY <1>7, <1>8, <1>9

\* The cycle ends, and the thread waits.
LEMMA ResultsCycleEnd ==
    ASSUME ResultsInv, CycleEnd
    PROVE  HistInv' /\ StoredInv' /\ ShownInv'
<1> USE DEF ResultsInv
<1>1. /\ rt = "end" /\ rt' = "wait" /\ m_count' = m_count + 1 /\ m_laststart' = start_run
      /\ UNCHANGED <<todo, new, start_run, cycles, sbuf, runs, gaps>> /\ UNCHANGED printer
  BY DEF CycleEnd
<1>2. \A t \in Tools : /\ Values(t)' = Values(t) /\ Done(t)' = Done(t)
                       /\ rt # t /\ rt' # t /\ Done(t) \in Nat
  BY <1>1, ValuesFacts DEF Values, Done, Tools
<1>3. HistInv'
  BY <1>1 DEF HistInv, Tools, RuntimeInv, CountInv
<1>4. StoredInv'
  <2>1. \A t \in Tools : Account(sbuf[t], Values(t), Done(t))
    BY <1>2 DEF StoredInv
  <2> QED
    BY <1>1, <1>2, <2>1, StoredNext
<1>5. ShownInv'
  <2>1. \A t \in Tools : Done(t)' >= Done(t) /\ Done(t)' \in Nat
    BY <1>2
  <2> QED
    BY <1>1, <1>2, <2>1, ShownNext
<1> QED
  BY <1>3, <1>4, <1>5

\* A line is begun: nothing of it has been loaded.
LEMMA ResultsLineBegin ==
    ASSUME ResultsInv, LineBegin
    PROVE  HistInv' /\ StoredInv' /\ ShownInv'
<1> USE DEF ResultsInv
<1>1. /\ toread' = Loads /\ before' = [t \in Tools |-> sbuf[t].count]
      /\ overlap' = [t \in Tools |-> rt = t /\ "vstddev" \in todo /\ "zero" \notin todo]
      /\ UNCHANGED <<rt, todo, new, start_run, m_laststart, m_count, cycles, sbuf, runs, gaps>>
  BY DEF LineBegin
<1>2. \A t \in Tools : Values(t)' = Values(t) /\ Done(t)' = Done(t)
  BY <1>1 DEF Values, Done
<1>3. HistInv'
  BY <1>1 DEF HistInv
<1>4. StoredInv'
  BY <1>1, <1>2, StoredSame
<1>5. ShownInv'
  <2>1. LineCurrent'
    <3>1. \A t \in Tools, f \in Fields : <<t, f>> \in toread'
      BY <1>1 DEF Loads
    <3> QED
      BY <3>1, CurrentNext
  <2>2. ASSUME NEW t \in Tools PROVE before'[t] \in Nat /\ before'[t] <= Done(t)
    <3>1. before'[t] = sbuf[t].count
      BY <1>1
    <3>2. Done(t) \in Nat
      BY ValuesFacts
    <3>3. CASE rt # t
      <4>1. sbuf[t].count = Done(t)
        BY <3>3 DEF StoredInv, Account
      <4> QED
        BY <3>1, <3>2, <4>1
    <3>4. CASE rt = t
      <4>1. new.count = Len(Values(t)) /\ Done(t) = Len(Values(t)) - 1
        BY <3>4, ValuesFacts DEF StoredInv, Account
      <4>2. new.count = sbuf[t].count + 1 /\ sbuf[t].count \in Nat
        BY <3>4 DEF RuntimeInv, CountInv, StatType, Stat
      <4> QED
        BY <3>1, <3>2, <4>1, <4>2
    <3> QED
      BY <3>3, <3>4
  <2>3. overlap' \in [Tools -> BOOLEAN]
    BY <1>1, Zenon
  <2>4. \A t \in Tools :
            rt' = t /\ "vstddev" \in todo' /\ "zero" \notin todo' => overlap'[t]
    BY <1>1, Zenon
  <2> QED
    BY <1>2, <2>1, <2>2, <2>3, <2>4, Zenon DEF ShownInv
<1> QED
  BY <1>3, <1>4, <1>5

\* One load of bashoutput: the result is that of the values that calc has counted in,
\* or of one more, or the zero that it stores first.
LEMMA ResultsLoad ==
    ASSUME ResultsInv, NEW t \in Tools, NEW f \in Fields, Load(t, f)
    PROVE  HistInv' /\ StoredInv' /\ ShownInv'
<1> USE DEF ResultsInv
<1>1. /\ <<t, f>> \in toread /\ toread' = toread \ {<<t, f>>}
      /\ UNCHANGED <<rt, todo, new, start_run, m_laststart, m_count, cycles, sbuf, runs, gaps,
                     before, overlap>>
  BY DEF Load, MayLoad
<1>2. /\ \A u \in Tools : u # t => line'[u] = line[u]
      /\ \A g \in Fields : line'[t][g] = IF g = f THEN sbuf[t][g] ELSE line[t][g]
  BY LoadFacts, LoadFields DEF RuntimeInv
<1>3. \A u \in Tools : Values(u)' = Values(u) /\ Done(u)' = Done(u)
  BY <1>1 DEF Values, Done
<1>4. HistInv'
  BY <1>1 DEF HistInv
<1>5. StoredInv'
  BY <1>1, <1>3, StoredSame
<1>6. \/ \E n \in before[t] .. Len(Values(t)) : sbuf[t][f] = Results(Values(t), n)[f]
      \/ f = "vstddev" /\ overlap[t] /\ sbuf[t][f] = 0
  <2>1. /\ Values(t) \in Seq(Nat) /\ Len(Values(t)) \in Nat /\ Done(t) \in 0 .. Len(Values(t))
        /\ before[t] \in Nat /\ before[t] <= Done(t)
    BY ValuesFacts DEF ShownInv
  <2>2. Done(t) \in before[t] .. Len(Values(t)) /\ Len(Values(t)) \in before[t] .. Len(Values(t))
    BY <2>1
  <2>3. CASE rt # t
    <3>1. Account(sbuf[t], Values(t), Done(t)) /\ sbuf[t] \in Stat
      BY <2>3 DEF StoredInv, RuntimeInv, StatType
    <3> QED
      BY <2>1, <2>2, <3>1, AccountResults
  <2>4. CASE rt = t
    <3>1. sbuf[t][f] = IF f \notin todo THEN new[f]
                       ELSE IF f = "vstddev" /\ "zero" \notin todo THEN 0
                       ELSE Results(Values(t), Done(t))[f]
      BY <2>4 DEF StoredInv
    <3>2. CASE f \notin todo
      <4>1. Account(new, Values(t), Len(Values(t))) /\ new \in Stat
        BY <2>4 DEF StoredInv, RuntimeInv, StatType
      <4>2. Len(Values(t)) \in 0 .. Len(Values(t))
        BY <2>1
      <4>3. new[f] = Results(Values(t), Len(Values(t)))[f]
        BY <2>1, <4>1, <4>2, AccountResults
      <4> QED
        BY <2>2, <3>1, <3>2, <4>3
    <3>3. CASE f = "vstddev" /\ f \in todo /\ "zero" \notin todo
      <4>1. overlap[t]
        BY <2>4, <3>3 DEF ShownInv
      <4> QED
        BY <3>1, <3>3, <4>1
    <3>4. CASE f \in todo /\ ~(f = "vstddev" /\ "zero" \notin todo)
      BY <2>2, <3>1, <3>4
    <3> QED
      BY <3>2, <3>3, <3>4
  <2> QED
    BY <2>3, <2>4
<1>7. LineCurrent'
  <2> SUFFICES ASSUME NEW u \in Tools, NEW g \in Fields, <<u, g>> \notin toread'
               PROVE  \/ \E n \in before[u] .. Len(Values(u)) :
                            line'[u][g] = Results(Values(u), n)[g]
                      \/ g = "vstddev" /\ overlap[u] /\ line'[u][g] = 0
    BY <1>1, <1>3, CurrentNext
  <2>1. CASE u = t /\ g = f
    <3>1. line'[u][g] = sbuf[t][f]
      BY <1>2, <2>1
    <3> QED
      BY <1>6, <2>1, <3>1
  <2>2. CASE ~(u = t /\ g = f)
    <3>1. line'[u][g] = line[u][g]
      BY <1>2, <2>2
    <3>2. <<u, g>> \notin toread
      BY <1>1, <2>2
    <3> QED
      BY <3>1, <3>2 DEF ShownInv, LineCurrent
  <2> QED
    BY <2>1, <2>2
<1>8. ShownInv'
  BY <1>1, <1>3, <1>7, Zenon DEF ShownInv
<1> QED
  BY <1>4, <1>5, <1>8

\* Each step keeps the results.
LEMMA ResultsNext ==
    ASSUME ResultsInv, [Next]_vars
    PROVE  ResultsInv'
<1>1. RuntimeInv'
  BY RuntimeNext DEF ResultsInv
<1>2. HistInv' /\ StoredInv' /\ ShownInv'
  <2>1. CASE UNCHANGED vars
    <3>1. /\ \A t \in Tools : Values(t)' = Values(t) /\ Done(t)' = Done(t)
          /\ UNCHANGED <<rt, todo, new, sbuf, toread, line, before, overlap>>
      BY <2>1 DEF Values, Done
    <3>2. HistInv'
      BY <2>1 DEF HistInv, ResultsInv
    <3>3. StoredInv'
      BY <3>1, StoredSame DEF ResultsInv
    <3>4. LineCurrent'
      <4>1. ASSUME NEW u \in Tools, NEW g \in Fields, <<u, g>> \notin toread
            PROVE  \/ \E n \in before[u] .. Len(Values(u)) :
                         line[u][g] = Results(Values(u), n)[g]
                   \/ g = "vstddev" /\ overlap[u] /\ line[u][g] = 0
        BY <4>1 DEF ShownInv, LineCurrent, ResultsInv
      <4> QED
        BY <3>1, <4>1, CurrentNext
    <3>5. ShownInv'
      BY <3>1, <3>4, Zenon DEF ShownInv, ResultsInv
    <3> QED
      BY <3>2, <3>3, <3>5
  <2>2. CASE \E p, r \in Nat : Cycle(p, r)
    BY <2>2, ResultsCycle
  <2>3. CASE \E t \in Tools, f \in Fields \cup {"zero"} : Store(t, f)
    BY <2>3, ResultsStore
  <2>4. CASE PeriodBegin
    BY <2>4, ResultsPeriodBegin
  <2>5. CASE PeriodEnd
    BY <2>5, ResultsPeriodEnd
  <2>6. CASE CycleEnd
    BY <2>6, ResultsCycleEnd
  <2>7. CASE LineBegin
    BY <2>7, ResultsLineBegin
  <2>8. CASE \E t \in Tools, f \in Fields : Load(t, f)
    BY <2>8, ResultsLoad
  <2> QED
    BY <2>1, <2>2, <2>3, <2>4, <2>5, <2>6, <2>7, <2>8, NextCases
<1> QED
  BY <1>1, <1>2 DEF ResultsInv

\* The results in every state.
LEMMA ResultsInvariant == Spec => []ResultsInv
<1>1. ResultsInv /\ [Next]_vars => ResultsInv'
  BY ResultsNext
<1> QED
  BY <1>1, ResultsInit, PTL DEF Spec

\* Between two cycles, mean, range, deviation and extrema that calc has accumulated one
\* value at a time are those of all periods and run times after the first two cycles:
\* calc loses no value, counts none twice, and a deviation is zero for equal values only.
THEOREM ResultsCorrect == Spec => []StatisticsCorrect
<1>1. ASSUME ResultsInv PROVE StatisticsCorrect
  <2> SUFFICES ASSUME rt = "wait", NEW t \in Tools
               PROVE  \A f \in Fields :
                         sbuf[t][f] = Results(Values(t), Len(Values(t)))[f]
    BY DEF StatisticsCorrect
  <2>1. rt # t /\ Done(t) = Len(Values(t))
    BY DEF Done, Tools
  <2>2. Account(sbuf[t], Values(t), Len(Values(t))) /\ sbuf[t] \in Stat
    BY <1>1, <2>1 DEF ResultsInv, StoredInv, RuntimeInv, StatType
  <2>3. Values(t) \in Seq(Nat) /\ Len(Values(t)) \in 0 .. Len(Values(t))
    BY <1>1, ValuesFacts DEF ResultsInv
  <2> QED
    BY <2>2, <2>3, AccountResults
<1> QED
  BY <1>1, ResultsInvariant, PTL

\* What bashoutput prints without a lock, whatever order compiler and processor give to
\* its loads and the stores of calc: each result is that of a number of values which the
\* stattool had since the line was begun, or a deviation read while calc updates it.
THEOREM LineCurrentCorrect == Spec => []LineCurrent
<1>1. ResultsInv => LineCurrent
  BY DEF ResultsInv, ShownInv
<1> QED
  BY <1>1, ResultsInvariant, PTL
=============================================================================
