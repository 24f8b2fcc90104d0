--------------------------- MODULE RtThreadProofs ----------------------------
(* Proofs of the invariants of RtThread, for any number of calls.          *)
EXTENDS RtThread, TLAPS

(* What the life cycle keeps, beyond its types.                            *)

\* Nobody has let the thread go: it is before the virtual call.
Held ==
    /\ m_startmutex \in {"none", "locked"} /\ ran = "none"
    /\ th \notin {"exec", "limits", "raise", "affinity", "execute"}

\* A thread that nobody has resumed is held.
HoldInv == ~m_crrunning /\ ~resumed => Held

\* Until the CPU is known, the owner is in the base constructor, and the start
\* mutex is locked.
CpuInv ==
    ~m_rcpu => Held /\ owner \in {"construct", "create", "assign", "crashed"}

\* The thread exists only between its creation and its join, and memory is freed
\* last.
LifeInv ==
    /\ ~m_thread => th \in {"none", "ended"}
    /\ owner \in {"free", "gone"} => th \in {"none", "ended"}
    /\ imp_buf = "freed" => owner = "gone"
    /\ owner \in {"construct", "create"} => th = "none" /\ ran = "none"

\* thread forgets the handle when it joins.
JoinInv ==
    /\ owner \in {"construct", "create"} => ~joined
    /\ class = "thread" =>
          ~ub /\ (joined => ~m_thread) /\ (Joining => m_thread)

\* Where the thread is when it has no priority of its own yet, and why.
PrioInv ==
    class = "rtthread" =>
        /\ th = "raise" => m_priority <= rlim_max
        /\ th \in {"affinity", "execute"} \/ ran # "none" =>
              fifo \/ rlim_max < m_priority \/ disturbed

\* From the moment it can be let go, a held thread finds the derived class.
VptrInv ==
    /\ ~m_crrunning /\ owner \in {"idle", "terminate", "tjoin"} => vptr = "derived"
    /\ resumed => owner \in {"idle", "terminate", "tjoin", "destroy", "djoin", "free", "gone"}

IInv == TypeOK /\ HoldInv /\ CpuInv /\ LifeInv /\ JoinInv /\ PrioInv /\ VptrInv

LEMMA InitIInv == Init => IInv
<1> SUFFICES ASSUME Init PROVE IInv
  OBVIOUS
<1>1. TypeOK
  <2>1. calls \in 0 .. MaxCalls
    BY MaxCallsAssumption DEF Init
  <2>2. class \in {"thread", "rtthread"}
    BY ClassesAssumption DEF Init
  <2>3. rlim_cur \in Nat /\ rlim_max \in Nat /\ others \in 0 .. MaxOthers
    BY LimitsAssumption, SMT DEF Init
  <2> QED
    BY <2>1, <2>2, <2>3, Zenon DEF Init, TypeOK
<1>2. HoldInv /\ CpuInv
  BY DEF Init, HoldInv, CpuInv, Held
<1>3. LifeInv
  BY DEF Init, LifeInv
<1>4. JoinInv
  BY DEF Init, JoinInv, Joining
<1>5. PrioInv /\ VptrInv
  BY DEF Init, PrioInv, VptrInv
<1> QED
  BY <1>1, <1>2, <1>3, <1>4, <1>5 DEF IInv

\* The two halves of TypeOK: the Boolean variables, and the others.
Flags ==
    /\ m_crrunning \in BOOLEAN /\ m_rcpu \in BOOLEAN /\ m_activ \in BOOLEAN
    /\ m_thread \in BOOLEAN /\ fifo \in BOOLEAN /\ disturbed \in BOOLEAN
    /\ cancelled \in BOOLEAN /\ joined \in BOOLEAN /\ ub \in BOOLEAN /\ resumed \in BOOLEAN

Ranges ==
    /\ class \in {"thread", "rtthread"}
    /\ owner \in {"construct", "create", "assign", "unlock", "derived", "idle", "terminate",
                  "tjoin", "destroy", "djoin", "free", "gone", "crashed"}
    /\ calls \in 0 .. MaxCalls /\ vptr \in {"base", "derived"}
    /\ m_startmutex \in {"none", "locked", "free", "destroyed"}
    /\ imp_buf \in {"none", "allocated", "freed"}
    /\ th \in {"none", "born", "lock", "exec", "limits", "raise", "affinity", "execute",
               "ended"}
    /\ rlim_cur \in Nat /\ rlim_max \in Nat /\ others \in 0 .. MaxOthers
    /\ ran \in {"none", "base", "derived"}

LEMMA TypeSplit == TypeOK <=> Flags /\ Ranges
  BY Zenon DEF TypeOK, Flags, Ranges

LEMMA FlagsStep == Flags /\ [Next]_vars => Flags'
<1> SUFFICES ASSUME Flags, [Next]_vars PROVE Flags'
  OBVIOUS
<1> USE DEF Flags, object, sched, thread, posix
<1>1. CASE StartCancelType
  BY <1>1, Zenon DEF StartCancelType
<1>2. CASE StartLock
  BY <1>2, Zenon DEF StartLock
<1>3. CASE Cancel
  BY <1>3, Zenon DEF Cancel
<1>4. CASE StartReturn
  BY <1>4, Zenon DEF StartReturn
<1>5. CASE ExecNotRt
  BY <1>5, Zenon DEF ExecNotRt, ExecFrame
<1>6. CASE RaiseSet
  BY <1>6, Zenon DEF RaiseSet, ExecFrame
<1>7. CASE CallExecute
  BY <1>7, Zenon DEF CallExecute, ExecFrame
<1>8. CASE RaiseSetFails
  BY <1>8, Zenon DEF RaiseSetFails, ExecFrame
<1>9. CASE SetScheduler
  <2>1. fifo' \in BOOLEAN
    BY <1>9 DEF SetScheduler
  <2> QED
    BY <1>9, <2>1, Zenon DEF SetScheduler, ExecFrame
<1>10. CASE RaiseLook
  <2>1. disturbed' \in BOOLEAN
    BY <1>10 DEF RaiseLook
  <2> QED
    BY <1>10, <2>1, Zenon DEF RaiseLook, ExecFrame
<1>11. CASE ConstructBase
  <2>1. m_rcpu' \in BOOLEAN
    BY <1>11 DEF ConstructBase
  <2> QED
    BY <1>11, <2>1, Zenon DEF ConstructBase
<1>12. CASE ConstructCreate
  BY <1>12, Zenon DEF ConstructCreate
<1>13. CASE ConstructCreateFails
  BY <1>13, Zenon DEF ConstructCreateFails
<1>14. CASE ConstructFinish
  <2>1. m_rcpu' \in BOOLEAN
    BY <1>14 DEF ConstructFinish
  <2>2. UNCHANGED <<m_crrunning, m_activ, m_thread, fifo, disturbed, cancelled, joined, ub,
                    resumed>>
    BY <1>14, Zenon DEF ConstructFinish
  <2> QED
    BY <2>1, <2>2, Zenon
<1>15. CASE ConstructDerived
  BY <1>15, Zenon DEF ConstructDerived
<1>16. CASE TerminateNone
  BY <1>16, Zenon DEF TerminateNone
<1>17. CASE DestroyFree
  BY <1>17, Zenon DEF DestroyFree
<1>18. CASE TerminateCancel
  <2>1. ub' \in BOOLEAN
    BY <1>18 DEF TerminateCancel, PthreadCancel
  <2> QED
    BY <1>18, <2>1, Zenon DEF TerminateCancel, PthreadCancel
<1>19. CASE Suspend
  <2>1. ub' \in BOOLEAN
    BY <1>19 DEF Suspend, PthreadCancel
  <2> QED
    BY <1>19, <2>1, Zenon DEF Suspend, PthreadCancel
<1>20. CASE TerminateJoin
  <2>1. ub' \in BOOLEAN /\ m_thread' \in BOOLEAN
    BY <1>20 DEF TerminateJoin
  <2> QED
    BY <1>20, <2>1, Zenon DEF TerminateJoin
<1>21. CASE Resume
  BY <1>21, Zenon DEF Resume
<1>22. CASE OtherRaiseSet
  BY <1>22, Zenon DEF OtherRaiseSet
<1>23. CASE TerminateBegin
  <2>1. UNCHANGED <<m_crrunning, m_rcpu, m_activ, m_thread, fifo, disturbed, cancelled, joined,
                    ub, resumed>>
    BY <1>23, Zenon DEF TerminateBegin
  <2> QED
    BY <2>1, Zenon
<1>24. CASE UNCHANGED vars
  BY <1>24, Zenon DEF vars
<1> QED
  BY <1>1, <1>2, <1>3, <1>4, <1>5, <1>6, <1>7, <1>8, <1>9, <1>10, <1>11, <1>12, <1>13,
     <1>14, <1>15, <1>16, <1>17, <1>18, <1>19, <1>20, <1>21, <1>22, <1>23, <1>24
     DEF Next, Owner, Thread, ExecThread

LEMMA RangesStep == Ranges /\ [Next]_vars => Ranges'
<1> SUFFICES ASSUME Ranges, [Next]_vars PROVE Ranges'
  OBVIOUS
<1> USE MaxCallsAssumption, LimitsAssumption DEF Ranges, object, sched, thread, posix
<1>1. CASE StartCancelType \/ StartLock \/ Cancel \/ StartReturn
  BY <1>1 DEF StartCancelType, StartLock, Cancel, StartReturn
<1>2. CASE ExecThread
  BY <1>2 DEF ExecThread, ExecNotRt, SetScheduler, RaiseLook, RaiseSet, CallExecute, ExecFrame
<1>3. CASE ConstructBase \/ ConstructCreate \/ ConstructCreateFails
  BY <1>3 DEF ConstructBase, ConstructCreate, ConstructCreateFails
<1>4. CASE ConstructFinish \/ ConstructDerived
  BY <1>4 DEF ConstructFinish, ConstructDerived
<1>5. CASE TerminateNone \/ DestroyFree
  BY <1>5 DEF TerminateNone, DestroyFree, After
<1>6. CASE TerminateCancel \/ TerminateJoin
  BY <1>6 DEF TerminateCancel, TerminateJoin, After
<1>7. CASE Resume
  BY <1>7 DEF Resume
<1>8. CASE Suspend
  <2>1. calls' \in 0 .. MaxCalls
    BY <1>8 DEF Suspend
  <2>2. UNCHANGED <<class, owner, vptr, m_startmutex, imp_buf, th, ran, rlim_cur, rlim_max,
                    others>>
    BY <1>8 DEF Suspend
  <2> QED
    BY <2>1, <2>2 DEF Suspend
<1>9. CASE TerminateBegin
  BY <1>9 DEF TerminateBegin
<1>10. CASE RaiseSetFails
  BY <1>10 DEF RaiseSetFails, ExecFrame
<1>12. CASE OtherRaiseSet
  <2>1. rlim_cur' \in Nat /\ others' \in 0 .. MaxOthers
    BY <1>12 DEF OtherRaiseSet
  <2>2. UNCHANGED <<class, owner, calls, vptr, m_startmutex, imp_buf, th, ran, rlim_max>>
    BY <1>12 DEF OtherRaiseSet
  <2> QED
    BY <2>1, <2>2
<1>11. CASE UNCHANGED vars
  BY <1>11 DEF vars
<1> QED
  BY <1>1, <1>2, <1>3, <1>4, <1>5, <1>6, <1>7, <1>8, <1>9, <1>10, <1>11, <1>12
     DEF Next, Owner, Thread

\* The owner's steps, the thread's steps and the calls keep the types.
LEMMA TypeStep == TypeOK /\ [Next]_vars => TypeOK'
<1>1. (Flags /\ Ranges)' => TypeOK'
  BY Zenon DEF TypeOK, Flags, Ranges
<1> QED
  BY TypeSplit, FlagsStep, RangesStep, <1>1

\* Only Resume, or a constructor with crrunning, lets the thread go, and not
\* before the CPU is known.
LEMMA HeldStep == IInv /\ [Next]_vars => HoldInv' /\ CpuInv'
<1> SUFFICES ASSUME IInv, [Next]_vars PROVE HoldInv' /\ CpuInv'
  OBVIOUS
<1> USE DEF IInv, TypeOK, HoldInv, CpuInv, Held, object, sched, thread, posix
<1>1. CASE Thread
  BY <1>1 DEF Thread, StartCancelType, StartLock, Cancel, ExecThread, ExecNotRt, SetScheduler,
         RaiseLook, RaiseSet, CallExecute, ExecFrame
<1>2. CASE StartReturn
  BY <1>2 DEF StartReturn
<1>3. CASE ConstructBase
  BY <1>3 DEF ConstructBase, LifeInv
<1>3a. CASE ConstructDerived
  BY <1>3a DEF ConstructDerived
<1>4. CASE ConstructCreate \/ ConstructCreateFails
  BY <1>4 DEF ConstructCreate, ConstructCreateFails, LifeInv
<1>5. CASE ConstructFinish
  BY <1>5 DEF ConstructFinish
<1>6. CASE TerminateNone \/ TerminateJoin \/ DestroyFree
  BY <1>6 DEF TerminateNone, TerminateJoin, DestroyFree, Terminating, Joining
<1>7. CASE TerminateCancel
  BY <1>7 DEF TerminateCancel, Terminating
<1>8. CASE Resume
  BY <1>8 DEF Resume
<1>9. CASE Suspend \/ TerminateBegin
  BY <1>9 DEF Suspend, TerminateBegin
<1>10. CASE UNCHANGED vars
  BY <1>10 DEF vars
<1>20. CASE RaiseSetFails \/ OtherRaiseSet
  BY <1>20 DEF RaiseSetFails, OtherRaiseSet, ExecFrame
<1> QED
  BY <1>1, <1>2, <1>3, <1>3a, <1>4, <1>5, <1>6, <1>7, <1>8, <1>9, <1>10, <1>20 DEF Next, Owner

\* Memory is freed after the join, or when there is nothing to join.
LEMMA LifeStep == IInv /\ [Next]_vars => LifeInv'
<1> SUFFICES ASSUME IInv, [Next]_vars PROVE LifeInv'
  OBVIOUS
<1> USE DEF IInv, TypeOK, LifeInv, object, sched, thread, posix
<1>1. CASE Thread
  BY <1>1 DEF Thread, StartCancelType, StartLock, Cancel, ExecThread, ExecNotRt, SetScheduler,
         RaiseLook, RaiseSet, CallExecute, ExecFrame
<1>2. CASE StartReturn
  BY <1>2 DEF StartReturn
<1>3. CASE ConstructBase
  BY <1>3 DEF ConstructBase
<1>4. CASE ConstructCreate \/ ConstructCreateFails
  BY <1>4 DEF ConstructCreate, ConstructCreateFails
<1>5. CASE ConstructFinish \/ ConstructDerived
  BY <1>5 DEF ConstructFinish, ConstructDerived
<1>6. CASE TerminateNone \/ DestroyFree
  BY <1>6 DEF TerminateNone, DestroyFree, Terminating, After
<1>7. CASE TerminateCancel
  BY <1>7 DEF TerminateCancel, Terminating
<1>8. CASE TerminateJoin
  BY <1>8 DEF TerminateJoin, Joining, After
<1>9. CASE Resume \/ Suspend \/ TerminateBegin
  BY <1>9 DEF Resume, Suspend, TerminateBegin
<1>10. CASE UNCHANGED vars
  BY <1>10 DEF vars
<1>20. CASE RaiseSetFails \/ OtherRaiseSet
  BY <1>20 DEF RaiseSetFails, OtherRaiseSet, ExecFrame
<1> QED
  BY <1>1, <1>2, <1>3, <1>4, <1>5, <1>6, <1>7, <1>8, <1>9, <1>10, <1>20 DEF Next, Owner

\* A joined handle of class thread is gone, so that nothing is cancelled or
\* joined twice.
LEMMA JoinStep == IInv /\ [Next]_vars => JoinInv'
<1> SUFFICES ASSUME IInv, [Next]_vars PROVE JoinInv'
  OBVIOUS
<1> USE DEF IInv, TypeOK, JoinInv, Joining, object, sched, thread, posix
<1>1. CASE Thread \/ StartReturn
  BY <1>1 DEF Thread, StartCancelType, StartLock, Cancel, ExecThread, ExecNotRt, SetScheduler,
         RaiseLook, RaiseSet, CallExecute, ExecFrame, StartReturn
<1>2. CASE ConstructBase \/ ConstructCreate \/ ConstructCreateFails
  BY <1>2 DEF ConstructBase, ConstructCreate, ConstructCreateFails
<1>3. CASE ConstructFinish \/ ConstructDerived
  BY <1>3 DEF ConstructFinish, ConstructDerived
<1>4. CASE TerminateNone \/ DestroyFree
  BY <1>4 DEF TerminateNone, DestroyFree, Terminating, After
<1>5. CASE TerminateCancel
  BY <1>5 DEF TerminateCancel, Terminating, PthreadCancel
<1>6. CASE TerminateJoin
  BY <1>6 DEF TerminateJoin, After
<1>7. CASE Resume \/ TerminateBegin
  BY <1>7 DEF Resume, TerminateBegin
<1>8. CASE Suspend
  BY <1>8 DEF Suspend, PthreadCancel
<1>9. CASE UNCHANGED vars
  BY <1>9 DEF vars
<1>20. CASE RaiseSetFails \/ OtherRaiseSet
  BY <1>20 DEF RaiseSetFails, OtherRaiseSet, ExecFrame
<1> QED
  BY <1>1, <1>2, <1>3, <1>4, <1>5, <1>6, <1>7, <1>8, <1>9, <1>20 DEF Next, Owner

\* The retry loop of setscheduler gives up for one of the three reasons.
LEMMA PrioStep == IInv /\ [Next]_vars => PrioInv'
<1> SUFFICES ASSUME IInv, [Next]_vars PROVE PrioInv'
  OBVIOUS
<1> USE LimitsAssumption DEF IInv, TypeOK, PrioInv, object, sched, thread, posix
<1>1. CASE StartCancelType \/ StartLock \/ Cancel \/ StartReturn
  BY <1>1 DEF StartCancelType, StartLock, Cancel, StartReturn
<1>2. CASE ExecThread
  <2>1. CASE ExecNotRt
    BY <2>1 DEF ExecNotRt, ExecFrame
  <2>2. CASE SetScheduler
    BY <2>2 DEF SetScheduler, ExecFrame
  <2>3. CASE RaiseLook
    <3>1. class' = class /\ rlim_max' = rlim_max /\ fifo' = fifo /\ ran' = ran
      BY <2>3 DEF RaiseLook, ExecFrame
    <3>2. CASE th' = "raise"
      BY <2>3, <3>1, <3>2 DEF RaiseLook
    <3>3. CASE th' = "affinity"
      <4>1. CASE m_priority <= rlim_cur
        <5>1. disturbed'
          BY <2>3, <4>1, Zenon DEF RaiseLook
        <5> QED
          BY <3>1, <3>3, <5>1, Zenon
      <4>2. CASE ~(m_priority <= rlim_cur)
        <5>1. rlim_max' < m_priority
          BY <2>3, <3>1, <3>3, <4>2 DEF RaiseLook
        <5> QED
          BY <3>1, <3>3, <5>1, Zenon
      <4> QED
        BY <4>1, <4>2
    <3> QED
      BY <2>3, <3>2, <3>3 DEF RaiseLook
  <2>4. CASE RaiseSet
    BY <2>4 DEF RaiseSet, ExecFrame
  <2>5. CASE CallExecute
    BY <2>5 DEF CallExecute, ExecFrame
  <2> QED
    BY <1>2, <2>1, <2>2, <2>3, <2>4, <2>5 DEF ExecThread
<1>3. CASE ConstructBase \/ ConstructCreate \/ ConstructCreateFails
  BY <1>3 DEF ConstructBase, ConstructCreate, ConstructCreateFails, LifeInv
<1>4. CASE ConstructFinish \/ ConstructDerived
  BY <1>4 DEF ConstructFinish, ConstructDerived
<1>5. CASE TerminateNone \/ TerminateCancel \/ TerminateJoin \/ DestroyFree
  BY <1>5 DEF TerminateNone, TerminateCancel, TerminateJoin, DestroyFree
<1>6. CASE Resume \/ Suspend \/ TerminateBegin
  BY <1>6 DEF Resume, Suspend, TerminateBegin
<1>7. CASE RaiseSetFails \/ OtherRaiseSet
  BY <1>7 DEF RaiseSetFails, OtherRaiseSet, ExecFrame
<1>8. CASE UNCHANGED vars
  BY <1>8 DEF vars
<1> QED
  BY <1>1, <1>2, <1>3, <1>4, <1>5, <1>6, <1>7, <1>8 DEF Next, Owner, Thread

\* The derived class is there before Resume can be called.
LEMMA VptrStep == IInv /\ [Next]_vars => VptrInv'
<1> SUFFICES ASSUME IInv, [Next]_vars PROVE VptrInv'
  OBVIOUS
<1> USE DEF IInv, TypeOK, VptrInv, object, sched, thread, posix
<1>1. CASE Thread \/ StartReturn
  BY <1>1 DEF Thread, StartCancelType, StartLock, Cancel, ExecThread, ExecNotRt, SetScheduler,
         RaiseLook, RaiseSet, CallExecute, ExecFrame, StartReturn
<1>2. CASE ConstructBase \/ ConstructCreate \/ ConstructCreateFails
  BY <1>2 DEF ConstructBase, ConstructCreate, ConstructCreateFails
<1>3. CASE ConstructFinish \/ ConstructDerived
  BY <1>3 DEF ConstructFinish, ConstructDerived
<1>4. CASE TerminateNone \/ DestroyFree
  BY <1>4 DEF TerminateNone, DestroyFree, Terminating, After
<1>5. CASE TerminateCancel \/ TerminateJoin
  BY <1>5 DEF TerminateCancel, TerminateJoin, Terminating, Joining, After
<1>6. CASE Resume \/ Suspend \/ TerminateBegin
  BY <1>6 DEF Resume, Suspend, TerminateBegin
<1>7. CASE RaiseSetFails \/ OtherRaiseSet
  BY <1>7 DEF RaiseSetFails, OtherRaiseSet, ExecFrame
<1>8. CASE UNCHANGED vars
  BY <1>8 DEF vars
<1> QED
  BY <1>1, <1>2, <1>3, <1>4, <1>5, <1>6, <1>7, <1>8 DEF Next, Owner

\* Only CallExecute calls Execute, and a held thread gets there resumed.
LEMMA RunsStep ==
    IInv /\ [Next]_vars =>
        (ran' # ran /\ ~m_crrunning /\ owner \notin {"destroy", "djoin"} => ran' = "derived")
<1> SUFFICES ASSUME IInv, [Next]_vars, ran' # ran, ~m_crrunning,
                    owner \notin {"destroy", "djoin"}
             PROVE  ran' = "derived"
  OBVIOUS
<1>1. CallExecute
  BY DEF Next, Owner, Thread, StartCancelType, StartLock, Cancel, ExecThread, ExecNotRt,
         SetScheduler, RaiseLook, RaiseSet, ExecFrame, StartReturn, ConstructBase,
         ConstructCreate, ConstructCreateFails, ConstructFinish, ConstructDerived,
         TerminateNone, DestroyFree, TerminateCancel, TerminateJoin, Resume, Suspend,
         TerminateBegin, RaiseSetFails, OtherRaiseSet, vars, thread
<1>2. th = "affinity" /\ ran' = vptr
  BY <1>1 DEF CallExecute
<1>3. resumed
  BY <1>2 DEF IInv, TypeOK, HoldInv, Held
<1>4. owner \in {"idle", "terminate", "tjoin"}
  BY <1>2, <1>3 DEF IInv, VptrInv, LifeInv
<1> QED
  BY <1>2, <1>4 DEF IInv, VptrInv

\* IInv is an invariant of the specification.
THEOREM Invariance == Spec => []IInv
<1>1. IInv /\ [Next]_vars => IInv'
  BY TypeStep, HeldStep, LifeStep, JoinStep, PrioStep, VptrStep DEF IInv
<1> QED
  BY InitIInv, <1>1, PTL DEF Spec

\* Every variable keeps its type, for any number of calls.
THEOREM TypeCorrect == Spec => []TypeOK
<1>1. IInv => TypeOK
  BY DEF IInv
<1> QED
  BY Invariance, <1>1, PTL

\* A thread created with crrunning=false does not call Execute before Resume,
\* whatever sequence of calls the owner makes.
THEOREM HeldUntilResumedCorrect == Spec => []HeldUntilResumed
<1>1. IInv => HeldUntilResumed
  BY DEF IInv, TypeOK, HoldInv, Held, HeldUntilResumed
<1> QED
  BY Invariance, <1>1, PTL

\* ExecThread does not use the CPU number before the constructor has set it.
THEOREM CpuKnownCorrect == Spec => []CpuKnown
<1>1. IInv => CpuKnown
  BY DEF IInv, TypeOK, CpuInv, Held, CpuKnown
<1> QED
  BY Invariance, <1>1, PTL

\* The destructor frees the start mutex only when the thread has ended.
THEOREM NoUseAfterFreeCorrect == Spec => []NoUseAfterFree
<1>1. IInv => NoUseAfterFree
  BY DEF IInv, TypeOK, LifeInv, NoUseAfterFree
<1> QED
  BY Invariance, <1>1, PTL

\* thread::Terminate and ~thread never cancel or join a joined thread.
THEOREM JoinedOnceCorrect == Spec => []JoinedOnce
<1>1. IInv => JoinedOnce
  BY DEF IInv, JoinInv, JoinedOnce
<1> QED
  BY Invariance, <1>1, PTL

\* Whatever the other threads do to the soft limit, an rtthread runs without its
\* priority only for one of the reasons named.
THEOREM PriorityRaisedCorrect == Spec => []PriorityRaised
<1>1. IInv => PriorityRaised
  BY DEF IInv, PrioInv, PriorityRaised
<1> QED
  BY Invariance, <1>1, PTL

\* A thread created with crrunning=false calls the Execute of the derived class.
THEOREM HeldRunsDerivedCorrect == Spec => HeldRunsDerived
<1>1. IInv /\ [Next]_vars =>
          [ran' # ran /\ ~m_crrunning /\ owner \notin {"destroy", "djoin"}
              => ran' = "derived"]_vars
  BY RunsStep
<1> QED
  BY Invariance, <1>1, PTL DEF Spec, HeldRunsDerived
=============================================================================
