------------------------------ MODULE RtThread -------------------------------
(***************************************************************************)
(* Life cycle of the thread classes: thread and rtthread, with a class     *)
(* derived from them (as rttestthread is) that overrides Execute.          *)
(*                                                                         *)
(* The owner constructs the object, resumes, suspends and terminates it,   *)
(* and destroys it.  The POSIX thread is created by the constructor of the *)
(* base class, is held by m_startmutex, and then calls the virtual method  *)
(* Execute.  All of it races with the rest of the constructor, and with    *)
(* cancellation.                                                           *)
(*                                                                         *)
(* External, as POSIX and glibc define them: an asynchronously cancellable *)
(* thread ends at any point once it is cancelled; a mutex that is locked   *)
(* is not destroyed (EBUSY) and one that is destroyed does not block;      *)
(* unlocking one that is not locked changes nothing that this module       *)
(* shows; cancelling or joining a thread that was joined is undefined,     *)
(* which ub records.  A call of a virtual method takes the class whose     *)
(* constructor has begun and whose destructor has not.                     *)
(*                                                                         *)
(* sched_setscheduler is refused with EPERM above the soft limit, and      *)
(* setrlimit may fail.                                                     *)
(*                                                                         *)
(* An rtthread is created with cpu = -1 here, so that its CPU is chosen by *)
(* the constructor.  That malloc or getrlimit fails is left out, and so is *)
(* a policy or a priority that the kernel does not know.                   *)
(***************************************************************************)
EXTENDS Integers

CONSTANTS
    Classes,   \* base classes considered: "thread", "rtthread"
    MaxCalls,  \* bound: calls of Resume, Suspend and Terminate
    m_priority,\* of the object, if it is an rtthread
    Limits,    \* values of the limits of RLIMIT_RTPRIO
    MaxOthers  \* bound: changes of the soft limit by other threads

ASSUME ClassesAssumption == Classes \subseteq {"thread", "rtthread"}
ASSUME MaxCallsAssumption == MaxCalls \in Nat
ASSUME LimitsAssumption ==
    m_priority \in Nat /\ Limits \subseteq Nat /\ MaxOthers \in Nat

VARIABLES
    class, m_crrunning,   \* of the object, fixed
    owner, calls,         \* control of the owner
    vptr,                 \* class that a virtual call takes: base, derived
    m_rcpu,               \* the CPU is known
    m_activ, m_startmutex, m_thread,
    imp_buf,              \* none, allocated, freed
    th,                   \* control of the thread
    cancelled, joined, ub,
    rlim_cur, rlim_max,   \* soft and hard limit of the process
    fifo,                 \* the thread runs with m_priority under SCHED_FIFO
    others,               \* changes of the soft limit by other threads
    ran, resumed,         \* history: the Execute that ran, Resume was called,
    disturbed             \* and why raising the limit was not possible

object == <<class, m_crrunning>>
thread == <<th, ran>>
posix  == <<cancelled, joined, ub>>
sched  == <<rlim_cur, rlim_max, fifo, others, disturbed>>
vars   == <<object, sched, owner, calls, vptr, m_rcpu, m_activ, m_startmutex, m_thread,
            imp_buf, thread, posix, resumed>>

Init ==
    /\ class \in Classes /\ m_crrunning \in BOOLEAN
    /\ owner = "construct" /\ calls = 0 /\ vptr = "base" /\ m_rcpu = FALSE
    /\ m_activ = FALSE /\ m_startmutex = "none" /\ m_thread = FALSE /\ imp_buf = "none"
    /\ th = "none" /\ ran = "none"
    /\ cancelled = FALSE /\ joined = FALSE /\ ub = FALSE /\ resumed = FALSE
    /\ rlim_cur \in Limits /\ rlim_max \in Limits /\ rlim_cur <= rlim_max
    /\ fifo = FALSE /\ others = 0 /\ disturbed = FALSE

-----------------------------------------------------------------------------
(* The constructors.                                                       *)

\* Fault: the start mutex is not locked.
ConstructBase_NotLocked ==
    /\ owner = "construct" /\ owner' = "create"
    /\ m_activ' = FALSE /\ imp_buf' = "allocated" /\ m_startmutex' = "free"
    /\ m_rcpu' = (class = "thread")
    /\ UNCHANGED <<object, sched, calls, vptr, m_thread, thread, posix, resumed>>

\* threadbase and the first part of thread or rtthread: the fields, imp_buf,
\* and m_startmutex, which is locked.  The CPU of a thread is the parameter.
ConstructBase ==
    /\ owner = "construct" /\ owner' = "create"
    /\ m_activ' = FALSE /\ imp_buf' = "allocated" /\ m_startmutex' = "locked"
    /\ m_rcpu' = (class = "thread")
    /\ UNCHANGED <<object, sched, calls, vptr, m_thread, thread, posix, resumed>>

\* pthread_create.  If it fails, m_thread stays zero; the constructor of rtthread
\* then passes it to pthread_setname_np, which is fatal.
ConstructCreateFails ==
    /\ owner = "create" /\ owner' = IF class = "thread" THEN "assign" ELSE "crashed"
    /\ UNCHANGED <<object, sched, calls, vptr, m_rcpu, m_activ, m_startmutex, m_thread, imp_buf,
                   thread, posix, resumed>>

ConstructCreate ==
    /\ owner = "create" /\ owner' = "assign"
    /\ m_thread' = TRUE /\ th' = "born"
    /\ UNCHANGED <<object, sched, calls, vptr, m_rcpu, m_activ, m_startmutex, imp_buf, ran,
                   posix, resumed>>

\* Fault: the thread is let go before its CPU is known.
ConstructFinish_UnlockFirst ==
    \/ /\ owner = "assign" /\ owner' = "unlock"
       /\ m_startmutex' = IF m_crrunning THEN "free" ELSE m_startmutex
       /\ UNCHANGED <<object, sched, calls, vptr, m_rcpu, m_activ, m_thread, imp_buf, thread,
                      posix, resumed>>
    \/ /\ owner = "unlock" /\ owner' = "derived"
       /\ m_rcpu' = TRUE
       /\ UNCHANGED <<object, sched, calls, vptr, m_activ, m_startmutex, m_thread, imp_buf,
                      thread, posix, resumed>>

\* Fault: the thread is let go whatever crrunning says.
ConstructFinish_Unlock ==
    \/ /\ owner = "assign" /\ owner' = "unlock"
       /\ m_rcpu' = TRUE
       /\ UNCHANGED <<object, sched, calls, vptr, m_activ, m_startmutex, m_thread, imp_buf,
                      thread, posix, resumed>>
    \/ /\ owner = "unlock" /\ owner' = "derived"
       /\ m_startmutex' = "free"
       /\ UNCHANGED <<object, sched, calls, vptr, m_rcpu, m_activ, m_thread, imp_buf, thread,
                      posix, resumed>>

\* The rest of the base constructor: m_rcpu = get_nextcpu() of an rtthread,
\* then the mutex is unlocked if crrunning says so.
ConstructFinish ==
    \/ /\ owner = "assign" /\ owner' = "unlock"
       /\ m_rcpu' = TRUE
       /\ UNCHANGED <<object, sched, calls, vptr, m_activ, m_startmutex, m_thread, imp_buf,
                      thread, posix, resumed>>
    \/ /\ owner = "unlock" /\ owner' = "derived"
       /\ m_startmutex' = IF m_crrunning THEN "free" ELSE m_startmutex
       /\ UNCHANGED <<object, sched, calls, vptr, m_rcpu, m_activ, m_thread, imp_buf, thread,
                      posix, resumed>>

\* The constructor of the derived class begins only now.
ConstructDerived ==
    /\ owner = "derived" /\ owner' = "idle"
    /\ vptr' = "derived"
    /\ UNCHANGED <<object, sched, calls, m_rcpu, m_activ, m_startmutex, m_thread, imp_buf,
                   thread, posix, resumed>>

-----------------------------------------------------------------------------
(* __Start_thread.                                                         *)

\* pthread_setcancelstate and pthread_setcanceltype
StartCancelType ==
    /\ th = "born" /\ th' = "lock"
    /\ UNCHANGED <<object, sched, owner, calls, vptr, m_rcpu, m_activ, m_startmutex, m_thread,
                   imp_buf, ran, posix, resumed>>

\* The start mutex is obtained and the object becomes active.
StartLock ==
    /\ th = "lock" /\ m_startmutex \in {"free", "destroyed"} /\ th' = "exec"
    /\ m_startmutex' = IF m_startmutex = "free" THEN "locked" ELSE m_startmutex
    /\ m_activ' = TRUE
    /\ UNCHANGED <<object, sched, owner, calls, vptr, m_rcpu, m_thread, imp_buf, ran, posix,
                   resumed>>

-----------------------------------------------------------------------------
(* ExecThread: setscheduler and raise_soft_prio, affinity, Execute.        *)

\* What the steps of ExecThread leave alone.
ExecFrame ==
    UNCHANGED <<object, owner, calls, vptr, m_rcpu, m_activ, m_startmutex, m_thread,
                imp_buf, posix, resumed>>

\* A class other than rtthread keeps its priority.
ExecNotRt ==
    /\ th = "exec" /\ class # "rtthread" /\ th' = "affinity"
    /\ ExecFrame /\ UNCHANGED <<sched, ran>>

\* try_again: sched_setscheduler, refused with EPERM above the soft limit
SetScheduler ==
    /\ th = "exec" /\ class = "rtthread"
    /\ IF m_priority <= rlim_cur
       THEN th' = "affinity" /\ fifo' = TRUE
       ELSE th' = "limits" /\ UNCHANGED fifo
    /\ ExecFrame /\ UNCHANGED <<rlim_cur, rlim_max, others, disturbed, ran>>

\* Fault: the hard limit must exceed the priority.
RaiseLook_Strict ==
    /\ th = "limits"
    /\ th' = IF rlim_cur < m_priority /\ m_priority < rlim_max THEN "raise" ELSE "affinity"
    /\ disturbed' = (disturbed \/ m_priority <= rlim_cur)
    /\ ExecFrame /\ UNCHANGED <<rlim_cur, rlim_max, fifo, others, ran>>

\* raise_soft_prio reads the limits.  There is something to do if the priority is
\* above the soft limit and not above the hard one; otherwise setscheduler gives
\* up, also when another thread has raised the soft limit in the meantime.
RaiseLook ==
    /\ th = "limits"
    /\ th' = IF rlim_cur < m_priority /\ m_priority <= rlim_max THEN "raise" ELSE "affinity"
    /\ disturbed' = (disturbed \/ m_priority <= rlim_cur)
    /\ ExecFrame /\ UNCHANGED <<rlim_cur, rlim_max, fifo, others, ran>>

\* setrlimit, after which setscheduler tries again; if it fails, it gives up.
RaiseSet ==
    /\ th = "raise" /\ th' = "exec"
    /\ rlim_cur' = m_priority
    /\ ExecFrame /\ UNCHANGED <<rlim_max, fifo, others, disturbed, ran>>

RaiseSetFails ==
    /\ th = "raise" /\ th' = "affinity"
    /\ disturbed' = TRUE
    /\ ExecFrame /\ UNCHANGED <<rlim_cur, rlim_max, fifo, others, ran>>

\* With or without its priority, the thread is bound to m_rcpu and calls the
\* virtual Execute.
CallExecute ==
    /\ th = "affinity" /\ th' = "execute"
    /\ ran' = vptr
    /\ ExecFrame /\ UNCHANGED sched

ExecThread ==
    ExecNotRt \/ SetScheduler \/ RaiseLook \/ RaiseSet \/ CallExecute

\* Another rtthread of the process is in raise_soft_prio, with a priority and a
\* look at the limits of its own: the soft limit may as well go down.
OtherRaiseSet ==
    /\ others < MaxOthers /\ others' = others + 1
    /\ rlim_cur' \in {p \in Limits : p <= rlim_max}
    /\ UNCHANGED <<object, owner, calls, vptr, m_rcpu, m_activ, m_startmutex, m_thread,
                   imp_buf, thread, posix, resumed, rlim_max, fifo, disturbed>>

\* Execute returns and the thread ends.
StartReturn ==
    /\ th = "execute" /\ th' = "ended"
    /\ m_activ' = FALSE
    /\ UNCHANGED <<object, sched, owner, calls, vptr, m_rcpu, m_startmutex, m_thread, imp_buf,
                   ran, posix, resumed>>

\* Fault: cancellation stays deferred, and pthread_mutex_lock is no
\* cancellation point.
Cancel_Deferred ==
    /\ cancelled /\ th = "execute" /\ th' = "ended"
    /\ UNCHANGED <<object, sched, owner, calls, vptr, m_rcpu, m_activ, m_startmutex, m_thread,
                   imp_buf, ran, posix, resumed>>

\* The cancellation type is asynchronous: the thread ends where it is.
Cancel ==
    /\ cancelled /\ th \notin {"none", "born", "ended"} /\ th' = "ended"
    /\ UNCHANGED <<object, sched, owner, calls, vptr, m_rcpu, m_activ, m_startmutex, m_thread,
                   imp_buf, ran, posix, resumed>>

-----------------------------------------------------------------------------
(* The methods.                                                            *)

\* Fault: a thread that does not wait yet is not let go.
Resume_OnlyWaiting ==
    /\ owner = "idle" /\ calls < MaxCalls /\ calls' = calls + 1
    /\ m_startmutex' = IF th = "lock" /\ m_startmutex = "locked" THEN "free" ELSE m_startmutex
    /\ resumed' = TRUE
    /\ UNCHANGED <<object, sched, owner, vptr, m_rcpu, m_activ, m_thread, imp_buf, thread, posix>>

\* Resume: pthread_mutex_unlock(&m_startmutex)
Resume ==
    /\ owner = "idle" /\ calls < MaxCalls /\ calls' = calls + 1
    /\ m_startmutex' = IF m_startmutex = "locked" THEN "free" ELSE m_startmutex
    /\ resumed' = TRUE
    /\ UNCHANGED <<object, sched, owner, vptr, m_rcpu, m_activ, m_thread, imp_buf, thread, posix>>

\* pthread_cancel, pthread_join of a thread that was joined: undefined.
PthreadCancel == cancelled' = TRUE /\ ub' = (ub \/ joined)

\* Suspend, of an rtthread only: pthread_cancel
Suspend ==
    /\ owner = "idle" /\ class = "rtthread" /\ calls < MaxCalls /\ calls' = calls + 1
    /\ PthreadCancel
    /\ UNCHANGED <<object, sched, owner, vptr, m_rcpu, m_activ, m_startmutex, m_thread, imp_buf,
                   thread, joined, resumed>>

\* Terminate called by the owner, or by the destructor, which the destructor of
\* the derived class has preceded.
TerminateBegin ==
    \/ /\ owner = "idle" /\ owner' = "terminate"
       /\ calls < MaxCalls /\ calls' = calls + 1
       /\ UNCHANGED <<object, sched, vptr, m_rcpu, m_activ, m_startmutex, m_thread, imp_buf,
                      thread, posix, resumed>>
    \/ /\ owner = "idle" /\ owner' = "destroy"
       /\ vptr' = "base"
       /\ UNCHANGED <<object, sched, calls, m_rcpu, m_activ, m_startmutex, m_thread, imp_buf,
                      thread, posix, resumed>>

Terminating == owner \in {"terminate", "destroy"}

\* The call that follows Terminate: nothing, or the rest of the destructor.
After(o) == IF o \in {"terminate", "tjoin"} THEN "idle" ELSE "free"

\* m_thread is cleared: nothing to do.
TerminateNone ==
    /\ Terminating /\ ~m_thread /\ owner' = After(owner)
    /\ UNCHANGED <<object, sched, calls, vptr, m_rcpu, m_activ, m_startmutex, m_thread, imp_buf,
                   thread, posix, resumed>>

\* pthread_mutex_destroy and pthread_cancel
TerminateCancel ==
    /\ Terminating /\ m_thread /\ owner' = IF owner = "terminate" THEN "tjoin" ELSE "djoin"
    /\ m_startmutex' = IF m_startmutex = "free" THEN "destroyed" ELSE m_startmutex
    /\ PthreadCancel
    /\ UNCHANGED <<object, sched, calls, vptr, m_rcpu, m_activ, m_thread, imp_buf, thread, joined,
                   resumed>>

Joining == owner \in {"tjoin", "djoin"}

\* Fault: the end of the thread is not waited for.
TerminateJoin_Detached ==
    /\ Joining /\ owner' = After(owner)
    /\ m_activ' = FALSE /\ m_thread' = (m_thread /\ class = "rtthread")
    /\ joined' = TRUE
    /\ UNCHANGED <<object, sched, calls, vptr, m_rcpu, m_startmutex, imp_buf, thread,
                   cancelled, ub, resumed>>

\* Fault: the handle of a thread is kept as that of an rtthread is.
TerminateJoin_KeepsHandle ==
    /\ Joining /\ th = "ended" /\ owner' = After(owner)
    /\ m_activ' = FALSE /\ UNCHANGED m_thread
    /\ joined' = TRUE /\ ub' = (ub \/ joined)
    /\ UNCHANGED <<object, sched, calls, vptr, m_rcpu, m_startmutex, imp_buf, thread,
                   cancelled, resumed>>

\* pthread_join returns when the thread has ended; only thread::Terminate
\* clears m_thread.
TerminateJoin ==
    /\ Joining /\ th = "ended" /\ owner' = After(owner)
    /\ m_activ' = FALSE /\ m_thread' = (m_thread /\ class = "rtthread")
    /\ joined' = TRUE /\ ub' = (ub \/ joined)
    /\ UNCHANGED <<object, sched, calls, vptr, m_rcpu, m_startmutex, imp_buf, thread,
                   cancelled, resumed>>

\* The destructor frees imp_buf, and the object is gone.
DestroyFree ==
    /\ owner = "free" /\ owner' = "gone"
    /\ imp_buf' = "freed" /\ m_activ' = FALSE
    /\ UNCHANGED <<object, sched, calls, vptr, m_rcpu, m_startmutex, m_thread, thread, posix,
                   resumed>>

Thread == StartCancelType \/ StartLock \/ ExecThread \/ Cancel
Owner ==
    \/ ConstructBase \/ ConstructCreate \/ ConstructFinish \/ ConstructDerived
    \/ TerminateNone \/ TerminateCancel \/ TerminateJoin \/ DestroyFree
Next ==
    \/ Thread \/ StartReturn \/ Owner \/ ConstructCreateFails
    \/ Resume \/ Suspend \/ TerminateBegin \/ RaiseSetFails \/ OtherRaiseSet

Spec == Init /\ [][Next]_vars

\* A call that was begun goes on, and so does the thread, except that Execute
\* need not return.
FairSpec == Spec /\ WF_vars(Owner) /\ WF_vars(Thread)
-----------------------------------------------------------------------------
(* Properties.                                                             *)

\* Every variable keeps its type.
TypeOK ==
    /\ class \in {"thread", "rtthread"} /\ m_crrunning \in BOOLEAN
    /\ owner \in {"construct", "create", "assign", "unlock", "derived", "idle", "terminate",
                  "tjoin", "destroy", "djoin", "free", "gone", "crashed"}
    /\ calls \in 0 .. MaxCalls /\ vptr \in {"base", "derived"}
    /\ m_rcpu \in BOOLEAN /\ m_activ \in BOOLEAN /\ m_thread \in BOOLEAN
    /\ m_startmutex \in {"none", "locked", "free", "destroyed"}
    /\ imp_buf \in {"none", "allocated", "freed"}
    /\ th \in {"none", "born", "lock", "exec", "limits", "raise", "affinity", "execute",
               "ended"}
    /\ rlim_cur \in Nat /\ rlim_max \in Nat /\ fifo \in BOOLEAN
    /\ others \in 0 .. MaxOthers /\ disturbed \in BOOLEAN
    /\ ran \in {"none", "base", "derived"}
    /\ cancelled \in BOOLEAN /\ joined \in BOOLEAN /\ ub \in BOOLEAN /\ resumed \in BOOLEAN

\* "hold if false": a thread created with crrunning=false does not call Execute
\* before Resume, also when it is terminated or destroyed without one.
HeldUntilResumed ==
    ran # "none" => m_crrunning \/ resumed

\* The thread, which is created in the middle of a constructor, does not use the
\* CPU number before the constructor has set it.
CpuKnown ==
    th \in {"affinity", "execute"} => m_rcpu

\* The thread never outlives the memory that holds its start mutex, nor the
\* object.
NoUseAfterFree ==
    imp_buf = "freed" => th \in {"none", "ended"}

\* An object of class thread joins its thread at most once, however Terminate
\* and the destructor are combined.  (rtthread does not clear m_thread.)
JoinedOnce ==
    class = "thread" => ~ub

\* A Resume is not lost, whether or not the thread has reached the mutex: it
\* calls Execute unless it is cancelled.  (There is a thread if m_thread is set.)
ResumeStarts ==
    (owner = "idle" /\ resumed /\ m_thread) ~> (ran # "none" \/ cancelled)

\* Terminate and the destructor come to an end although the thread may be
\* blocked on the start mutex or never return from Execute.
TerminateReturns ==
    Joining ~> ~Joining

\* "If an error can be corrected by raising the soft limit priority to a priority
\* less than or equal to the hard limit, then do so": Execute of an rtthread runs
\* without its priority only if that is above the hard limit, or setrlimit has
\* failed, or another thread has already raised the limit between the refusal and
\* the look at the limits, which raise_soft_prio takes for a reason to give up.
PriorityRaised ==
    (class = "rtthread" /\ ran # "none") =>
        fifo \/ rlim_max < m_priority \/ disturbed

\* The Execute that a thread created with crrunning=false calls is that of the
\* derived class, whenever it is resumed, terminated or destroyed, unless the
\* object is being destroyed.  (With crrunning=true it may be that of the base
\* class, and the thread is over at once.)
HeldRunsDerived ==
    [][ran' # ran /\ ~m_crrunning /\ owner \notin {"destroy", "djoin"} => ran' = "derived"]_vars
=============================================================================
