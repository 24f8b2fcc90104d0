------------------------------ MODULE NamedMutex ------------------------------
(***************************************************************************)
(* The class mutex: a named semaphore that is shared by processes, each    *)
(* with an object of the class.  Every process calls lock and unlock in    *)
(* pairs; apart from that it may call reset, destroy its object, also      *)
(* while it is inside, end at any point and be started again.              *)
(*                                                                         *)
(* External, as POSIX and glibc define them: sem_open with O_CREAT leaves  *)
(* the value of a semaphore that exists alone; the semaphore survives its  *)
(* users; sem_wait takes no account of who came first, and returns without *)
(* the semaphore if a signal handler runs (EINTR), which lock does not     *)
(* check; a call with a null pointer ends the process, except sem_close,   *)
(* which refuses it.  malloc does not fail, and SEM_VALUE_MAX is not       *)
(* reached.                                                                *)
(***************************************************************************)
EXTENDS Integers, FiniteSets

CONSTANTS
    Procs,      \* the processes
    MaxLost,    \* bound: times that a process ends or destroys inside
    MaxPosts,   \* bound: posts of reset
    MaxSignals  \* bound: calls of sem_wait that a signal interrupts

ASSUME ProcsAssumption == IsFiniteSet(Procs)
ASSUME BoundsAssumption == MaxLost \in Nat /\ MaxPosts \in Nat /\ MaxSignals \in Nat

VARIABLES
    exists, value,   \* the semaphore
    pc,              \* of each process: absent, idle, wait, inside, post, null
    lost,            \* history: holders gone without unlock
    posts,           \* history: posts of reset
    signals          \* history: calls of lock that returned without the semaphore

sem     == <<exists, value>>
history == <<lost, posts, signals>>
vars    == <<sem, pc, history>>

Inside == {p \in Procs : pc[p] = "inside"}

Goto(p, l) == pc' = [pc EXCEPT ![p] = l]

Init ==
    /\ exists = FALSE /\ value = 0
    /\ pc = [p \in Procs |-> "absent"]
    /\ lost = 0 /\ posts = 0 /\ signals = 0

-----------------------------------------------------------------------------
(* The object.                                                             *)

\* Fault: the semaphore is given its initial value by everyone that opens it.
Construct_Initial(p) ==
    /\ pc[p] = "absent" /\ Goto(p, "idle")
    /\ exists' = TRUE /\ value' = 1
    /\ UNCHANGED history

\* Fault: the semaphore is created locked.
Construct_Locked(p) ==
    /\ pc[p] = "absent" /\ Goto(p, "idle")
    /\ exists' = TRUE /\ value' = IF exists THEN value ELSE 0
    /\ UNCHANGED history

\* mutex::mutex: sem_open(name, O_CREAT, ALLPERMS, 1), "create with initial free"
Construct(p) ==
    /\ pc[p] = "absent" /\ Goto(p, "idle")
    /\ exists' = TRUE /\ value' = IF exists THEN value ELSE 1
    /\ UNCHANGED history

\* sem_open fails: *p_sema is NULL, and the constructor does not tell.
ConstructFails(p) ==
    /\ pc[p] = "absent" /\ Goto(p, "null")
    /\ UNCHANGED <<sem, history>>

\* Fault: the destructor unlocks, whoever holds the semaphore.
Leave_Unlocks(p) ==
    /\ pc[p] # "absent" /\ Goto(p, "absent")
    /\ p \in Inside => lost < MaxLost
    /\ lost' = IF p \in Inside THEN lost + 1 ELSE lost
    /\ value' = IF exists THEN value + 1 ELSE value
    /\ UNCHANGED <<exists, posts, signals>>

\* The object goes: ~mutex closes the semaphore, or the process ends, on its own
\* or by a call of lock, unlock or reset with the null pointer.  A semaphore that
\* was held stays held.
Leave(p) ==
    /\ pc[p] # "absent" /\ Goto(p, "absent")
    /\ p \in Inside => lost < MaxLost
    /\ lost' = IF p \in Inside THEN lost + 1 ELSE lost
    /\ UNCHANGED <<sem, posts, signals>>

-----------------------------------------------------------------------------
(* lock, unlock and reset.                                                 *)

\* lock is called.
Lock(p) ==
    /\ pc[p] = "idle" /\ Goto(p, "wait")
    /\ UNCHANGED <<sem, history>>

\* sem_wait returns with the semaphore.
Acquire(p) ==
    /\ pc[p] = "wait" /\ value > 0 /\ Goto(p, "inside")
    /\ value' = value - 1
    /\ UNCHANGED <<exists, history>>

\* sem_wait returns without it, and lock returns all the same.
Interrupted(p) ==
    /\ pc[p] = "wait" /\ signals < MaxSignals /\ Goto(p, "inside")
    /\ signals' = signals + 1
    /\ UNCHANGED <<sem, lost, posts>>

\* unlock: sem_post
Unlock(p) ==
    /\ pc[p] = "inside" /\ Goto(p, "idle")
    /\ value' = value + 1
    /\ UNCHANGED <<exists, history>>

\* reset: sem_getvalue.  Nothing is done unless the value is 0.
ResetLook(p) ==
    /\ pc[p] = "idle" /\ Goto(p, IF value = 0 THEN "post" ELSE "idle")
    /\ UNCHANGED <<sem, history>>

\* sem_post, whatever has happened to the value since
ResetPost(p) ==
    /\ pc[p] = "post" /\ posts < MaxPosts /\ Goto(p, "idle")
    /\ value' = value + 1 /\ posts' = posts + 1
    /\ UNCHANGED <<exists, lost, signals>>

Call(p) == Acquire(p) \/ Unlock(p) \/ ResetPost(p)

Next ==
    \E p \in Procs :
        \/ Construct(p) \/ ConstructFails(p) \/ Leave(p) \/ Lock(p) \/ Interrupted(p)
        \/ ResetLook(p) \/ Call(p)

Spec == Init /\ [][Next]_vars

\* A call that has begun goes on when it can, and who is inside leaves.  Nobody
\* need call reset, or lock.
FairSpec == Spec /\ \A p \in Procs : WF_vars(Call(p))
-----------------------------------------------------------------------------
(* Properties.                                                             *)

\* Every variable keeps its type.
TypeOK ==
    /\ exists \in BOOLEAN /\ value \in Nat
    /\ pc \in [Procs -> {"absent", "idle", "wait", "inside", "post", "null"}]
    /\ lost \in 0 .. MaxLost /\ posts \in 0 .. MaxPosts /\ signals \in 0 .. MaxSignals

\* The binary semaphore excludes, over the ends and restarts of processes, until
\* there have been more posts of reset, and locks that a signal ended, than
\* holders were lost: at most one process is inside, and none can join it.  While
\* there have been fewer, nobody gets in: what a lost holder was working on is
\* left as it is until somebody calls reset.
MutualExclusion ==
    /\ posts + signals <= lost => Cardinality(Inside) + value <= 1
    /\ posts + signals < lost => Inside = {} /\ value = 0

\* How far the race of reset with the others goes.  The value read by reset is
\* old when it posts, so that the semaphore need not be binary any more; but
\* every post lets in at most one process too many.
ExcessBounded ==
    Cardinality(Inside) + value <= 1 + posts + signals

\* Nobody waits for ever in front of an empty section unless a holder was lost
\* and no reset has made up for it.
NoWaitWhileFree ==
    \A p \in Procs :
        (pc[p] = "wait" /\ posts >= lost) ~> (pc[p] # "wait" \/ Inside # {} \/ posts < lost)
=============================================================================
