--------------------------- MODULE NamedMutexProofs ---------------------------
(* Proofs of the invariants of NamedMutex, for any finite set of processes *)
(* and any number of losses, resets and signals.                           *)
EXTENDS NamedMutex, FiniteSetTheorems, TLAPS

\* The account of the semaphore: what there is of it, free or with somebody
\* inside, is what it was created with, less the lost, plus what was added.
Conserved ==
    IF exists
    THEN Cardinality(Inside) + value = 1 + posts + signals - lost
    ELSE /\ value = 0 /\ lost = 0 /\ posts = 0 /\ signals = 0
         /\ \A p \in Procs : pc[p] \in {"absent", "null"}

IInv == TypeOK /\ Conserved

LEMMA InsideFinite == IsFiniteSet(Inside) /\ Cardinality(Inside) \in Nat
<1>1. Inside \subseteq Procs
  BY DEF Inside
<1>2. IsFiniteSet(Inside)
  BY <1>1, ProcsAssumption, FS_Subset
<1> QED
  BY <1>2, FS_CardinalityType

\* One step of one process changes who is inside by that process at most.
LEMMA InsideStep ==
    ASSUME TypeOK, NEW p \in Procs, NEW l, Goto(p, l)
    PROVE  /\ p \notin Inside /\ l = "inside" => Cardinality(Inside') = Cardinality(Inside) + 1
           /\ p \in Inside /\ l # "inside" => Cardinality(Inside') = Cardinality(Inside) - 1
           /\ (p \in Inside <=> l = "inside") => Cardinality(Inside') = Cardinality(Inside)
<1>1. pc' = [pc EXCEPT ![p] = l] /\ pc \in [Procs -> {"absent", "idle", "wait", "inside", "post", "null"}]
  BY DEF TypeOK, Goto
<1>2. ASSUME p \notin Inside, l = "inside" PROVE Cardinality(Inside') = Cardinality(Inside) + 1
  <2>1. Inside' = Inside \cup {p}
    BY <1>1, <1>2 DEF Inside
  <2> QED
    BY <1>2, <2>1, InsideFinite, FS_AddElement
<1>3. ASSUME p \in Inside, l # "inside" PROVE Cardinality(Inside') = Cardinality(Inside) - 1
  <2>1. Inside' = Inside \ {p}
    BY <1>1, <1>3 DEF Inside
  <2> QED
    BY <1>3, <2>1, InsideFinite, FS_RemoveElement
<1>4. ASSUME p \in Inside <=> l = "inside" PROVE Cardinality(Inside') = Cardinality(Inside)
  <2>1. Inside' = Inside
    BY <1>1, <1>4 DEF Inside
  <2> QED
    BY <2>1
<1> QED
  BY <1>2, <1>3, <1>4

LEMMA InitIInv == Init => IInv
<1> SUFFICES ASSUME Init PROVE IInv
  OBVIOUS
<1>1. TypeOK
  <2>1. lost \in 0 .. MaxLost /\ posts \in 0 .. MaxPosts /\ signals \in 0 .. MaxSignals
    BY BoundsAssumption DEF Init
  <2>2. exists \in BOOLEAN
    BY Zenon DEF Init
  <2> QED
    BY <2>1, <2>2 DEF Init, TypeOK
<1>2. Conserved
  BY DEF Init, Conserved
<1> QED
  BY <1>1, <1>2 DEF IInv

\* Every action of a process keeps the types and the account.
LEMMA Step == ASSUME IInv, NEW p \in Procs,
                     \/ Construct(p) \/ ConstructFails(p) \/ Leave(p) \/ Lock(p)
                     \/ Interrupted(p) \/ ResetLook(p) \/ Call(p)
              PROVE  IInv'
<1> USE BoundsAssumption DEF IInv, TypeOK, sem, history
<1>1. Cardinality(Inside) \in Nat
  BY InsideFinite
<1>2. p \in Inside <=> pc[p] = "inside"
  BY DEF Inside
<1>3. CASE Construct(p)
  <2>1. TypeOK'
    BY <1>3 DEF Construct, Goto
  <2>2. Cardinality(Inside') = Cardinality(Inside)
    BY <1>2, <1>3, InsideStep DEF Construct
  <2>3. CASE exists
    <3>1. exists' /\ value' = value /\ posts' = posts /\ signals' = signals /\ lost' = lost
      BY <1>3, <2>3 DEF Construct
    <3> QED
      BY <2>1, <2>2, <2>3, <3>1 DEF Conserved
  <2>4. CASE ~exists
    <3>1. Inside = {}
      BY <2>4 DEF Conserved, Inside
    <3>2. Cardinality(Inside) = 0
      BY <3>1, FS_EmptySet
    <3> QED
      BY <1>3, <2>1, <2>2, <2>4, <3>2 DEF Construct, Conserved
  <2> QED
    BY <2>1, <2>3, <2>4
<1>4. CASE ConstructFails(p)
  <2>1. TypeOK'
    BY <1>4 DEF ConstructFails, Goto
  <2>2. Cardinality(Inside') = Cardinality(Inside)
    BY <1>2, <1>4, InsideStep DEF ConstructFails
  <2> QED
    BY <1>4, <2>1, <2>2 DEF ConstructFails, Conserved, Goto
<1>5. CASE Leave(p)
  <2>1. TypeOK'
    BY <1>2, <1>5 DEF Leave, Goto
  <2>2. p \in Inside => Cardinality(Inside') = Cardinality(Inside) - 1
    BY <1>2, <1>5, InsideStep DEF Leave
  <2>3. p \notin Inside => Cardinality(Inside') = Cardinality(Inside)
    BY <1>2, <1>5, InsideStep DEF Leave
  <2>4. ~exists => p \notin Inside
    BY <1>2 DEF Conserved
  <2> QED
    BY <1>1, <1>5, <2>1, <2>2, <2>3, <2>4 DEF Leave, Conserved, Goto
<1>6. CASE Lock(p)
  <2>1. TypeOK'
    BY <1>6 DEF Lock, Goto
  <2>2. Cardinality(Inside') = Cardinality(Inside)
    BY <1>2, <1>6, InsideStep DEF Lock
  <2> QED
    BY <1>6, <2>1, <2>2 DEF Lock, Conserved, Goto
<1>7. CASE Interrupted(p)
  <2>1. TypeOK'
    BY <1>7 DEF Interrupted, Goto
  <2>2. Cardinality(Inside') = Cardinality(Inside) + 1
    BY <1>2, <1>7, InsideStep DEF Interrupted
  <2> QED
    BY <1>1, <1>7, <2>1, <2>2 DEF Interrupted, Conserved
<1>8. CASE ResetLook(p)
  <2>1. TypeOK'
    BY <1>8 DEF ResetLook, Goto
  <2>2. Cardinality(Inside') = Cardinality(Inside)
    BY <1>2, <1>8, InsideStep DEF ResetLook
  <2> QED
    BY <1>8, <2>1, <2>2 DEF ResetLook, Conserved
<1>9. CASE Acquire(p)
  <2>1. TypeOK'
    BY <1>9 DEF Acquire, Goto
  <2>2. Cardinality(Inside') = Cardinality(Inside) + 1
    BY <1>2, <1>9, InsideStep DEF Acquire
  <2> QED
    BY <1>1, <1>9, <2>1, <2>2 DEF Acquire, Conserved
<1>10. CASE Unlock(p)
  <2>1. TypeOK'
    BY <1>10 DEF Unlock, Goto
  <2>2. Cardinality(Inside') = Cardinality(Inside) - 1
    BY <1>2, <1>10, InsideStep DEF Unlock
  <2> QED
    BY <1>1, <1>10, <2>1, <2>2 DEF Unlock, Conserved
<1>11. CASE ResetPost(p)
  <2>1. TypeOK'
    BY <1>11 DEF ResetPost, Goto
  <2>2. Cardinality(Inside') = Cardinality(Inside)
    BY <1>2, <1>11, InsideStep DEF ResetPost
  <2> QED
    BY <1>1, <1>11, <2>1, <2>2 DEF ResetPost, Conserved
<1> QED
  BY <1>3, <1>4, <1>5, <1>6, <1>7, <1>8, <1>9, <1>10, <1>11 DEF Call

\* IInv is an invariant of the specification.
THEOREM Invariance == Spec => []IInv
<1>1. IInv /\ [Next]_vars => IInv'
  <2> SUFFICES ASSUME IInv, [Next]_vars PROVE IInv'
    OBVIOUS
  <2>1. CASE Next
    BY <2>1, Step DEF Next
  <2>2. CASE UNCHANGED vars
    BY <2>2 DEF vars, sem, history, IInv, TypeOK, Conserved, Inside
  <2> QED
    BY <2>1, <2>2
<1> QED
  BY InitIInv, <1>1, PTL DEF Spec

\* Every variable keeps its type.
THEOREM TypeCorrect == Spec => []TypeOK
<1>1. IInv => TypeOK
  BY DEF IInv
<1> QED
  BY Invariance, <1>1, PTL

\* The named semaphore excludes over the ends and restarts of any number of
\* processes as long as reset is not called more often than holders were lost.
THEOREM MutualExclusionCorrect == Spec => []MutualExclusion
<1>1. IInv => MutualExclusion
  <2> SUFFICES ASSUME IInv PROVE MutualExclusion
    OBVIOUS
  <2> USE BoundsAssumption DEF IInv, TypeOK
  <2>1. Cardinality(Inside) \in Nat
    BY InsideFinite
  <2>2. CASE exists
    <3>1. posts + signals < lost => Cardinality(Inside) = 0 /\ value = 0
      BY <2>1, <2>2 DEF Conserved
    <3>2. Cardinality(Inside) = 0 => Inside = {}
      BY InsideFinite, FS_EmptySet
    <3> QED
      BY <2>1, <2>2, <3>1, <3>2 DEF Conserved, MutualExclusion
  <2>3. CASE ~exists
    <3>1. Inside = {}
      BY <2>3 DEF Conserved, Inside
    <3>2. Cardinality(Inside) = 0
      BY <3>1, FS_EmptySet
    <3> QED
      BY <2>3, <3>2 DEF Conserved, MutualExclusion
  <2> QED
    BY <2>2, <2>3
<1> QED
  BY Invariance, <1>1, PTL

\* Every post of reset, and every lock ended by a signal, lets in at most one
\* process too many, whatever they race with.
THEOREM ExcessBoundedCorrect == Spec => []ExcessBounded
<1>1. IInv => ExcessBounded
  <2> SUFFICES ASSUME IInv PROVE ExcessBounded
    OBVIOUS
  <2> USE BoundsAssumption DEF IInv, TypeOK
  <2>1. Cardinality(Inside) \in Nat
    BY InsideFinite
  <2>2. ~exists => Inside = {}
    BY DEF Conserved, Inside
  <2>3. ~exists => Cardinality(Inside) = 0
    BY <2>2, FS_EmptySet
  <2> QED
    BY <2>1, <2>3 DEF Conserved, ExcessBounded
<1> QED
  BY Invariance, <1>1, PTL
=============================================================================
