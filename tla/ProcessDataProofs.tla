-------------------------- MODULE ProcessDataProofs --------------------------
(***************************************************************************)
(* Proofs about ProcessData, for every number of words, every ring size    *)
(* from 2, every even counter range and every bound.                       *)
(***************************************************************************)
EXTENDS ProcessData, TLAPS

USE DEF vars, shared, ring, rtlocal, rtvars, receive, appvars, chip, inhist, outhist

\* The steps of the next-state relation, one disjunct per action.
LEMMA NextCases ==
    ASSUME Next
    PROVE  \/ RtWake \/ RtReadWatchdog \/ RtReadAlStatus \/ RtReset
           \/ RtBeginRead \/ RtReadFifo \/ RtEndRead \/ RtLoadIndex \/ RtWriteFifo
           \/ ReceiveFirst \/ ReceiveLast \/ ReceiveCheck \/ SendPublish \/ AppSleep
           \/ MasterWrite \/ WatchdogExpires \/ MasterSetState
           \/ \E w \in Words : RtPublishWord(w)
           \/ \E w \in Words : RtCopyWord(w)
           \/ \E w \in Words : ReceiveWord(w)
           \/ \E w \in Words : SendWord(w)
           \/ \E w \in Words : SendWordLate(w)
  BY DEF Next, RtNext, AppNext, EnvNext

\* The increment of m_atomiccounter stays in range and changes the parity.
LEMMA IncFacts ==
    ASSUME NEW c \in 0 .. CounterMod - 1
    PROVE  /\ Inc(c) \in 0 .. CounterMod - 1
           /\ Inc(c) % 2 = 1 <=> c % 2 = 0
  BY CounterModAssumption DEF Inc

\* The successor of a slot is a slot.
LEMMA NextQFacts ==
    ASSUME NEW i \in Slots
    PROVE  NextQ(i) \in Slots
  BY QINSizeAssumption DEF NextQ, Slots

\* SendWord stores one word of one slot and leaves every other word alone.
LEMMA SendWordStore ==
    ASSUME TypeOK, NEW w \in Words, SendWord(w)
    PROVE  \A j \in Slots, v \in Words :
               fromSlaveBufferIn'[j][v] = IF j = m_curqidx /\ v = w THEN sent + 1
                                          ELSE fromSlaveBufferIn[j][v]
  <1>1. /\ fromSlaveBufferIn \in [Slots -> Buffers] /\ m_curqidx \in Slots
        /\ fromSlaveBufferIn' = [fromSlaveBufferIn EXCEPT ![m_curqidx][w] = sent + 1]
    BY DEF TypeOK, SendWord
  <1> TAKE j \in Slots, v \in Words
  <1> QED
    BY <1>1 DEF Buffers

\* A buffer of zeroes, as after a reset, is a buffer.
LEMMA ZeroesType == Zeroes \in Buffers
  BY DEF Zeroes, Buffers

-----------------------------------------------------------------------------
(* Type correctness.                                                       *)

\* The zeroes of static storage are well typed.
LEMMA TypeInit == Init => TypeOK
  <1> SUFFICES ASSUME Init PROVE TypeOK
    OBVIOUS
  <1>1. 0 \in Slots
    BY QINSizeAssumption DEF Slots
  <1>2. fromSlaveBufferIn \in [Slots -> Buffers]
    BY ZeroesType DEF Init
  <1>3. /\ 0 \in 0 .. CounterMod - 1 /\ 0 \in 0 .. CounterMod
        /\ 0 \in 0 .. QINSize - 1 /\ 0 \in 0 .. MaxFrames /\ 0 \in 0 .. MaxSends
    BY CounterModAssumption, QINSizeAssumption, BoundsAssumption
  <1> QED
    BY <1>1, <1>2, <1>3, ZeroesType DEF Init, TypeOK

\* Every step of either thread, of the master and of the chip keeps the types.
LEMMA TypeNext == TypeOK /\ [Next]_vars => TypeOK'
  <1> SUFFICES ASSUME TypeOK, [Next]_vars PROVE TypeOK'
    OBVIOUS
  <1> USE CounterModAssumption, QINSizeAssumption, BoundsAssumption DEF TypeOK
  <1>1. CASE UNCHANGED vars
    BY <1>1
  <1>2. CASE RtWake
    BY <1>2 DEF RtWake
  <1>3. CASE RtReadWatchdog
    BY <1>3 DEF RtReadWatchdog
  <1>4. CASE RtReadAlStatus
    BY <1>4 DEF RtReadAlStatus
  <1>5. CASE RtReset
    BY <1>5, ZeroesType DEF RtReset
  <1>6. CASE RtBeginRead
    BY <1>6, IncFacts DEF RtBeginRead, BumpCounter
  <1>7. CASE RtReadFifo
    <2>1. BufferOut' \in Buffers
      BY <1>7 DEF RtReadFifo, Buffers
    <2> QED
      BY <1>7, <2>1 DEF RtReadFifo
  <1>8. CASE RtEndRead
    <2>1. base' \in Nat
      BY <1>8 DEF RtEndRead, Buffers
    <2> QED
      BY <1>8, <2>1, IncFacts DEF RtEndRead, BumpCounter
  <1>9. CASE RtLoadIndex
    BY <1>9 DEF RtLoadIndex
  <1>10. CASE RtWriteFifo
    BY <1>10 DEF RtWriteFifo
  <1>11. CASE ReceiveFirst
    BY <1>11 DEF ReceiveFirst
  <1>12. CASE ReceiveLast
    BY <1>12 DEF ReceiveLast
  <1>13. CASE ReceiveCheck
    BY <1>13 DEF ReceiveCheck
  <1>14. CASE SendPublish
    BY <1>14, NextQFacts DEF SendPublish
  <1>15. CASE AppSleep
    BY <1>15 DEF AppSleep
  <1>16. CASE MasterWrite
    <2>1. outputRam' \in 0 .. MaxFrames
      BY <1>16 DEF MasterWrite
    <2> QED
      BY <1>16, <2>1 DEF MasterWrite
  <1>17. CASE WatchdogExpires
    BY <1>17 DEF WatchdogExpires
  <1>18. CASE MasterSetState
    BY <1>18 DEF MasterSetState
  <1>19. CASE \E w \in Words : RtPublishWord(w)
    <2> PICK w \in Words : RtPublishWord(w)
      BY <1>19
    <2>1. m_BufferOutEthToSlaveBuffer' \in Buffers
      BY DEF RtPublishWord, Buffers
    <2> QED
      BY <2>1 DEF RtPublishWord
  <1>20. CASE \E w \in Words : RtCopyWord(w)
    <2> PICK w \in Words : RtCopyWord(w)
      BY <1>20
    <2>1. BufferIn' \in Buffers
      BY DEF RtCopyWord, Buffers
    <2> QED
      BY <2>1 DEF RtCopyWord
  <1>21. CASE \E w \in Words : ReceiveWord(w)
    <2> PICK w \in Words : ReceiveWord(w)
      BY <1>21
    <2>1. BufferfromEthCAT' \in Buffers
      BY DEF ReceiveWord, Buffers
    <2> QED
      BY <2>1 DEF ReceiveWord
  <1>22. CASE \E w \in Words : SendWord(w)
    <2> PICK w \in Words : SendWord(w)
      BY <1>22
    <2>1. fromSlaveBufferIn' \in [Slots -> Buffers]
      BY DEF SendWord, Buffers
    <2> QED
      BY <2>1 DEF SendWord
  <1>23. CASE \E w \in Words : SendWordLate(w)
    <2> PICK w \in Words : SendWordLate(w)
      BY <1>23
    <2>1. fromSlaveBufferIn' \in [Slots -> Buffers]
      BY DEF SendWordLate, Buffers
    <2> QED
      BY <2>1 DEF SendWordLate
  <1> QED
    BY <1>1, <1>2, <1>3, <1>4, <1>5, <1>6, <1>7, <1>8, <1>9, <1>10, <1>11, <1>12,
       <1>13, <1>14, <1>15, <1>16, <1>17, <1>18, <1>19, <1>20, <1>21, <1>22, <1>23,
       NextCases

\* Every reachable state is well typed: the indexes of send_output never leave
\* the ring and the counters stay in range, in every memory order.
THEOREM TypeCorrect == Spec => []TypeOK
  BY TypeInit, TypeNext, PTL DEF Spec

-----------------------------------------------------------------------------
(* The frame of the master: receive_input against SPIReadProcRamFifo.      *)

\* The counter is odd exactly while SPIReadProcRamFifo is at work.
ParityInv == m_atomiccounter % 2 = 1 <=> rt \in {"fifo", "publish"}

\* The shared buffer holds the frame base; while it is replaced, the words
\* already stored are those of BufferOut, which holds one frame, not older.
SharedInv ==
    /\ base <= outputRam
    /\ rt # "publish" => \A w \in Words : m_BufferOutEthToSlaveBuffer[w] = base
    /\ rt = "publish" =>
           \E f \in 0 .. MaxFrames :
               /\ base <= f /\ f <= outputRam
               /\ \A w \in Words :
                      /\ BufferOut[w] = f
                      /\ m_BufferOutEthToSlaveBuffer[w] = IF w \in rtleft THEN base ELSE f

\* The distance of m_atomiccounter from localcounter during a copy.
MovedInv ==
    (app = "last" /\ moved < CounterMod) =>
        \/ m_atomiccounter = localcounter + moved
        \/ m_atomiccounter = localcounter + moved - CounterMod

\* The part of a copy made so far, if the counter has not moved since it began:
\* words of the frame base, or of the frame being published.
CopyInv ==
    (app = "last" /\ moved = 0) =>
        /\ rbase = base
        /\ \A w \in Words \ appleft :
               \/ BufferfromEthCAT[w] = base
               \/ rt = "publish" /\ BufferfromEthCAT[w] = BufferOut[w]

\* What InputTearBounded says of the copy that receive_input returns.
Accepted ==
    /\ \E f \in 0 .. MaxFrames : \A w \in Words : BufferfromEthCAT[w] \in {rbase, f}
    /\ \A w \in Words : BufferfromEthCAT[w] >= rbase
    /\ localcounter % 2 = 0 => BufferfromEthCAT = [w \in Words |-> rbase]

\* The copy is acceptable from the second load of the counter on.
AcceptedInv ==
    /\ app = "first" => appleft = Words
    /\ app = "check" => appleft = {}
    /\ (app = "check" /\ localcounter = lastcounter /\ moved < CounterMod) => Accepted
    /\ (app \in {"send", "sleep"} /\ moved < CounterMod) => Accepted

\* The inductive invariant behind InputTearBounded.
InputInv == ParityInv /\ SharedInv /\ MovedInv /\ CopyInv /\ AcceptedInv

-----------------------------------------------------------------------------
(* The frame of the application: send_output against SPIWriteProcRamFifo.  *)

\* Slot m_curqoutidx holds the newest announced frame, m_curqidx is the next
\* slot and holds what send_output has stored of the frame to come.
RingInv ==
    /\ sent = 0 => m_curqidx = 0 /\ m_curqoutidx = 0
    /\ sent > 0 =>
           /\ m_curqidx = NextQ(m_curqoutidx)
           /\ \A w \in Words : fromSlaveBufferIn[m_curqoutidx][w] = sent
    /\ app = "sleep" => appleft = {}
    /\ app = "send" =>
           \A w \in Words \ appleft : fromSlaveBufferIn[m_curqidx][w] = sent + 1

\* While the real-time thread copies slot rtidx, the slot to be written next is
\* laps + 1 slots ahead and has not come round to rtidx.
LapInv ==
    (rt = "copy" /\ rtsent > 0 /\ laps < QINSize - 1) =>
        /\ \/ m_curqidx = rtidx + 1 + laps
           \/ m_curqidx = rtidx + 1 + laps - QINSize
        /\ \A w \in Words : fromSlaveBufferIn[rtidx][w] = rtsent
        /\ \A w \in Words \ rtleft : BufferIn[w] = rtsent

\* The inductive invariant behind OutputIntact.
OutputInv == RingInv /\ LapInv /\ OutputIntact

\* The input invariant holds when both threads have been started.
LEMMA InputInit == Init => InputInv
  BY CounterModAssumption, BoundsAssumption, WordsAssumption
  DEF Init, InputInv, ParityInv, SharedInv, MovedInv, CopyInv, AcceptedInv, Zeroes

\* With accesses in program order, every step keeps the input invariant.  The
\* steps that matter are the two increments of SPIReadProcRamFifo, its stores
\* into the shared buffer and the loads of receive_input.
LEMMA InputNext ==
    ASSUME InOrder, TypeOK, InputInv, [Next]_vars
    PROVE  InputInv'
  <1> USE CounterModAssumption, BoundsAssumption, WordsAssumption, IncFacts
      DEF TypeOK, InputInv, ParityInv, SharedInv, MovedInv, CopyInv, Accepted,
          AcceptedInv, Buffers, BumpCounter
  <1>1. CASE UNCHANGED vars
    BY <1>1
  <1>2. CASE RtWake
    BY <1>2 DEF RtWake
  <1>3. CASE RtReadWatchdog
    BY <1>3 DEF RtReadWatchdog
  <1>4. CASE RtReadAlStatus
    BY <1>4 DEF RtReadAlStatus
  <1>5. CASE RtReset
    BY <1>5 DEF RtReset
  <1>6. CASE RtBeginRead
    <2>1. ParityInv'
      BY <1>6 DEF RtBeginRead
    <2>2. SharedInv'
      BY <1>6 DEF RtBeginRead
    <2>3. MovedInv'
      BY <1>6 DEF RtBeginRead, Inc
    <2>4. CopyInv'
      BY <1>6 DEF RtBeginRead
    <2>5. AcceptedInv'
      BY <1>6 DEF RtBeginRead
    <2> QED
      BY <2>1, <2>2, <2>3, <2>4, <2>5
  <1>7. CASE RtReadFifo
    <2>1. ParityInv'
      BY <1>7 DEF RtReadFifo
    <2>2. SharedInv'
      <3>1. /\ rt' = "publish" /\ base' = base /\ outputRam' = outputRam
            /\ outputRam \in 0 .. MaxFrames /\ base <= outputRam
        BY <1>7 DEF RtReadFifo
      <3>2. \A w \in Words :
                /\ BufferOut'[w] = outputRam
                /\ m_BufferOutEthToSlaveBuffer'[w] = IF w \in rtleft' THEN base ELSE outputRam
        BY <1>7 DEF RtReadFifo
      <3> QED
        BY <3>1, <3>2
    <2>3. MovedInv'
      BY <1>7 DEF RtReadFifo
    <2>4. CopyInv'
      BY <1>7 DEF RtReadFifo
    <2>5. AcceptedInv'
      BY <1>7 DEF RtReadFifo
    <2> QED
      BY <2>1, <2>2, <2>3, <2>4, <2>5
  <1>8. CASE RtEndRead
    <2>1. ParityInv'
      BY <1>8 DEF RtEndRead
    <2>2. SharedInv'
      BY <1>8 DEF RtEndRead
    <2>3. MovedInv'
      BY <1>8 DEF RtEndRead, Inc
    <2>4. CopyInv'
      BY <1>8 DEF RtEndRead
    <2>5. AcceptedInv'
      BY <1>8 DEF RtEndRead
    <2> QED
      BY <2>1, <2>2, <2>3, <2>4, <2>5
  <1>9. CASE RtLoadIndex
    BY <1>9 DEF RtLoadIndex
  <1>10. CASE RtWriteFifo
    BY <1>10 DEF RtWriteFifo
  <1>11. CASE ReceiveFirst
    BY <1>11 DEF ReceiveFirst
  <1>12. CASE ReceiveLast
    BY <1>12 DEF ReceiveLast
  <1>13. CASE ReceiveCheck
    BY <1>13 DEF ReceiveCheck
  <1>14. CASE SendPublish
    BY <1>14 DEF SendPublish
  <1>15. CASE AppSleep
    BY <1>15 DEF AppSleep
  <1>16. CASE MasterWrite
    BY <1>16 DEF MasterWrite
  <1>17. CASE WatchdogExpires
    BY <1>17 DEF WatchdogExpires
  <1>18. CASE MasterSetState
    BY <1>18 DEF MasterSetState
  <1>19. CASE \E w \in Words : RtPublishWord(w)
    BY <1>19 DEF RtPublishWord
  <1>20. CASE \E w \in Words : RtCopyWord(w)
    BY <1>20 DEF RtCopyWord
  <1>21. CASE \E w \in Words : ReceiveWord(w)
    BY <1>21 DEF ReceiveWord
  <1>22. CASE \E w \in Words : SendWord(w)
    BY <1>22 DEF SendWord
  <1>23. CASE \E w \in Words : SendWordLate(w)
    BY <1>23 DEF SendWordLate
  <1> QED
    BY <1>1, <1>2, <1>3, <1>4, <1>5, <1>6, <1>7, <1>8, <1>9, <1>10, <1>11, <1>12,
       <1>13, <1>14, <1>15, <1>16, <1>17, <1>18, <1>19, <1>20, <1>21, <1>22, <1>23,
       NextCases

\* The output invariant holds when both threads have been started.
LEMMA OutputInit == Init => OutputInv
  BY QINSizeAssumption DEF Init, OutputInv, RingInv, LapInv, OutputIntact, Zeroes

\* With accesses in program order, every step keeps the output invariant.  The
\* steps that matter are the stores of send_output, which must miss the slot
\* being transmitted, and its announcement, which moves one slot on.
LEMMA OutputNext ==
    ASSUME InOrder, TypeOK, OutputInv, [Next]_vars
    PROVE  OutputInv'
  <1> USE QINSizeAssumption, BoundsAssumption, WordsAssumption
      DEF TypeOK, OutputInv, RingInv, LapInv, OutputIntact, Buffers, NextQ, Slots
  <1>1. CASE UNCHANGED vars
    BY <1>1
  <1>2. CASE RtWake
    BY <1>2 DEF RtWake
  <1>3. CASE RtReadWatchdog
    BY <1>3 DEF RtReadWatchdog
  <1>4. CASE RtReadAlStatus
    BY <1>4 DEF RtReadAlStatus
  <1>5. CASE RtReset
    BY <1>5 DEF RtReset
  <1>6. CASE RtBeginRead
    BY <1>6 DEF RtBeginRead
  <1>7. CASE RtReadFifo
    BY <1>7 DEF RtReadFifo
  <1>8. CASE RtEndRead
    BY <1>8 DEF RtEndRead
  <1>9. CASE RtLoadIndex
    BY <1>9 DEF RtLoadIndex
  <1>10. CASE RtWriteFifo
    BY <1>10 DEF RtWriteFifo
  <1>11. CASE ReceiveFirst
    BY <1>11 DEF ReceiveFirst
  <1>12. CASE ReceiveLast
    BY <1>12 DEF ReceiveLast
  <1>13. CASE ReceiveCheck
    BY <1>13 DEF ReceiveCheck
  <1>14. CASE SendPublish
    <2>1. RingInv'
      <3>1. \A w \in Words : fromSlaveBufferIn'[m_curqoutidx'][w] = sent'
        BY <1>14 DEF SendPublish
      <3>2. m_curqidx' = NextQ(m_curqoutidx') /\ app' = "sleep" /\ sent' > 0
        BY <1>14 DEF SendPublish
      <3>3. appleft' = {}
        BY <1>14 DEF SendPublish
      <3> QED
        BY <3>1, <3>2, <3>3
    <2>2. LapInv'
      <3>1. SUFFICES ASSUME rt = "copy", rtsent > 0, laps' < QINSize - 1
                     PROVE  LapInv'
        BY <1>14 DEF SendPublish
      <3>2. laps' = laps + 1
        BY <1>14, <3>1 DEF SendPublish
      <3>3. \/ m_curqidx' = rtidx' + 1 + laps'
            \/ m_curqidx' = rtidx' + 1 + laps' - QINSize
        <4>1. m_curqidx = rtidx + 1 + laps \/ m_curqidx = rtidx + 1 + laps - QINSize
          BY <1>14, <3>1, <3>2 DEF SendPublish
        <4>2. /\ m_curqidx' = IF m_curqidx + 1 >= QINSize THEN 0 ELSE m_curqidx + 1
              /\ rtidx' = rtidx
          BY <1>14 DEF SendPublish
        <4>3. m_curqidx \in 0 .. QINSize - 1 /\ rtidx \in 0 .. QINSize - 1 /\ laps \in Nat
          OBVIOUS
        <4> HIDE DEF TypeOK, OutputInv, RingInv, LapInv, OutputIntact, Buffers
        <4> QED
          BY <3>1, <3>2, <4>1, <4>2, <4>3
      <3>4. /\ UNCHANGED <<rt, rtsent, rtidx, rtleft, fromSlaveBufferIn, BufferIn>>
            /\ laps < QINSize - 1
        BY <1>14, <3>1, <3>2 DEF SendPublish, rtvars
      <3>5. /\ \A w \in Words : fromSlaveBufferIn'[rtidx'][w] = rtsent'
            /\ \A w \in Words \ rtleft' : BufferIn'[w] = rtsent'
        BY <3>1, <3>4
      <3> QED
        BY <3>3, <3>5
    <2>3. OutputIntact'
      BY <1>14 DEF SendPublish
    <2> QED
      BY <2>1, <2>2, <2>3
  <1>15. CASE AppSleep
    BY <1>15 DEF AppSleep
  <1>16. CASE MasterWrite
    BY <1>16 DEF MasterWrite
  <1>17. CASE WatchdogExpires
    BY <1>17 DEF WatchdogExpires
  <1>18. CASE MasterSetState
    BY <1>18 DEF MasterSetState
  <1>19. CASE \E w \in Words : RtPublishWord(w)
    BY <1>19 DEF RtPublishWord
  <1>20. CASE \E w \in Words : RtCopyWord(w)
    BY <1>20 DEF RtCopyWord
  <1>21. CASE \E w \in Words : ReceiveWord(w)
    BY <1>21 DEF ReceiveWord
  <1>22. CASE \E w \in Words : SendWord(w)
    <2> PICK w \in Words : SendWord(w)
      BY <1>22
    <2>a. m_curqidx # m_curqoutidx \/ sent = 0
      OBVIOUS
    <2>b. \A j \in Slots, v \in Words :
              fromSlaveBufferIn'[j][v] = IF j = m_curqidx /\ v = w THEN sent + 1
                                         ELSE fromSlaveBufferIn[j][v]
      BY SendWordStore
    <2>1. RingInv'
      <3>1. \A v \in Words \ appleft' : fromSlaveBufferIn'[m_curqidx][v] = sent + 1
        BY <2>b DEF SendWord
      <3>2. sent > 0 => \A v \in Words : fromSlaveBufferIn'[m_curqoutidx][v] = sent
        BY <2>a, <2>b DEF SendWord
      <3> QED
        BY <3>1, <3>2 DEF SendWord
    <2>2. LapInv'
      <3>1. SUFFICES ASSUME rt = "copy", rtsent > 0, laps < QINSize - 1
                     PROVE  LapInv'
        BY DEF SendWord
      <3>2. m_curqidx # rtidx
        BY <3>1
      <3>3. \A v \in Words : fromSlaveBufferIn'[rtidx][v] = rtsent
        BY <3>1, <3>2, <2>b
      <3> QED
        BY <3>1, <3>3 DEF SendWord
    <2>3. OutputIntact'
      BY DEF SendWord
    <2> QED
      BY <2>1, <2>2, <2>3
  <1>23. CASE \E w \in Words : SendWordLate(w)
    BY <1>23 DEF SendWordLate
  <1> QED
    BY <1>1, <1>2, <1>3, <1>4, <1>5, <1>6, <1>7, <1>8, <1>9, <1>10, <1>11, <1>12,
       <1>13, <1>14, <1>15, <1>16, <1>17, <1>18, <1>19, <1>20, <1>21, <1>22, <1>23,
       NextCases

-----------------------------------------------------------------------------
(* The words of the master's frames never go back, in any memory order.    *)

\* The application's words lag behind the shared ones, never run ahead.
LagInv == SharedInv /\ \A w \in Words : BufferfromEthCAT[w] <= m_BufferOutEthToSlaveBuffer[w]

\* The lag invariant holds when both threads have been started.
LEMMA LagInit == Init => LagInv
  BY BoundsAssumption DEF Init, LagInv, SharedInv, Zeroes

\* Every step keeps the lag invariant, in any memory order.
LEMMA LagNext ==
    ASSUME TypeOK, LagInv, [Next]_vars
    PROVE  LagInv'
  <1> USE BoundsAssumption, WordsAssumption DEF TypeOK, LagInv, SharedInv, Buffers
  <1>1. CASE UNCHANGED vars
    BY <1>1
  <1>2. CASE RtWake
    BY <1>2 DEF RtWake
  <1>3. CASE RtReadWatchdog
    BY <1>3 DEF RtReadWatchdog
  <1>4. CASE RtReadAlStatus
    BY <1>4 DEF RtReadAlStatus
  <1>5. CASE RtReset
    BY <1>5 DEF RtReset
  <1>6. CASE RtBeginRead
    BY <1>6 DEF RtBeginRead, BumpCounter
  <1>7. CASE RtReadFifo
    <2>1. /\ rt' = "publish" /\ base' = base /\ outputRam' = outputRam
          /\ outputRam \in 0 .. MaxFrames /\ base <= outputRam
      BY <1>7 DEF RtReadFifo
    <2>2. \A w \in Words :
              /\ BufferOut'[w] = outputRam
              /\ m_BufferOutEthToSlaveBuffer'[w] = IF w \in rtleft' THEN base ELSE outputRam
      BY <1>7 DEF RtReadFifo
    <2>3. UNCHANGED <<BufferfromEthCAT, m_BufferOutEthToSlaveBuffer>>
      BY <1>7 DEF RtReadFifo
    <2> QED
      BY <2>1, <2>2, <2>3
  <1>8. CASE RtEndRead
    BY <1>8 DEF RtEndRead, BumpCounter
  <1>9. CASE RtLoadIndex
    BY <1>9 DEF RtLoadIndex
  <1>10. CASE RtWriteFifo
    BY <1>10 DEF RtWriteFifo
  <1>11. CASE ReceiveFirst
    BY <1>11 DEF ReceiveFirst
  <1>12. CASE ReceiveLast
    BY <1>12 DEF ReceiveLast
  <1>13. CASE ReceiveCheck
    BY <1>13 DEF ReceiveCheck
  <1>14. CASE SendPublish
    BY <1>14 DEF SendPublish
  <1>15. CASE AppSleep
    BY <1>15 DEF AppSleep
  <1>16. CASE MasterWrite
    BY <1>16 DEF MasterWrite
  <1>17. CASE WatchdogExpires
    BY <1>17 DEF WatchdogExpires
  <1>18. CASE MasterSetState
    BY <1>18 DEF MasterSetState
  <1>19. CASE \E w \in Words : RtPublishWord(w)
    BY <1>19 DEF RtPublishWord
  <1>20. CASE \E w \in Words : RtCopyWord(w)
    BY <1>20 DEF RtCopyWord
  <1>21. CASE \E w \in Words : ReceiveWord(w)
    BY <1>21 DEF ReceiveWord
  <1>22. CASE \E w \in Words : SendWord(w)
    BY <1>22 DEF SendWord
  <1>23. CASE \E w \in Words : SendWordLate(w)
    BY <1>23 DEF SendWordLate
  <1> QED
    BY <1>1, <1>2, <1>3, <1>4, <1>5, <1>6, <1>7, <1>8, <1>9, <1>10, <1>11, <1>12,
       <1>13, <1>14, <1>15, <1>16, <1>17, <1>18, <1>19, <1>20, <1>21, <1>22, <1>23,
       NextCases

\* Only ReceiveWord changes the application's words, and it takes a shared one.
LEMMA LagStep ==
    ASSUME TypeOK, LagInv, [Next]_vars, BufferfromEthCAT' # BufferfromEthCAT
    PROVE  \A w \in Words : BufferfromEthCAT'[w] >= BufferfromEthCAT[w]
  <1>1. PICK v \in Words : ReceiveWord(v)
    BY NextCases
    DEF RtWake, RtReadWatchdog, RtReadAlStatus, RtReset, RtBeginRead, RtReadFifo,
        RtEndRead, RtLoadIndex, RtWriteFifo, RtPublishWord, RtCopyWord, ReceiveFirst,
        ReceiveLast, ReceiveCheck, SendPublish, AppSleep, SendWord, SendWordLate,
        MasterWrite, WatchdogExpires, MasterSetState
  <1> QED
    BY <1>1 DEF ReceiveWord, TypeOK, LagInv, Buffers

-----------------------------------------------------------------------------
(* Theorems.                                                               *)

\* receive_input, in program order: whatever the ranges, the copy it returns
\* mixes at most two frames, has nothing older than the frame complete when it
\* began, and is that frame if the counter was even (rpi_base.cpp, the loop on
\* m_atomiccounter against the two increments of SPIReadProcRamFifo).
THEOREM InputTearCorrect ==
    ASSUME InOrder
    PROVE  Spec => []InputTearBounded
  <1>1. InputInv /\ TypeOK => InputTearBounded
    BY DEF InputInv, AcceptedInv, Accepted, InputTearBounded, Receiving, TypeOK
  <1>2. InputInv /\ TypeOK /\ [Next]_vars => InputInv'
    BY InputNext
  <1> QED
    BY <1>1, <1>2, InputInit, TypeCorrect, PTL DEF Spec

\* send_output and SPIWriteProcRamFifo, in program order: for every ring size
\* the transmitted frame is whole and the newest announced, unless QINSize - 1
\* calls of send_output end during one copy or none had ended before it.
THEOREM OutputIntactCorrect ==
    ASSUME InOrder
    PROVE  Spec => []OutputIntact
  <1>1. OutputInv => OutputIntact
    BY DEF OutputInv
  <1>2. OutputInv /\ TypeOK /\ [Next]_vars => OutputInv'
    BY OutputNext
  <1> QED
    BY <1>1, <1>2, OutputInit, TypeCorrect, PTL DEF Spec

\* receive_input, in any order of its loads: no word of the application's buffer
\* is ever replaced by a word of an older frame.
THEOREM InputNeverGoesBackCorrect == Spec => InputNeverGoesBack
  <1>1. LagInv /\ TypeOK /\ [Next]_vars => LagInv'
    BY LagNext
  <1>2. LagInv /\ TypeOK /\ [Next]_vars =>
            [\A w \in Words : BufferfromEthCAT'[w] >= BufferfromEthCAT[w]]_BufferfromEthCAT
    BY LagStep
  <1> QED
    BY <1>1, <1>2, LagInit, TypeCorrect, PTL DEF Spec, InputNeverGoesBack
=============================================================================
