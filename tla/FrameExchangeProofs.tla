-------------------------- MODULE FrameExchangeProofs --------------------------
(***************************************************************************)
(* Proof that ProcessData implements FrameExchange, in every memory order, *)
(* and of what a transmitted frame may consist of without program order.   *)
(*                                                                         *)
(* Both rest on SlotInv, which says exactly what every slot of the ring    *)
(* holds: the frame announced so many calls of send_output ago as the slot *)
(* is behind m_curqoutidx, apart from the stores of the frame that is      *)
(* being sent and from those that are still to be seen.                    *)
(***************************************************************************)
EXTENDS ProcessDataProofs

USE DEF vars, shared, ring, rtlocal, rtvars, receive, appvars, chip, inhist, outhist

\* Frames are numbered from 1; before that there are zeroes.
Frame(n) == IF n > 0 THEN n ELSE 0

\* How many slots j is behind the announced one.
Age(j) == IF j <= m_curqoutidx THEN m_curqoutidx - j ELSE m_curqoutidx - j + QINSize

SlotInv ==
    /\ sent = 0 => m_curqidx = 0 /\ m_curqoutidx = 0
    /\ sent > 0 => m_curqidx = NextQ(m_curqoutidx)
    /\ app = "sleep" => sent > 0 /\ (InOrder => appleft = {})
    /\ \A j \in Slots, w \in Words :
          fromSlaveBufferIn[j][w] =
              IF j = m_curqidx /\ app = "send" /\ w \notin appleft THEN sent + 1
              ELSE IF j = m_curqoutidx /\ app = "sleep" /\ w \in appleft
                   THEN Frame(sent - QINSize) ELSE Frame(sent - Age(j))

\* What the cycle copies is between the oldest and the newest frame allowed.
CopiedInv ==
    rt = "copy" =>
        /\ rtsent <= sent
        /\ \A w \in Words : rtsent - Lag <= fromSlaveBufferIn[rtidx][w]
        /\ \A w \in Words \ rtleft : rtsent - Lag <= BufferIn[w] /\ BufferIn[w] <= begun

\* While the copy is not lapped, the slot copied holds the frame announced, or what
\* it held one lap before.
StaleInv ==
    (rt = "copy" /\ rtsent > 0 /\ laps < QINSize - 1) =>
        /\ \/ m_curqidx = rtidx + 1 + laps
           \/ m_curqidx = rtidx + 1 + laps - QINSize
        /\ sent = rtsent + laps
        /\ \A w \in Words : fromSlaveBufferIn[rtidx][w] \in {rtsent, Frame(rtsent - QINSize)}
        /\ \A w \in Words \ rtleft : BufferIn[w] \in {rtsent, Frame(rtsent - QINSize)}

\* SendWordLate stores one word of one slot and leaves every other word alone.
LEMMA SendWordLateStore ==
    ASSUME TypeOK, NEW w \in Words, SendWordLate(w)
    PROVE  \A j \in Slots, v \in Words :
               fromSlaveBufferIn'[j][v] = IF j = m_curqoutidx /\ v = w THEN sent
                                          ELSE fromSlaveBufferIn[j][v]
<1>1. /\ fromSlaveBufferIn \in [Slots -> Buffers] /\ m_curqoutidx \in Slots
      /\ fromSlaveBufferIn' = [fromSlaveBufferIn EXCEPT ![m_curqoutidx][w] = sent]
  BY DEF TypeOK, SendWordLate
<1> TAKE j \in Slots, v \in Words
<1> QED
  BY <1>1 DEF Buffers

LEMMA SlotInit == Init => SlotInv
<1> SUFFICES ASSUME Init PROVE SlotInv
  OBVIOUS
<1>1. \A j \in Slots, w \in Words : fromSlaveBufferIn[j][w] = 0
  BY DEF Init, Zeroes
<1>2. \A j \in Slots : Frame(sent - Age(j)) = 0
  BY QINSizeAssumption DEF Init, Frame, Age, Slots
<1> QED
  BY <1>1, <1>2 DEF Init, SlotInv

\* The steps that do not touch the ring keep SlotInv, if the words which are being
\* sent, or to be seen late, remain the same.
LEMMA SlotFrame ==
    ASSUME SlotInv, UNCHANGED <<ring, sent>>,
           app' = "sleep" => app = "sleep",
           \A w \in Words :
               /\ (app = "send" /\ w \notin appleft) <=> (app' = "send" /\ w \notin appleft')
               /\ (app = "sleep" /\ w \in appleft) <=> (app' = "sleep" /\ w \in appleft'),
           InOrder /\ app' = "sleep" => appleft' = {}
    PROVE  SlotInv'
<1>1. \A j \in Slots : Age(j)' = Age(j)
  BY DEF Age
<1>2. NextQ(m_curqoutidx)' = NextQ(m_curqoutidx)
  BY DEF NextQ
<1>3. \A j \in Slots, w \in Words :
          fromSlaveBufferIn'[j][w] =
              IF j = m_curqidx' /\ app' = "send" /\ w \notin appleft' THEN sent' + 1
              ELSE IF j = m_curqoutidx' /\ app' = "sleep" /\ w \in appleft'
                   THEN Frame(sent' - QINSize) ELSE Frame(sent' - Age(j)')
  BY <1>1 DEF SlotInv
<1> QED
  BY <1>2, <1>3 DEF SlotInv

LEMMA SlotNext ==
    ASSUME TypeOK, SlotInv, [Next]_vars
    PROVE  SlotInv'
<1> USE QINSizeAssumption, BoundsAssumption
<1>1. CASE UNCHANGED <<ring, app, appleft, sent>>
  BY <1>1, SlotFrame DEF SlotInv
<1>2. CASE ReceiveFirst \/ ReceiveLast
  BY <1>2, SlotFrame DEF ReceiveFirst, ReceiveLast
<1>3. CASE ReceiveCheck
  BY <1>3, SlotFrame DEF ReceiveCheck
<1>4. CASE AppSleep
  BY <1>4, SlotFrame DEF AppSleep
<1>5. CASE \E w \in Words : ReceiveWord(w)
  BY <1>5, SlotFrame DEF ReceiveWord, Receiving
<1>6. CASE \E w \in Words : SendWord(w)
  <2> PICK w \in Words : SendWord(w)
    BY <1>6
  <2>1. \A j \in Slots, v \in Words :
            fromSlaveBufferIn'[j][v] = IF j = m_curqidx /\ v = w THEN sent + 1
                                       ELSE fromSlaveBufferIn[j][v]
    BY SendWordStore
  <2> QED
    BY <2>1 DEF SendWord, SlotInv, Age, Frame, TypeOK
<1>7. CASE \E w \in Words : SendWordLate(w)
  <2> PICK w \in Words : SendWordLate(w)
    BY <1>7
  <2>1. \A j \in Slots, v \in Words :
            fromSlaveBufferIn'[j][v] = IF j = m_curqoutidx /\ v = w THEN sent
                                       ELSE fromSlaveBufferIn[j][v]
    BY SendWordLateStore
  <2>2. sent > 0 /\ sent \in Nat /\ m_curqoutidx \in Slots
    BY DEF SendWordLate, SlotInv, TypeOK
  <2>3. Frame(sent - Age(m_curqoutidx)) = sent
    BY <2>2 DEF Frame, Age, Slots
  <2> QED
    BY <2>1, <2>2, <2>3 DEF SendWordLate, SlotInv, Age, Frame
<1>8. CASE SendPublish
  <2>1. /\ m_curqidx \in Slots /\ m_curqoutidx \in Slots /\ sent \in Nat
        /\ app = "send" /\ app' = "sleep" /\ sent' = sent + 1 /\ appleft' = appleft
        /\ fromSlaveBufferIn' = fromSlaveBufferIn
        /\ m_curqoutidx' = m_curqidx /\ m_curqidx' = NextQ(m_curqidx)
        /\ InOrder => appleft = {}
    BY <1>8 DEF SendPublish, TypeOK
  <2>2. \A j \in Slots, w \in Words :
            fromSlaveBufferIn'[j][w] =
                IF j = m_curqidx' /\ app' = "send" /\ w \notin appleft' THEN sent' + 1
                ELSE IF j = m_curqoutidx' /\ app' = "sleep" /\ w \in appleft'
                     THEN Frame(sent' - QINSize) ELSE Frame(sent' - Age(j)')
    <3> TAKE j \in Slots, w \in Words
    <3>1. CASE j = m_curqidx /\ w \notin appleft
      <4>1. fromSlaveBufferIn[j][w] = sent + 1
        BY <2>1, <3>1 DEF SlotInv
      <4>2. Frame(sent' - Age(j)') = sent + 1
        BY <2>1, <3>1 DEF Frame, Age, Slots
      <4> QED
        BY <2>1, <3>1, <4>1, <4>2
    <3>2. CASE j = m_curqidx /\ w \in appleft
      <4>1. fromSlaveBufferIn[j][w] = Frame(sent - Age(j))
        BY <2>1, <3>2 DEF SlotInv
      <4>2. Frame(sent - Age(j)) = Frame(sent' - QINSize)
        BY <2>1, <3>2 DEF SlotInv, Frame, Age, NextQ, Slots
      <4> QED
        BY <2>1, <3>2, <4>1, <4>2
    <3>3. CASE j # m_curqidx
      <4>1. fromSlaveBufferIn[j][w] = Frame(sent - Age(j))
        BY <2>1, <3>3 DEF SlotInv
      <4>2. Frame(sent - Age(j)) = Frame(sent' - Age(j)')
        BY <2>1, <3>3 DEF SlotInv, Frame, Age, NextQ, Slots
      <4> QED
        BY <2>1, <3>3, <4>1, <4>2
    <3> QED
      BY <3>1, <3>2, <3>3
  <2>3. sent' > 0 /\ m_curqidx' = NextQ(m_curqoutidx')
    BY <2>1
  <2>4. NextQ(m_curqoutidx)' = NextQ(m_curqoutidx')
    BY DEF NextQ
  <2> QED
    BY <2>1, <2>2, <2>3, <2>4 DEF SlotInv
<1> QED
  BY <1>1, <1>2, <1>3, <1>4, <1>5, <1>6, <1>7, <1>8, NextCases
  DEF RtWake, RtReadWatchdog, RtReadAlStatus, RtReset, RtBeginRead, RtReadFifo,
      RtEndRead, RtLoadIndex, RtWriteFifo, RtPublishWord, RtCopyWord, MasterWrite,
      WatchdogExpires, MasterSetState

-----------------------------------------------------------------------------
(* What a cycle copies.                                                    *)

LEMMA SlotBounds ==
    ASSUME TypeOK, SlotInv
    PROVE  /\ \A j \in Slots, w \in Words : fromSlaveBufferIn[j][w] <= begun
           /\ \A w \in Words : sent - Lag <= fromSlaveBufferIn[m_curqoutidx][w]
<1> USE QINSizeAssumption, BoundsAssumption
<1>1. sent \in Nat /\ m_curqoutidx \in Slots
  BY DEF TypeOK
<1>2. ASSUME NEW j \in Slots, NEW w \in Words PROVE fromSlaveBufferIn[j][w] <= begun
  <2>1. Age(j) \in Nat
    BY <1>1 DEF Age, Slots
  <2>2. Frame(sent - Age(j)) <= sent /\ Frame(sent - QINSize) <= sent
    BY <1>1, <2>1 DEF Frame
  <2>3. begun \in {sent, sent + 1} /\ (app = "send" /\ w \notin appleft => begun = sent + 1)
    BY DEF begun
  <2>4. \/ fromSlaveBufferIn[j][w] = sent + 1 /\ app = "send" /\ w \notin appleft
        \/ fromSlaveBufferIn[j][w] = Frame(sent - QINSize)
        \/ fromSlaveBufferIn[j][w] = Frame(sent - Age(j))
    BY DEF SlotInv
  <2>5. Frame(sent - Age(j)) \in Nat /\ Frame(sent - QINSize) \in Nat
    BY <1>1, <2>1 DEF Frame
  <2> QED
    BY <1>1, <2>2, <2>3, <2>4, <2>5
<1>3. ASSUME NEW w \in Words PROVE sent - Lag <= fromSlaveBufferIn[m_curqoutidx][w]
  <2>1. Age(m_curqoutidx) = 0
    BY <1>1 DEF Age, Slots
  <2>2. Frame(sent - Age(m_curqoutidx)) = sent
    BY <1>1, <2>1 DEF Frame
  <2>3. Lag \in Nat /\ (~InOrder => Lag = QINSize)
    BY DEF Lag
  <2>4. sent - QINSize <= Frame(sent - QINSize)
    BY <1>1 DEF Frame
  <2>5. CASE app = "sleep" /\ w \in appleft
    <3>1. ~InOrder
      BY <2>5 DEF SlotInv
    <3>2. fromSlaveBufferIn[m_curqoutidx][w] = Frame(sent - QINSize)
      BY <1>1, <2>5 DEF SlotInv
    <3> QED
      BY <2>3, <2>4, <3>1, <3>2
  <2>6. CASE ~(app = "sleep" /\ w \in appleft)
    <3>1. fromSlaveBufferIn[m_curqoutidx][w] \in {sent + 1, sent}
      BY <1>1, <2>2, <2>6 DEF SlotInv
    <3> QED
      BY <1>1, <2>3, <3>1
  <2> QED
    BY <2>5, <2>6
<1> QED
  BY <1>2, <1>3

\* Numbers only grow: in every slot, of the frames announced and of those begun.
LEMMA Growing ==
    ASSUME TypeOK, SlotInv, [Next]_vars
    PROVE  /\ \A j \in Slots, w \in Words :
                  fromSlaveBufferIn[j][w] <= fromSlaveBufferIn'[j][w]
           /\ sent <= sent' /\ begun <= begun'
<1> USE QINSizeAssumption, BoundsAssumption
<1>1. /\ sent \in Nat /\ m_curqoutidx \in Slots
      /\ \A j \in Slots, w \in Words : fromSlaveBufferIn[j][w] \in Nat
  BY DEF TypeOK, Buffers
<1>2. CASE \E w \in Words : SendWord(w)
  <2> PICK w \in Words : SendWord(w)
    BY <1>2
  <2>1. \A j \in Slots, v \in Words :
            fromSlaveBufferIn'[j][v] = IF j = m_curqidx /\ v = w THEN sent + 1
                                       ELSE fromSlaveBufferIn[j][v]
    BY SendWordStore
  <2>2. begun \in {sent, sent + 1}
    BY DEF begun
  <2>3. begun' = sent + 1 /\ sent' = sent
    BY DEF SendWord, begun
  <2> QED
    BY <1>1, <2>1, <2>2, <2>3, SlotBounds
<1>3. CASE \E w \in Words : SendWordLate(w)
  <2> PICK w \in Words : SendWordLate(w)
    BY <1>3
  <2>1. \A j \in Slots, v \in Words :
            fromSlaveBufferIn'[j][v] = IF j = m_curqoutidx /\ v = w THEN sent
                                       ELSE fromSlaveBufferIn[j][v]
    BY SendWordLateStore
  <2>2. begun = sent /\ begun' = sent /\ sent' = sent
    BY DEF SendWordLate, begun
  <2> QED
    BY <1>1, <2>1, <2>2, SlotBounds
<1>4. CASE SendPublish
  BY <1>1, <1>4 DEF SendPublish, begun
<1>5. CASE ReceiveFirst \/ ReceiveLast \/ ReceiveCheck \/ AppSleep
  BY <1>1, <1>5 DEF ReceiveFirst, ReceiveLast, ReceiveCheck, AppSleep, begun
<1>6. CASE \E w \in Words : ReceiveWord(w)
  BY <1>1, <1>6 DEF ReceiveWord, Receiving, begun
<1>7. CASE UNCHANGED <<ring, app, appleft, sent>>
  BY <1>1, <1>7 DEF begun
<1> QED
  BY <1>2, <1>3, <1>4, <1>5, <1>6, <1>7, NextCases
  DEF RtWake, RtReadWatchdog, RtReadAlStatus, RtReset, RtBeginRead, RtReadFifo,
      RtEndRead, RtLoadIndex, RtWriteFifo, RtPublishWord, RtCopyWord, MasterWrite,
      WatchdogExpires, MasterSetState

LEMMA CopiedInit == Init => CopiedInv
  BY DEF Init, CopiedInv

\* The slot can only get newer while it is copied.
LEMMA CopiedNext ==
    ASSUME TypeOK, SlotInv, CopiedInv, [Next]_vars
    PROVE  CopiedInv'
<1> USE QINSizeAssumption, BoundsAssumption
<1>1. /\ sent \in Nat /\ sent' \in Nat /\ rtsent \in Nat /\ begun \in Nat /\ begun' \in Nat
      /\ rtidx \in Slots /\ m_curqoutidx \in Slots
      /\ Lag \in Nat /\ Lag' = Lag
      /\ \A j \in Slots, w \in Words :
            fromSlaveBufferIn[j][w] \in Nat /\ fromSlaveBufferIn'[j][w] \in Nat
      /\ \A w \in Words : BufferIn[w] \in Nat
  <2>1. TypeOK'
    BY TypeNext
  <2>2. /\ sent \in Nat /\ rtsent \in Nat /\ rtidx \in Slots /\ m_curqoutidx \in Slots
        /\ \A j \in Slots, w \in Words : fromSlaveBufferIn[j][w] \in Nat
        /\ \A w \in Words : BufferIn[w] \in Nat
    BY DEF TypeOK, Buffers
  <2>3. sent' \in Nat /\ \A j \in Slots, w \in Words : fromSlaveBufferIn'[j][w] \in Nat
    <3>1. sent' \in 0 .. MaxSends /\ fromSlaveBufferIn' \in [Slots -> Buffers]
      BY <2>1 DEF TypeOK, Slots, Buffers
    <3> QED
      BY <3>1 DEF Buffers
  <2>4. begun \in Nat /\ begun' \in Nat
    BY <2>2, <2>3 DEF begun
  <2>5. Lag \in Nat /\ Lag' = Lag
    BY DEF Lag
  <2> QED
    BY <2>2, <2>3, <2>4, <2>5
<1>2. CASE RtLoadIndex
  BY <1>1, <1>2, SlotBounds DEF RtLoadIndex, CopiedInv
<1>3. CASE \E w \in Words : RtCopyWord(w)
  <2> PICK w \in Words : RtCopyWord(w)
    BY <1>3
  <2>1. /\ rt = "copy" /\ rt' = rt /\ rtidx' = rtidx /\ rtsent' = rtsent /\ sent' = sent
        /\ fromSlaveBufferIn' = fromSlaveBufferIn /\ rtleft' = rtleft \ {w}
        /\ begun' = begun
    BY DEF RtCopyWord, begun
  <2>2. \A v \in Words : BufferIn'[v] = IF v = w THEN fromSlaveBufferIn[rtidx][w] ELSE BufferIn[v]
    BY DEF RtCopyWord, TypeOK, Buffers
  <2> QED
    BY <1>1, <2>1, <2>2, SlotBounds DEF CopiedInv
<1>4. CASE rt' = "copy" => UNCHANGED <<rt, rtidx, rtsent, rtleft, BufferIn>>
  <2> SUFFICES ASSUME rt' = "copy" PROVE CopiedInv'
    BY DEF CopiedInv
  <2>1. CopiedInv /\ rt = "copy" /\ UNCHANGED <<rt, rtidx, rtsent, rtleft, BufferIn>>
    BY <1>4
  <2>2. rtsent' <= sent'
    BY <1>1, <2>1, Growing DEF CopiedInv
  <2>3. ASSUME NEW w \in Words PROVE rtsent - Lag <= fromSlaveBufferIn'[rtidx][w]
    BY <1>1, <2>1, Growing DEF CopiedInv
  <2>4. ASSUME NEW w \in Words \ rtleft
        PROVE  rtsent - Lag <= BufferIn[w] /\ BufferIn[w] <= begun'
    BY <1>1, <2>1, Growing DEF CopiedInv
  <2> QED
    BY <1>1, <2>1, <2>2, <2>3, <2>4 DEF CopiedInv
<1> QED
  BY <1>2, <1>3, <1>4, NextCases
  DEF RtWake, RtReadWatchdog, RtReadAlStatus, RtReset, RtBeginRead, RtReadFifo,
      RtEndRead, RtWriteFifo, RtPublishWord, MasterWrite, WatchdogExpires,
      MasterSetState, ReceiveFirst, ReceiveLast, ReceiveCheck, ReceiveWord, SendWord,
      SendPublish, SendWordLate, AppSleep

-----------------------------------------------------------------------------
(* What is transmitted, lap by lap.                                        *)

\* The invariant behind OutputStaleOneLap.
StaleOutputInv == SlotInv /\ StaleInv /\ OutputStaleOneLap

LEMMA StaleInit == Init => StaleInv /\ OutputStaleOneLap
<1> SUFFICES ASSUME Init PROVE StaleInv /\ OutputStaleOneLap
  OBVIOUS
<1> QED
  BY DEF Init, StaleInv, OutputStaleOneLap

\* The slot that is filled while the copy is not lapped is another one than the slot
\* copied, and a store seen late goes to that slot only before the first lap.
LEMMA StaleNext ==
    ASSUME TypeOK, SlotInv, StaleInv, [Next]_vars
    PROVE  StaleInv'
<1> USE QINSizeAssumption, BoundsAssumption
<1>1. /\ sent \in Nat /\ rtsent \in Nat /\ laps \in 0 .. QINSize - 1
      /\ rtidx \in Slots /\ m_curqidx \in Slots /\ m_curqoutidx \in Slots
      /\ \A j \in Slots, w \in Words : fromSlaveBufferIn[j][w] \in Nat
  BY DEF TypeOK, Buffers
<1>2. CASE RtLoadIndex
  <2>1. /\ rt' = "copy" /\ rtidx' = m_curqoutidx /\ rtleft' = Words /\ rtsent' = sent
        /\ laps' = 0 /\ UNCHANGED <<fromSlaveBufferIn, m_curqidx, sent>>
    BY <1>2 DEF RtLoadIndex
  <2> SUFFICES ASSUME sent > 0 PROVE StaleInv'
    BY <2>1 DEF StaleInv
  <2>2. m_curqidx = NextQ(m_curqoutidx)
    BY DEF SlotInv
  <2>3. \/ m_curqidx = m_curqoutidx + 1 + 0
        \/ m_curqidx = m_curqoutidx + 1 + 0 - QINSize
    BY <1>1, <2>2 DEF NextQ, Slots
  <2>4. Frame(sent - Age(m_curqoutidx)) = sent /\ m_curqidx # m_curqoutidx
    BY <1>1, <2>2 DEF Frame, Age, NextQ, Slots
  <2>5. \A w \in Words :
            fromSlaveBufferIn[m_curqoutidx][w] \in {sent, Frame(sent - QINSize)}
    BY <1>1, <2>4 DEF SlotInv
  <2> QED
    BY <1>1, <2>1, <2>3, <2>5 DEF StaleInv
<1>3. CASE \E w \in Words : RtCopyWord(w)
  <2> PICK w \in Words : RtCopyWord(w)
    BY <1>3
  <2>1. /\ rtleft' = rtleft \ {w} /\ rt' = rt
        /\ UNCHANGED <<rtidx, rtsent, laps, m_curqidx, sent, fromSlaveBufferIn>>
    BY DEF RtCopyWord
  <2>2. \A v \in Words : BufferIn'[v] = IF v = w THEN fromSlaveBufferIn[rtidx][w] ELSE BufferIn[v]
    BY DEF RtCopyWord, TypeOK, Buffers
  <2> QED
    BY <1>1, <2>1, <2>2 DEF StaleInv
<1>4. CASE \E w \in Words : SendWord(w)
  <2> PICK w \in Words : SendWord(w)
    BY <1>4
  <2>1. \A j \in Slots, v \in Words :
            fromSlaveBufferIn'[j][v] = IF j = m_curqidx /\ v = w THEN sent + 1
                                       ELSE fromSlaveBufferIn[j][v]
    BY SendWordStore
  <2>2. UNCHANGED <<rt, rtleft, rtidx, rtsent, laps, m_curqidx, sent, BufferIn>>
    BY DEF SendWord
  <2> SUFFICES ASSUME rt = "copy", rtsent > 0, laps < QINSize - 1 PROVE StaleInv'
    BY <2>2 DEF StaleInv
  <2>3. m_curqidx # rtidx
    BY <1>1 DEF StaleInv, Slots
  <2> QED
    BY <1>1, <2>1, <2>2, <2>3 DEF StaleInv
<1>5. CASE \E w \in Words : SendWordLate(w)
  <2> PICK w \in Words : SendWordLate(w)
    BY <1>5
  <2>1. \A j \in Slots, v \in Words :
            fromSlaveBufferIn'[j][v] = IF j = m_curqoutidx /\ v = w THEN sent
                                       ELSE fromSlaveBufferIn[j][v]
    BY SendWordLateStore
  <2>2. UNCHANGED <<rt, rtleft, rtidx, rtsent, laps, m_curqidx, sent, BufferIn>>
    BY DEF SendWordLate
  <2> SUFFICES ASSUME rt = "copy", rtsent > 0, laps < QINSize - 1 PROVE StaleInv'
    BY <2>2 DEF StaleInv
  <2>3. m_curqidx = NextQ(m_curqoutidx) /\ sent = rtsent + laps
    BY <1>1 DEF SlotInv, StaleInv
  <2>4. m_curqoutidx = rtidx => sent = rtsent
    BY <1>1, <2>3 DEF StaleInv, NextQ, Slots
  <2> QED
    BY <1>1, <2>1, <2>2, <2>4 DEF StaleInv
<1>6. CASE SendPublish
  <2>1. /\ m_curqidx' = NextQ(m_curqidx) /\ sent' = sent + 1
        /\ laps' = IF rt = "copy" /\ laps < QINSize - 1 THEN laps + 1 ELSE laps
        /\ UNCHANGED <<rt, rtleft, rtidx, rtsent, fromSlaveBufferIn, BufferIn>>
    BY <1>6 DEF SendPublish
  <2> SUFFICES ASSUME rt = "copy", rtsent > 0, laps' < QINSize - 1 PROVE StaleInv'
    BY <2>1 DEF StaleInv
  <2>2. laps < QINSize - 1 /\ laps' = laps + 1
    BY <1>1, <2>1
  <2>3. \/ m_curqidx' = rtidx + 1 + laps'
        \/ m_curqidx' = rtidx + 1 + laps' - QINSize
    BY <1>1, <2>1, <2>2 DEF StaleInv, NextQ, Slots
  <2> QED
    BY <1>1, <2>1, <2>2, <2>3 DEF StaleInv
<1>7. CASE /\ UNCHANGED <<m_curqidx, sent, fromSlaveBufferIn, BufferIn>>
           /\ rt' = "copy" => UNCHANGED <<rt, rtleft, rtidx, rtsent, laps>>
  BY <1>7 DEF StaleInv
<1> QED
  BY <1>2, <1>3, <1>4, <1>5, <1>6, <1>7, NextCases
  DEF RtWake, RtReadWatchdog, RtReadAlStatus, RtReset, RtBeginRead, RtReadFifo,
      RtEndRead, RtWriteFifo, RtPublishWord, MasterWrite, WatchdogExpires,
      MasterSetState, ReceiveFirst, ReceiveLast, ReceiveCheck, ReceiveWord, AppSleep

\* Only RtWriteFifo transmits, and it transmits what StaleInv describes.
LEMMA StaleOutputNext ==
    ASSUME TypeOK, StaleInv, OutputStaleOneLap, [Next]_vars
    PROVE  OutputStaleOneLap'
<1> USE QINSizeAssumption, BoundsAssumption
<1>1. CASE RtWriteFifo
  <2>1. /\ rt = "copy" /\ rtleft = {} /\ inputRam' = BufferIn
        /\ UNCHANGED <<rtsent, laps>>
    BY <1>1 DEF RtWriteFifo
  <2> QED
    BY <2>1 DEF StaleInv, Frame, OutputStaleOneLap, TypeOK
<1>2. CASE rt' = "copy"
  BY <1>2 DEF OutputStaleOneLap
<1>3. CASE rt # "copy" /\ UNCHANGED <<rtsent, laps, inputRam>>
  BY <1>3 DEF OutputStaleOneLap
<1> QED
  BY <1>1, <1>2, <1>3, NextCases
  DEF RtWake, RtReadWatchdog, RtReadAlStatus, RtReset, RtBeginRead, RtReadFifo,
      RtEndRead, RtLoadIndex, RtPublishWord, RtCopyWord, MasterWrite, WatchdogExpires,
      MasterSetState, ReceiveFirst, ReceiveLast, ReceiveCheck, ReceiveWord, AppSleep,
      SendWord, SendWordLate, SendPublish

\* send_output and SPIWriteProcRamFifo, in any memory order and for every ring size:
\* a word that is transmitted is of the announced frame or of the lap before it,
\* unless QINSize - 1 calls of send_output end during the copy.
THEOREM OutputStaleOneLapCorrect == Spec => []OutputStaleOneLap
<1>1. Init => StaleOutputInv
  BY SlotInit, StaleInit DEF StaleOutputInv
<1>2. StaleOutputInv /\ TypeOK /\ [Next]_vars => StaleOutputInv'
  BY SlotNext, StaleNext, StaleOutputNext DEF StaleOutputInv
<1>3. StaleOutputInv => OutputStaleOneLap
  BY DEF StaleOutputInv
<1> QED
  BY <1>1, <1>2, <1>3, TypeCorrect, PTL DEF Spec

-----------------------------------------------------------------------------
(* ProcessData implements FrameExchange.                                   *)

LEMMA RefinementInit == Init => FX!Init
<1> SUFFICES ASSUME Init PROVE FX!Init
  OBVIOUS
<1>1. begun = 0
  BY DEF Init, begun
<1> QED
  BY <1>1 DEF Init, Zeroes, FX!Init

\* The steps that neither store a first word, announce, take, transmit nor deliver
\* are seen by nobody outside, but for those of the master.
LEMMA RefinementNext ==
    ASSUME TypeOK, LagInv, SlotInv, CopiedInv, [Next]_vars
    PROVE  [FX!Next]_(FX!vars)
<1> USE DEF FX!vars
<1>1. CASE MasterWrite
  <2>1. FX!MasterWrite
    BY <1>1 DEF MasterWrite, begun, FX!MasterWrite
  <2> QED
    BY <2>1 DEF FX!Next
<1>2. CASE \E w \in Words : ReceiveWord(w)
  <2> PICK w \in Words : ReceiveWord(w)
    BY <1>2
  <2>1. /\ BufferfromEthCAT' =
               [BufferfromEthCAT EXCEPT ![w] = m_BufferOutEthToSlaveBuffer[w]]
        /\ app \in {"first", "last", "check"} /\ app' = app
        /\ UNCHANGED <<outputRam, sent, rt, rtsent, inputRam>>
    BY DEF ReceiveWord, Receiving
  <2>2. BufferfromEthCAT'[w] = m_BufferOutEthToSlaveBuffer[w]
    BY <2>1 DEF TypeOK, Buffers
  <2>3. /\ BufferfromEthCAT[w] <= BufferfromEthCAT'[w]
        /\ BufferfromEthCAT'[w] <= outputRam
    BY <2>2 DEF LagInv, SharedInv, TypeOK, Buffers
  <2>4. begun' = begun
    BY <2>1 DEF begun
  <2>5. FX!Deliver(w)
    BY <2>1, <2>2, <2>3, <2>4 DEF FX!Deliver
  <2> QED
    BY <2>5 DEF FX!Next
<1>3. CASE \E w \in Words : SendWord(w)
  <2> PICK w \in Words : SendWord(w)
    BY <1>3
  <2>1. /\ app = "send" /\ app' = "send" /\ appleft' # Words
        /\ UNCHANGED <<outputRam, BufferfromEthCAT, sent, rt, rtsent, inputRam>>
    BY DEF SendWord
  <2>2. begun' = sent + 1
    BY <2>1 DEF begun
  <2>3. CASE appleft = Words
    <3>1. FX!Begin
      BY <2>1, <2>2, <2>3 DEF begun, FX!Begin
    <3> QED
      BY <3>1 DEF FX!Next
  <2>4. CASE appleft # Words
    BY <2>1, <2>2, <2>4 DEF begun
  <2> QED
    BY <2>3, <2>4
<1>4. CASE SendPublish
  <2>1. FX!Announce
    BY <1>4 DEF SendPublish, begun, FX!Announce
  <2> QED
    BY <2>1 DEF FX!Next
<1>5. CASE RtLoadIndex
  <2>1. FX!Take
    BY <1>5 DEF RtLoadIndex, begun, FX!Take
  <2> QED
    BY <2>1 DEF FX!Next
<1>6. CASE RtWriteFifo
  <2>1. /\ rt = "copy" /\ rt' = "wait" /\ rtleft = {} /\ inputRam' = BufferIn
        /\ UNCHANGED <<outputRam, BufferfromEthCAT, sent, rtsent, app, appleft>>
    BY <1>6 DEF RtWriteFifo
  <2>2. \A w \in Words : rtsent - Lag <= inputRam'[w] /\ inputRam'[w] <= begun
    BY <2>1 DEF CopiedInv
  <2>3. FX!Transmit
    BY <2>1, <2>2 DEF begun, FX!Transmit
  <2> QED
    BY <2>3 DEF FX!Next
<1>7. CASE /\ (rt = "copy") = (rt' = "copy") /\ begun' = begun
           /\ UNCHANGED <<outputRam, BufferfromEthCAT, sent, rtsent, inputRam>>
  BY <1>7
<1> QED
  BY <1>1, <1>2, <1>3, <1>4, <1>5, <1>6, <1>7, NextCases
  DEF RtWake, RtReadWatchdog, RtReadAlStatus, RtReset, RtBeginRead, RtReadFifo,
      RtEndRead, RtPublishWord, RtCopyWord, WatchdogExpires, MasterSetState,
      ReceiveFirst, ReceiveLast, ReceiveCheck, AppSleep, SendWordLate, begun

\* The exchange of frames through m_BufferOutEthToSlaveBuffer, m_atomiccounter and
\* fromSlaveBufferIn implements FrameExchange, in any memory order, for every number
\* of words, every ring size and however often the copies are overtaken.
THEOREM Refinement == Spec => ImplementsFrameExchange
<1>1. Init => FX!Init
  BY RefinementInit
<1>2. SlotInv /\ CopiedInv /\ TypeOK /\ [Next]_vars => SlotInv' /\ CopiedInv'
  BY SlotNext, CopiedNext
<1>3. LagInv /\ TypeOK /\ [Next]_vars => LagInv'
  BY LagNext
<1>4. TypeOK /\ LagInv /\ SlotInv /\ CopiedInv /\ [Next]_vars => [FX!Next]_(FX!vars)
  BY RefinementNext
<1> QED
  BY <1>1, <1>2, <1>3, <1>4, SlotInit, CopiedInit, LagInit, TypeCorrect, PTL
  DEF Spec, ImplementsFrameExchange, FX!Spec
=============================================================================
