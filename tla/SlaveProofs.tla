----------------------------- MODULE SlaveProofs -----------------------------
(* Proofs of the invariants of Slave, for any number of frames.            *)
EXTENDS Slave, TLAPS

(* What start-up and cycle keep, beyond their types.                       *)

\* How far main has got says what is set up.  The mask is written by the chip
\* while main polls.
StartInv ==
    /\ rt # "held" => resumed
    /\ resumed => main = "run"
    /\ main \notin {"fail", "exit"} => err = 0
    /\ main \in {"mask", "maskpoll", "irqcfg", "inten", "open", "resume", "run"} => test
    /\ main = "maskpoll" => IF busy THEN command = "MASK" ELSE mask
    /\ main \in {"irqcfg", "inten", "open", "resume", "run"} => mask
    /\ main \in {"inten", "open", "resume", "run"} => irqcfg
    /\ main \in {"open", "resume", "run"} => inten
    /\ dev <=> main \in {"resume", "run"}

\* A command in the chip is one that is polled for, and so is a FIFO transfer.
CsrInv ==
    /\ busy => \/ main = "maskpoll" /\ command = "MASK"
               \/ rt = "wdpoll" /\ command = "WDOG"
               \/ rt = "alpoll" /\ command = "AL"
    /\ fifo = "read" => rt = "rdpoll"
    /\ fifo = "write" => rt = "wrpoll"
    /\ fifo = "avail" => rt \in {"rdpoll", "wrpoll"}

\* The cycle has not yet settled what becomes of the data.
Undecided ==
    \/ rt \in {"wdcmd", "wdpoll", "alcmd", "alpoll", "rdcmd"}
    \/ rt = "rdpoll" /\ fifo = "read"

\* A pin that is up has been announced, is being served, or was missed.
EdgeInv == dev /\ Pin /\ ~skipped => pend \/ sem > 0 \/ Undecided

LEMMA TypeInit == Init => TypeOK
<1> SUFFICES ASSUME Init PROVE TypeOK
  OBVIOUS
<1>1. frames \in 0 .. MaxFrames /\ sem \in Nat
  BY MaxFramesAssumption DEF Init
<1>2. err \in {0, -9, -10, -27}
  BY DEF Init
<1>3. mask \in BOOLEAN /\ irqcfg \in BOOLEAN /\ inten \in BOOLEAN
  BY Zenon DEF Init
<1> QED
  BY <1>1, <1>2, <1>3, Zenon DEF Init, TypeOK

\* Every step keeps the types.
LEMMA TypeNext == TypeOK /\ [Next]_vars => TypeOK'
<1> SUFFICES ASSUME TypeOK, [Next]_vars PROVE TypeOK'
  OBVIOUS
<1> USE MaxFramesAssumption DEF TypeOK, start, driver, config, csr, bus
<1>1. CASE MainSpiInit
  BY <1>1 DEF MainSpiInit, MainGoto, Fail, CycleUnchanged
<1>2. CASE MainResetNeeded
  BY <1>2 DEF MainResetNeeded, MainGoto, CycleUnchanged
<1>3. CASE MainReset
  <2>1. ready' \in BOOLEAN /\ test' \in BOOLEAN /\ mask' \in BOOLEAN /\ irqcfg' \in BOOLEAN
       /\ inten' \in BOOLEAN /\ sm0' \in BOOLEAN /\ op' \in BOOLEAN
    BY <1>3 DEF MainReset, MainGoto, CycleUnchanged
  <2> QED
    BY <1>3, <2>1 DEF MainReset, MainGoto, CycleUnchanged
<1>4. CASE MainVerify
  BY <1>4 DEF MainVerify, MainGoto, Fail, CycleUnchanged
<1>5. CASE MainMask \/ MainMaskPoll
  <2>1. busy' \in BOOLEAN
    BY <1>5 DEF MainMask, MainMaskPoll, MainGoto, Issue, CycleUnchanged
  <2> QED
    BY <1>5, <2>1 DEF MainMask, MainMaskPoll, MainGoto, Issue, CycleUnchanged
<1>6. CASE MainEnable
  <2>1. irqcfg' \in BOOLEAN /\ inten' \in BOOLEAN
    BY <1>6 DEF MainEnable, MainGoto, CycleUnchanged
  <2> QED
    BY <1>6, <2>1 DEF MainEnable, MainGoto, CycleUnchanged
<1>7. CASE MainOpen
  <2>1. dev' \in BOOLEAN
    BY <1>7, Zenon DEF MainOpen
  <2>2. Pin \in BOOLEAN
    BY DEF Pin
  <2>3. skipped' \in BOOLEAN
    BY <1>7, <2>2, Zenon DEF MainOpen
  <2> QED
    BY <1>7, <2>1, <2>3 DEF MainOpen, MainGoto, Fail, CycleUnchanged
<1>8. CASE MainResume \/ MainFail
  <2>1. resumed' \in BOOLEAN
    BY <1>8 DEF MainResume, MainFail, MainGoto, CycleUnchanged
  <2> QED
    BY <1>8, <2>1 DEF MainResume, MainFail, MainGoto, CycleUnchanged
<1>9. CASE RtStart \/ RtTimeout
  BY <1>9 DEF RtStart, RtTimeout, RtGoto
<1>10. CASE RtIrq
  BY <1>10 DEF RtIrq, RtGoto
<1>11. CASE RtCommand
  <2>1. busy' \in BOOLEAN
    BY <1>11 DEF RtCommand, RtGoto, Issue
  <2> QED
    BY <1>11, <2>1 DEF RtCommand, RtGoto, Issue
<1>12. CASE RtPollWatchdog
  BY <1>12 DEF RtPollWatchdog, RtGoto
<1>13. CASE RtPollAl
  BY <1>13 DEF RtPollAl
<1>14. CASE RtTransfer
  BY <1>14 DEF RtTransfer, RtGoto
<1>15. CASE RtReadFifo \/ RtWriteFifo
  BY <1>15 DEF RtReadFifo, RtWriteFifo, RtGoto
<1>16. CASE Handler
  <2>1. pend' \in BOOLEAN
    BY <1>16 DEF Handler
  <2> QED
    BY <1>16, <2>1 DEF Handler
<1>17. CASE ChipExecute
  <2>1. busy' \in BOOLEAN /\ mask' \in BOOLEAN /\ data' \in BOOLEAN
    BY <1>17 DEF ChipExecute
  <2> QED
    BY <1>17, <2>1 DEF ChipExecute
<1>18. CASE ChipTransfer
  <2>1. sm0' \in BOOLEAN /\ skipped' \in BOOLEAN
    BY <1>18 DEF ChipTransfer
  <2> QED
    BY <1>18, <2>1 DEF ChipTransfer
<1>19. CASE MasterWrite
  <2>1. sm0' \in BOOLEAN /\ wd' \in BOOLEAN /\ pend' \in BOOLEAN
    BY <1>19 DEF MasterWrite
  <2> QED
    BY <1>19, <2>1 DEF MasterWrite
<1>20. CASE MasterOther
  <2>1. wd' \in BOOLEAN /\ op' \in BOOLEAN
    BY <1>20 DEF MasterOther
  <2> QED
    BY <1>20, <2>1 DEF MasterOther
<1>21. CASE UNCHANGED vars
  BY <1>21 DEF vars
<1> QED
  BY <1>1, <1>2, <1>3, <1>4, <1>5, <1>6, <1>7, <1>8, <1>9, <1>10, <1>11,
     <1>12, <1>13, <1>14, <1>15, <1>16, <1>17, <1>18, <1>19, <1>20, <1>21
  DEF Next, Main, Rt, Chip

\* Nothing that main has set up is undone before the thread is let go, nor after.
LEMMA StartNext == TypeOK /\ StartInv /\ [Next]_vars => StartInv'
<1> SUFFICES ASSUME TypeOK, StartInv, [Next]_vars PROVE StartInv'
  OBVIOUS
<1> USE DEF TypeOK, StartInv, start, driver, config, csr, bus
<1>1. CASE MainSpiInit
  BY <1>1 DEF MainSpiInit, MainGoto, Fail, CycleUnchanged
<1>2. CASE MainResetNeeded
  BY <1>2 DEF MainResetNeeded, MainGoto, CycleUnchanged
<1>3. CASE MainReset
  BY <1>3 DEF MainReset, MainGoto, CycleUnchanged
<1>4. CASE MainVerify
  BY <1>4 DEF MainVerify, MainGoto, Fail, CycleUnchanged
<1>5. CASE MainMask \/ MainMaskPoll
  BY <1>5 DEF MainMask, MainMaskPoll, MainGoto, Issue, CycleUnchanged
<1>6. CASE MainEnable
  BY <1>6 DEF MainEnable, MainGoto, CycleUnchanged
<1>7. CASE MainOpen
  BY <1>7 DEF MainOpen, MainGoto, Fail, CycleUnchanged
<1>8. CASE MainResume \/ MainFail
  BY <1>8 DEF MainResume, MainFail, MainGoto, CycleUnchanged
<1>9. CASE RtStart \/ RtTimeout
  BY <1>9 DEF RtStart, RtTimeout, RtGoto
<1>10. CASE RtIrq
  BY <1>10 DEF RtIrq, RtGoto
<1>11. CASE RtCommand
  BY <1>11 DEF RtCommand, RtGoto, Issue
<1>12. CASE RtPollWatchdog
  BY <1>12 DEF RtPollWatchdog, RtGoto
<1>13. CASE RtPollAl
  BY <1>13 DEF RtPollAl
<1>14. CASE RtTransfer
  BY <1>14 DEF RtTransfer, RtGoto
<1>15. CASE RtReadFifo \/ RtWriteFifo
  BY <1>15 DEF RtReadFifo, RtWriteFifo, RtGoto
<1>16. CASE Handler
  BY <1>16 DEF Handler
<1>17. CASE ChipExecute
  BY <1>17 DEF ChipExecute
<1>18. CASE ChipTransfer
  BY <1>18 DEF ChipTransfer
<1>19. CASE MasterWrite
  BY <1>19 DEF MasterWrite
<1>20. CASE MasterOther
  BY <1>20 DEF MasterOther
<1>21. CASE UNCHANGED vars
  BY <1>21 DEF vars
<1> QED
  BY <1>1, <1>2, <1>3, <1>4, <1>5, <1>6, <1>7, <1>8, <1>9, <1>10, <1>11,
     <1>12, <1>13, <1>14, <1>15, <1>16, <1>17, <1>18, <1>19, <1>20, <1>21
  DEF Next, Main, Rt, Chip

\* While the thread polls, nobody else issues a command.
LEMMA CsrNext == TypeOK /\ StartInv /\ CsrInv /\ [Next]_vars => CsrInv'
<1> SUFFICES ASSUME TypeOK, StartInv, CsrInv, [Next]_vars PROVE CsrInv'
  OBVIOUS
<1> USE DEF TypeOK, StartInv, CsrInv, start, driver, config, csr, bus
<1>1. CASE MainSpiInit
  BY <1>1 DEF MainSpiInit, MainGoto, Fail, CycleUnchanged
<1>2. CASE MainResetNeeded
  BY <1>2 DEF MainResetNeeded, MainGoto, CycleUnchanged
<1>3. CASE MainReset
  BY <1>3 DEF MainReset, MainGoto, CycleUnchanged
<1>4. CASE MainVerify
  BY <1>4 DEF MainVerify, MainGoto, Fail, CycleUnchanged
<1>5. CASE MainMask \/ MainMaskPoll
  BY <1>5 DEF MainMask, MainMaskPoll, MainGoto, Issue, CycleUnchanged
<1>6. CASE MainEnable
  BY <1>6 DEF MainEnable, MainGoto, CycleUnchanged
<1>7. CASE MainOpen
  BY <1>7 DEF MainOpen, MainGoto, Fail, CycleUnchanged
<1>8. CASE MainResume \/ MainFail
  BY <1>8 DEF MainResume, MainFail, MainGoto, CycleUnchanged
<1>9. CASE RtStart \/ RtTimeout
  BY <1>9 DEF RtStart, RtTimeout, RtGoto
<1>10. CASE RtIrq
  BY <1>10 DEF RtIrq, RtGoto
<1>11. CASE RtCommand
  BY <1>11 DEF RtCommand, RtGoto, Issue
<1>12. CASE RtPollWatchdog
  BY <1>12 DEF RtPollWatchdog, RtGoto
<1>13. CASE RtPollAl
  BY <1>13 DEF RtPollAl
<1>14. CASE RtTransfer
  BY <1>14 DEF RtTransfer, RtGoto
<1>15. CASE RtReadFifo \/ RtWriteFifo
  BY <1>15 DEF RtReadFifo, RtWriteFifo, RtGoto
<1>16. CASE Handler
  BY <1>16 DEF Handler
<1>17. CASE ChipExecute
  BY <1>17 DEF ChipExecute
<1>18. CASE ChipTransfer
  BY <1>18 DEF ChipTransfer
<1>19. CASE MasterWrite
  BY <1>19 DEF MasterWrite
<1>20. CASE MasterOther
  BY <1>20 DEF MasterOther
<1>21. CASE UNCHANGED vars
  BY <1>21 DEF vars
<1> QED
  BY <1>1, <1>2, <1>3, <1>4, <1>5, <1>6, <1>7, <1>8, <1>9, <1>10, <1>11,
     <1>12, <1>13, <1>14, <1>15, <1>16, <1>17, <1>18, <1>19, <1>20, <1>21
  DEF Next, Main, Rt, Chip

\* A pin goes up with an edge, and comes down, or is marked, in the cycle.
LEMMA EdgeNext == TypeOK /\ StartInv /\ EdgeInv /\ [Next]_vars => EdgeInv'
<1> SUFFICES ASSUME TypeOK, StartInv, EdgeInv, [Next]_vars PROVE EdgeInv'
  OBVIOUS
<1> USE DEF TypeOK, StartInv, EdgeInv, Undecided, Pin, Armed, start, driver, config, csr, bus
<1>1. CASE MainSpiInit
  BY <1>1 DEF MainSpiInit, MainGoto, Fail, CycleUnchanged
<1>2. CASE MainResetNeeded
  BY <1>2 DEF MainResetNeeded, MainGoto, CycleUnchanged
<1>3. CASE MainReset
  BY <1>3 DEF MainReset, MainGoto, CycleUnchanged
<1>4. CASE MainVerify
  BY <1>4 DEF MainVerify, MainGoto, Fail, CycleUnchanged
<1>5. CASE MainMask \/ MainMaskPoll
  BY <1>5 DEF MainMask, MainMaskPoll, MainGoto, Issue, CycleUnchanged
<1>6. CASE MainEnable
  BY <1>6 DEF MainEnable, MainGoto, CycleUnchanged
<1>7. CASE MainOpen
  BY <1>7 DEF MainOpen, MainGoto, Fail, CycleUnchanged
<1>8. CASE MainResume \/ MainFail
  BY <1>8 DEF MainResume, MainFail, MainGoto, CycleUnchanged
<1>9. CASE RtStart \/ RtTimeout
  BY <1>9 DEF RtStart, RtTimeout, RtGoto
<1>10. CASE RtIrq
  BY <1>10 DEF RtIrq, RtGoto
<1>11. CASE RtCommand
  BY <1>11 DEF RtCommand, RtGoto, Issue
<1>12. CASE RtPollWatchdog
  BY <1>12 DEF RtPollWatchdog, RtGoto
<1>13. CASE RtPollAl
  BY <1>13 DEF RtPollAl
<1>14. CASE RtTransfer
  BY <1>14 DEF RtTransfer, RtGoto
<1>15. CASE RtReadFifo \/ RtWriteFifo
  BY <1>15 DEF RtReadFifo, RtWriteFifo, RtGoto
<1>16. CASE Handler
  BY <1>16 DEF Handler
<1>17. CASE ChipExecute
  BY <1>17 DEF ChipExecute
<1>18. CASE ChipTransfer
  BY <1>18 DEF ChipTransfer
<1>19. CASE MasterWrite
  BY <1>19 DEF MasterWrite
<1>20. CASE MasterOther
  BY <1>20 DEF MasterOther
<1>21. CASE UNCHANGED vars
  BY <1>21 DEF vars
<1> QED
  BY <1>1, <1>2, <1>3, <1>4, <1>5, <1>6, <1>7, <1>8, <1>9, <1>10, <1>11,
     <1>12, <1>13, <1>14, <1>15, <1>16, <1>17, <1>18, <1>19, <1>20, <1>21
  DEF Next, Main, Rt, Chip

IInv == TypeOK /\ StartInv /\ CsrInv /\ EdgeInv

LEMMA InitIInv == Init => IInv
<1> SUFFICES ASSUME Init PROVE IInv
  OBVIOUS
<1>1. StartInv /\ CsrInv /\ EdgeInv
  BY DEF Init, StartInv, CsrInv, EdgeInv
<1> QED
  BY TypeInit, <1>1 DEF IInv

\* IInv is an invariant of the specification.
THEOREM Invariance == Spec => []IInv
<1>1. IInv /\ [Next]_vars => IInv'
  BY TypeNext, StartNext, CsrNext, EdgeNext DEF IInv
<1> QED
  BY InitIInv, <1>1, PTL DEF Spec

\* Every variable keeps its type, for any number of frames.
THEOREM TypeCorrect == Spec => []TypeOK
<1>1. IInv => TypeOK
  BY DEF IInv
<1> QED
  BY Invariance, <1>1, PTL

\* Whichever way init has taken, execute_fromthread runs only on a chip that was
\* tested and armed, with the device open and main out of the way.
THEOREM CyclesOnlyWhenArmedCorrect == Spec => []CyclesOnlyWhenArmed
<1>1. IInv => CyclesOnlyWhenArmed
  BY DEF IInv, TypeOK, StartInv, CyclesOnlyWhenArmed, Armed
<1> QED
  BY Invariance, <1>1, PTL

\* Without a skipped cycle or an edge before the open, a frame always wakes the
\* thread by its interrupt.
THEOREM TimeoutOnlyAfterSkipCorrect == Spec => []TimeoutOnlyAfterSkip
<1>1. IInv => TimeoutOnlyAfterSkip
  BY DEF IInv, TypeOK, StartInv, EdgeInv, Undecided, TimeoutOnlyAfterSkip
<1> QED
  BY Invariance, <1>1, PTL

-----------------------------------------------------------------------------
(* Slave implements Lan9252.                                               *)

\* What a register has answered to the access under way.
Answer == data /\ Phase = "done" /\ Access \in {"WDOG", "AL"}

\* The state of Lan9252.
Seen == <<Access, Phase, Answer, WatchDog, mask, sm0, wd, op>>

\* The abstract state stays as it is.
LEMMA Stutter ==
    ASSUME UNCHANGED Seen
    PROVE  UNCHANGED LAN!vars
BY DEF Seen, Answer, LAN!vars, LAN!program

\* No access has been made at first.
LEMMA RefinementInit == Init => LAN!Init
<1> SUFFICES ASSUME Init PROVE LAN!Init
  OBVIOUS
<1>1. Access = "MASK" /\ Phase = "ahead"
  BY DEF Init, Access, Phase
<1>2. mask \in BOOLEAN /\ sm0 \in BOOLEAN /\ wd \in BOOLEAN /\ op \in BOOLEAN
  BY Zenon DEF Init
<1> QED
  BY <1>1, <1>2 DEF Init, LAN!Init

\* Every step is a step of Lan9252, or none of its concern.
LEMMA RefinementNext == IInv /\ [Next]_vars => [LAN!Next]_(LAN!vars)
<1> SUFFICES ASSUME IInv, [Next]_vars PROVE LAN!Next \/ UNCHANGED LAN!vars
  OBVIOUS
<1> USE DEF IInv, TypeOK, StartInv, CsrInv, start, driver, config, csr, bus
<1>1. CASE MainSpiInit \/ MainResetNeeded \/ MainVerify
  <2>1. UNCHANGED Seen
    BY <1>1 DEF MainSpiInit, MainResetNeeded, MainVerify, MainGoto, Fail, CycleUnchanged,
       Seen, Answer, Access, Phase
  <2> QED
    BY <2>1, Stutter
<1>2. CASE MainReset
  <2>1. /\ Access = "MASK" /\ Phase = "ahead" /\ Access' = "MASK" /\ Phase' = "ahead"
        /\ mask' = FALSE /\ sm0' = FALSE /\ op' = FALSE /\ UNCHANGED <<WatchDog, wd>>
    BY <1>2 DEF MainReset, MainGoto, CycleUnchanged, Access, Phase
  <2> QED
    BY <2>1 DEF LAN!Next, LAN!Reset, LAN!program
<1>3. CASE MainMask
  <2>1. /\ Access = "MASK" /\ Phase = "ahead" /\ Access' = "MASK" /\ Phase' = "issued"
        /\ UNCHANGED <<WatchDog, mask, sm0, wd, op>>
    BY <1>3 DEF MainMask, MainGoto, Issue, CycleUnchanged, Access, Phase
  <2> QED
    BY <2>1 DEF LAN!Next, LAN!Issue
<1>4. CASE MainMaskPoll
  <2>1. /\ Access = "MASK" /\ Phase = "done" /\ Access' = "WDOG" /\ Phase' = "ahead"
        /\ UNCHANGED <<WatchDog, mask, sm0, wd, op>>
    BY <1>4 DEF MainMaskPoll, MainGoto, CycleUnchanged, Access, Phase
  <2> QED
    BY <2>1 DEF LAN!Next, LAN!Return, LAN!Follows
<1>5. CASE MainEnable \/ MainOpen \/ MainResume \/ MainFail
  <2>1. UNCHANGED Seen
    BY <1>5 DEF MainEnable, MainOpen, MainResume, MainFail, MainGoto, Fail, CycleUnchanged,
       Seen, Answer, Access, Phase
  <2> QED
    BY <2>1, Stutter
<1>6. CASE RtStart \/ RtIrq \/ RtTimeout
  <2>1. UNCHANGED Seen
    BY <1>6 DEF RtStart, RtIrq, RtTimeout, RtGoto, Seen, Answer, Access, Phase
  <2> QED
    BY <2>1, Stutter
<1>7. CASE RtCommand \/ RtTransfer
  <2>1. /\ Phase = "ahead" /\ Phase' = "issued"
        /\ UNCHANGED <<Access, WatchDog, mask, sm0, wd, op>>
    BY <1>7 DEF RtCommand, RtTransfer, RtGoto, Issue, Access, Phase
  <2> QED
    BY <2>1 DEF LAN!Next, LAN!Issue
<1>8. CASE RtPollWatchdog
  <2>1. /\ Access = "WDOG" /\ Phase = "done" /\ Access' = "AL" /\ Phase' = "ahead"
        /\ WatchDog' = data /\ UNCHANGED <<mask, sm0, wd, op>>
    BY <1>8 DEF RtPollWatchdog, RtGoto, Access, Phase
  <2> QED
    BY <2>1 DEF LAN!Next, LAN!Return, LAN!Follows
<1>9. CASE RtPollAl
  <2>1. /\ Access = "AL" /\ Phase = "done" /\ Phase' = "ahead"
        /\ Access' = IF WatchDog \/ ~data THEN "OUTPUT" ELSE "INPUT"
        /\ UNCHANGED <<WatchDog, mask, sm0, wd, op>>
    BY <1>9 DEF RtPollAl, Access, Phase
  <2> QED
    BY <2>1 DEF LAN!Next, LAN!Return, LAN!Follows
<1>10. CASE RtReadFifo \/ RtWriteFifo
  <2>1. /\ Phase = "done" /\ Phase' = "ahead" /\ UNCHANGED <<WatchDog, mask, sm0, wd, op>>
        /\ \/ Access = "INPUT" /\ Access' = "OUTPUT"
           \/ Access = "OUTPUT" /\ Access' = "WDOG"
    BY <1>10 DEF RtReadFifo, RtWriteFifo, RtGoto, Access, Phase
  <2> QED
    BY <2>1 DEF LAN!Next, LAN!Return, LAN!Follows
<1>11. CASE Handler
  <2>1. UNCHANGED Seen
    BY <1>11 DEF Handler, Seen, Answer, Access, Phase
  <2> QED
    BY <2>1, Stutter
<1>12. CASE ChipExecute
  <2>1. /\ Phase = "issued" /\ Phase' = "done" /\ Access' = Access
        /\ Access \in {"MASK", "WDOG", "AL"} /\ command = Access
        /\ UNCHANGED <<WatchDog, sm0, wd, op>>
    BY <1>12 DEF ChipExecute, Access, Phase
  <2>2. /\ mask' = (mask \/ Access = "MASK")
        /\ data' = ((Access = "WDOG" /\ wd) \/ (Access = "AL" /\ op))
    BY <1>12, <2>1 DEF ChipExecute
  <2>3. LAN!Perform
    BY <2>1, <2>2 DEF LAN!Perform
  <2> QED
    BY <2>3 DEF LAN!Next
<1>13. CASE ChipTransfer
  <2>1. /\ Phase = "issued" /\ Phase' = "done" /\ Access' = Access
        /\ \/ Access = "INPUT" /\ sm0' = FALSE
           \/ Access = "OUTPUT" /\ sm0' = sm0
        /\ UNCHANGED <<WatchDog, mask, wd, op>>
    BY <1>13 DEF ChipTransfer, Access, Phase
  <2>2. LAN!Perform
    BY <2>1 DEF LAN!Perform
  <2> QED
    BY <2>2 DEF LAN!Next
<1>14. CASE MasterWrite \/ MasterOther
  <2>1. UNCHANGED <<main, err, rt, busy, fifo, data, WatchDog, mask>>
    BY <1>14 DEF MasterWrite, MasterOther
  <2>2. UNCHANGED <<Access, Phase>>
    BY <2>1 DEF Access, Phase
  <2>3. Answer' = Answer
    BY <2>1, <2>2, Zenon DEF Answer
  <2>4. \/ sm0' = TRUE /\ wd' = FALSE /\ op' = op
        \/ sm0' = sm0 /\ wd' \in BOOLEAN /\ op' \in BOOLEAN
    BY <1>14 DEF MasterWrite, MasterOther
  <2> QED
    BY <2>1, <2>2, <2>3, <2>4, Zenon DEF LAN!Next, LAN!Master, LAN!program, Answer
<1>15. CASE UNCHANGED vars
  <2>1. UNCHANGED Seen
    BY <1>15 DEF vars, Seen, Answer, Access, Phase
  <2> QED
    BY <2>1, Stutter
<1> QED
  BY <1>1, <1>2, <1>3, <1>4, <1>5, <1>6, <1>7, <1>8, <1>9, <1>10, <1>11, <1>12, <1>13,
     <1>14, <1>15
  DEF Next, Main, Rt, Chip

\* Read_Reg_Wait, Write_Reg_Wait and the FIFO transfers implement the accesses of
\* Lan9252, and MainTask decides by answers of its own cycle.
THEOREM Refinement == Spec => ImplementsLan9252
<1> QED
  BY Invariance, RefinementInit, RefinementNext, PTL DEF Spec, ImplementsLan9252, LAN!Spec
=============================================================================
