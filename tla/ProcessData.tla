----------------------------- MODULE ProcessData -----------------------------
(***************************************************************************)
(* The exchange of process data between the two threads of the slave.      *)
(*                                                                         *)
(* The real-time thread (rttestthread, running execute_fromthread and      *)
(* MainTask) moves 32-byte frames between the LAN9252 and shared memory.   *)
(* The application thread (the loop of main) fetches the newest frame of   *)
(* the master with receive_input and hands its own frames over with        *)
(* send_output.  No lock is involved: towards the application the frame is *)
(* guarded by m_atomiccounter, which is odd while the frame is replaced;   *)
(* towards the master frames go through the ring fromSlaveBufferIn, whose  *)
(* slot m_curqoutidx is the one to transmit.                               *)
(*                                                                         *)
(* A frame is abstracted to the number of its origin: the n-th frame that  *)
(* the master wrote, or the n-th call of send_output.  A word of a frame   *)
(* carries the number of the frame it belongs to, 0 being the zeroes of    *)
(* static storage and of a reset, so that a frame is torn exactly when two *)
(* of its words differ.  A word is the unit of one atomic access: ul[i].   *)
(*                                                                         *)
(* The accesses of the real-time thread take effect in program order: the  *)
(* two increments, the stores between them and the load of m_curqoutidx    *)
(* are separated by calls into the bcm2835 library, whose register         *)
(* accesses are fenced.  Nothing of the kind is in receive_input and       *)
(* send_output, see InOrder.                                               *)
(*                                                                         *)
(* Definitions introduced by "Fault:" are altered forms of the definition  *)
(* after them; nothing uses them, they exist to try the properties out.    *)
(*                                                                         *)
(* The initial state is the one in which main has called Resume: both      *)
(* threads run, and ETHB, a global, holds zeroes.                          *)
(***************************************************************************)
EXTENDS Integers

CONSTANTS
    Words,       \* the 64-bit words ul[0..3] of a PROCBUFFER
    QINSize,     \* number of slots of fromSlaveBufferIn
    CounterMod,  \* number of values of m_atomiccounter, 2^32 in the code
    InOrder,     \* TRUE: the application's accesses take effect in program
                 \* order.  FALSE: as ARMv8 may reorder them, there being no
                 \* barrier in receive_input and send_output
    MaxFrames,   \* bound: number of frames the master writes
    MaxSends     \* bound: number of calls of send_output

ASSUME WordsAssumption == Words # {}
ASSUME QINSizeAssumption == QINSize \in Nat /\ QINSize >= 2
ASSUME CounterModAssumption ==
    CounterMod \in Nat /\ CounterMod >= 2 /\ CounterMod % 2 = 0
ASSUME BoundsAssumption ==
    InOrder \in BOOLEAN /\ MaxFrames \in Nat /\ MaxSends \in Nat

VARIABLES
    \* shared memory
    m_atomiccounter, m_BufferOutEthToSlaveBuffer,
    fromSlaveBufferIn, m_curqidx, m_curqoutidx,
    \* real-time thread: control, words left in the current copy, locals
    rt, rtleft, WatchDog, Operational, BufferOut, BufferIn, rtidx,
    \* application thread: control, words left in the current copy, locals
    app, appleft, localcounter, lastcounter, BufferfromEthCAT, sent,
    \* LAN9252, as far as the master and the threads see it
    outputRam, inputRam, wdExpired, alOp,
    \* history: never read by an action that is not itself history
    base,    \* the frame that the shared buffer held when last complete
    rbase,   \* base when the current copy of receive_input began
    moved,   \* changes of m_atomiccounter during that copy (saturating)
    rtsent,  \* value of sent when the real-time thread loaded m_curqoutidx
    laps     \* calls of send_output completed during its copy (saturating)

shared  == <<m_atomiccounter, m_BufferOutEthToSlaveBuffer>>
ring    == <<fromSlaveBufferIn, m_curqidx, m_curqoutidx>>
rtlocal == <<WatchDog, Operational, BufferOut, BufferIn, rtidx>>
rtvars  == <<rt, rtleft, rtlocal>>
receive == <<localcounter, lastcounter, BufferfromEthCAT>>
appvars == <<app, appleft, receive, sent>>
chip    == <<outputRam, inputRam, wdExpired, alOp>>
inhist  == <<base, rbase, moved>>
outhist == <<rtsent, laps>>
vars    == <<shared, ring, rtvars, appvars, chip, inhist, outhist>>

Zeroes == [w \in Words |-> 0]
Slots  == 0 .. QINSize - 1

\* unsigned int increment of m_atomiccounter
Inc(c) == IF c + 1 = CounterMod THEN 0 ELSE c + 1

\* Fault: > for >= where m_curqidx wraps.
NextQ_OffByOne(i) == IF i + 1 > QINSize THEN 0 ELSE i + 1

\* m_curqidx++, back to 0 at the end of the ring
NextQ(i) == IF i + 1 >= QINSize THEN 0 ELSE i + 1

Init ==
    /\ m_atomiccounter = 0 /\ m_BufferOutEthToSlaveBuffer = Zeroes
    /\ fromSlaveBufferIn = [i \in Slots |-> Zeroes]
    /\ m_curqidx = 0 /\ m_curqoutidx = 0
    /\ rt = "wait" /\ rtleft = {} /\ WatchDog = FALSE /\ Operational = FALSE
    /\ BufferOut = Zeroes /\ BufferIn = Zeroes /\ rtidx = 0
    /\ app = "first" /\ appleft = Words
    /\ localcounter = 0 /\ lastcounter = 0 /\ BufferfromEthCAT = Zeroes
    /\ sent = 0
    /\ outputRam = 0 /\ inputRam = Zeroes
    /\ wdExpired \in BOOLEAN /\ alOp \in BOOLEAN
    /\ base = 0 /\ rbase = 0 /\ moved = 0 /\ rtsent = 0 /\ laps = 0

-----------------------------------------------------------------------------
(* The real-time thread: one cycle of execute_fromthread.                  *)

\* waitforirq_or_timeout returns, on an interrupt or after 100 ms, and
\* MainTask begins; the cycle does not depend on which of the two it was.
RtWake ==
    /\ rt = "wait" /\ rt' = "wdog"
    /\ UNCHANGED <<shared, ring, rtleft, rtlocal, appvars, chip, inhist, outhist>>

\* Fault: the polarity of the watchdog bit is mistaken.
RtReadWatchdog_Inverted ==
    /\ rt = "wdog" /\ rt' = "al"
    /\ WatchDog' = ~wdExpired
    /\ UNCHANGED <<shared, ring, rtleft, Operational, BufferOut, BufferIn, rtidx,
                   appvars, chip, inhist, outhist>>

\* MainTask: the watchdog is read first ...
RtReadWatchdog ==
    /\ rt = "wdog" /\ rt' = "al"
    /\ WatchDog' = wdExpired
    /\ UNCHANGED <<shared, ring, rtleft, Operational, BufferOut, BufferIn, rtidx,
                   appvars, chip, inhist, outhist>>

\* ... and the state of the EtherCAT state machine in a second access, after
\* which it is settled whether this cycle reads or resets.
RtReadAlStatus ==
    /\ rt = "al"
    /\ Operational' = alOp
    /\ rt' = IF WatchDog \/ ~alOp THEN "reset" ELSE "begin"
    /\ UNCHANGED <<shared, ring, rtleft, WatchDog, BufferOut, BufferIn, rtidx,
                   appvars, chip, inhist, outhist>>

\* Watchdog expired or not operational: BufferOut is zeroed.
RtReset ==
    /\ rt = "reset" /\ rt' = "index"
    /\ BufferOut' = Zeroes
    /\ UNCHANGED <<shared, ring, rtleft, WatchDog, Operational, BufferIn, rtidx,
                   appvars, chip, inhist, outhist>>

\* A change of m_atomiccounter, as the copy in receive_input lives to see it.
BumpCounter ==
    /\ m_atomiccounter' = Inc(m_atomiccounter)
    /\ moved' = IF app = "last" /\ moved < CounterMod THEN moved + 1 ELSE moved

\* Fault: the first increment is missing.
RtBeginRead_NoIncrement ==
    /\ rt = "begin" /\ rt' = "fifo"
    /\ UNCHANGED <<shared, ring, rtleft, rtlocal, appvars, chip, inhist, outhist>>

\* SPIReadProcRamFifo: first increment, the counter becomes odd.
RtBeginRead ==
    /\ rt = "begin" /\ rt' = "fifo"
    /\ BumpCounter
    /\ UNCHANGED <<m_BufferOutEthToSlaveBuffer, ring, rtleft, rtlocal, appvars,
                   chip, base, rbase, outhist>>

\* The chip hands over the newest complete frame of the master (external:
\* the sync manager never delivers a mixture), byte by byte into BufferOut.
RtReadFifo ==
    /\ rt = "fifo" /\ rt' = "publish"
    /\ BufferOut' = [w \in Words |-> outputRam]
    /\ rtleft' = Words
    /\ UNCHANGED <<shared, ring, WatchDog, Operational, BufferIn, rtidx, appvars,
                   chip, inhist, outhist>>

\* m_BufferOutEthToSlaveBuffer = BufferOut, one word at a time.
RtPublishWord(w) ==
    /\ rt = "publish" /\ w \in rtleft
    /\ m_BufferOutEthToSlaveBuffer' =
           [m_BufferOutEthToSlaveBuffer EXCEPT ![w] = BufferOut[w]]
    /\ rtleft' = rtleft \ {w}
    /\ UNCHANGED <<m_atomiccounter, ring, rt, rtlocal, appvars, chip, inhist, outhist>>

\* Second increment, the counter becomes even again.
RtEndRead ==
    /\ rt = "publish" /\ rtleft = {} /\ rt' = "index"
    /\ BumpCounter
    /\ base' \in {BufferOut[w] : w \in Words}
    /\ UNCHANGED <<m_BufferOutEthToSlaveBuffer, ring, rtleft, rtlocal, appvars,
                   chip, rbase, outhist>>

\* Fault: the index of the slot being filled is loaded instead.
RtLoadIndex_InputIndex ==
    /\ rt = "index" /\ rt' = "copy"
    /\ rtidx' = m_curqidx
    /\ rtleft' = Words
    /\ rtsent' = sent /\ laps' = 0
    /\ UNCHANGED <<shared, ring, WatchDog, Operational, BufferOut, BufferIn,
                   appvars, chip, inhist>>

\* Fault: the slot is copied only if the index has changed.
RtLoadIndex_Cached ==
    /\ rt = "index" /\ rt' = "copy"
    /\ rtidx' = m_curqoutidx
    /\ rtleft' = IF rtidx = m_curqoutidx THEN {} ELSE Words
    /\ rtsent' = sent /\ laps' = 0
    /\ UNCHANGED <<shared, ring, WatchDog, Operational, BufferOut, BufferIn,
                   appvars, chip, inhist>>

\* SPIWriteProcRamFifo: BufferIn = fromSlaveBufferIn[m_curqoutidx].  The
\* index is loaded once, the words of the slot after it.
RtLoadIndex ==
    /\ rt = "index" /\ rt' = "copy"
    /\ rtidx' = m_curqoutidx
    /\ rtleft' = Words
    /\ rtsent' = sent /\ laps' = 0
    /\ UNCHANGED <<shared, ring, WatchDog, Operational, BufferOut, BufferIn,
                   appvars, chip, inhist>>

RtCopyWord(w) ==
    /\ rt = "copy" /\ w \in rtleft
    /\ BufferIn' = [BufferIn EXCEPT ![w] = fromSlaveBufferIn[rtidx][w]]
    /\ rtleft' = rtleft \ {w}
    /\ UNCHANGED <<shared, ring, rt, WatchDog, Operational, BufferOut, rtidx,
                   appvars, chip, inhist, outhist>>

\* The 32 bytes go to the chip and the cycle ends.
RtWriteFifo ==
    /\ rt = "copy" /\ rtleft = {} /\ rt' = "wait"
    /\ inputRam' = BufferIn
    /\ UNCHANGED <<shared, ring, rtleft, rtlocal, appvars, outputRam, wdExpired, alOp,
                   inhist, outhist>>

RtNext ==
    \/ RtWake \/ RtReadWatchdog \/ RtReadAlStatus \/ RtReset
    \/ RtBeginRead \/ RtReadFifo \/ RtEndRead
    \/ RtLoadIndex \/ RtWriteFifo
    \/ \E w \in Words : RtPublishWord(w) \/ RtCopyWord(w)

-----------------------------------------------------------------------------
(* The application thread: the loop of main.                               *)

Receiving == app \in {"first", "last", "check"}

\* Fault: the counter is loaded before the loop only.
ReceiveFirst_LoadedOnce ==
    /\ app = "first" /\ app' = "last"
    /\ UNCHANGED localcounter
    /\ rbase' = base /\ moved' = 0
    /\ UNCHANGED <<shared, ring, rtvars, appleft, lastcounter, BufferfromEthCAT,
                   sent, chip, base, outhist>>

\* receive_input: localcounter = m_atomiccounter
ReceiveFirst ==
    /\ app = "first" /\ app' = "last"
    /\ localcounter' = m_atomiccounter
    /\ rbase' = base /\ moved' = 0
    /\ UNCHANGED <<shared, ring, rtvars, appleft, lastcounter, BufferfromEthCAT,
                   sent, chip, base, outhist>>

\* Fault: the private BufferOut is copied instead of the shared buffer.
ReceiveWord_Private(w) ==
    /\ Receiving /\ (InOrder => app = "last")
    /\ w \in appleft /\ appleft' = appleft \ {w}
    /\ BufferfromEthCAT' = [BufferfromEthCAT EXCEPT ![w] = BufferOut[w]]
    /\ UNCHANGED <<shared, ring, rtvars, app, localcounter, lastcounter, sent,
                   chip, inhist, outhist>>

\* *pBufferOut = m_BufferOutEthToSlaveBuffer, one word at a time: between the
\* two loads of the counter in program order, at any time in the iteration
\* otherwise.
ReceiveWord(w) ==
    /\ Receiving /\ (InOrder => app = "last")
    /\ w \in appleft /\ appleft' = appleft \ {w}
    /\ BufferfromEthCAT' =
           [BufferfromEthCAT EXCEPT ![w] = m_BufferOutEthToSlaveBuffer[w]]
    /\ UNCHANGED <<shared, ring, rtvars, app, localcounter, lastcounter, sent,
                   chip, inhist, outhist>>

\* The second load of m_atomiccounter, in the condition of the loop.
ReceiveLast ==
    /\ app = "last" /\ app' = "check"
    /\ InOrder => appleft = {}
    /\ lastcounter' = m_atomiccounter
    /\ UNCHANGED <<shared, ring, rtvars, appleft, localcounter, BufferfromEthCAT,
                   sent, chip, inhist, outhist>>

\* while (localcounter != m_atomiccounter): copy again, or return.
ReceiveCheck ==
    /\ app = "check" /\ appleft = {}
    /\ app' = IF localcounter # lastcounter THEN "first" ELSE "send"
    /\ appleft' = Words
    /\ UNCHANGED <<shared, ring, rtvars, receive, sent, chip, inhist, outhist>>

\* send_output: the words of the frame go into slot m_curqidx ...
SendWord(w) ==
    /\ app = "send" /\ sent < MaxSends
    /\ w \in appleft /\ appleft' = appleft \ {w}
    /\ fromSlaveBufferIn' = [fromSlaveBufferIn EXCEPT ![m_curqidx][w] = sent + 1]
    /\ UNCHANGED <<shared, m_curqidx, m_curqoutidx, rtvars, app, receive, sent,
                   chip, inhist, outhist>>

\* Fault: m_curqoutidx is assigned after m_curqidx has moved on.
SendPublish_Swapped ==
    /\ app = "send" /\ sent < MaxSends /\ app' = "sleep"
    /\ InOrder => appleft = {}
    /\ m_curqoutidx' = NextQ(m_curqidx)
    /\ m_curqidx' = NextQ(m_curqidx)
    /\ sent' = sent + 1
    /\ laps' = IF rt = "copy" /\ laps < QINSize - 1 THEN laps + 1 ELSE laps
    /\ UNCHANGED <<shared, fromSlaveBufferIn, rtvars, appleft, receive, chip,
                   inhist, rtsent>>

\* Fault: m_curqidx is not moved on.
SendPublish_NoAdvance ==
    /\ app = "send" /\ sent < MaxSends /\ app' = "sleep"
    /\ InOrder => appleft = {}
    /\ m_curqoutidx' = m_curqidx
    /\ sent' = sent + 1
    /\ laps' = IF rt = "copy" /\ laps < QINSize - 1 THEN laps + 1 ELSE laps
    /\ UNCHANGED <<shared, fromSlaveBufferIn, m_curqidx, rtvars, appleft, receive,
                   chip, inhist, rtsent>>

\* ... and the slot is announced in m_curqoutidx.
SendPublish ==
    /\ app = "send" /\ sent < MaxSends /\ app' = "sleep"
    /\ InOrder => appleft = {}
    /\ m_curqoutidx' = m_curqidx
    /\ m_curqidx' = NextQ(m_curqidx)
    /\ sent' = sent + 1
    /\ laps' = IF rt = "copy" /\ laps < QINSize - 1 THEN laps + 1 ELSE laps
    /\ UNCHANGED <<shared, fromSlaveBufferIn, rtvars, appleft, receive, chip,
                   inhist, rtsent>>

\* A store of the frame that is seen only after the store of m_curqoutidx.
SendWordLate(w) ==
    /\ ~InOrder
    /\ app = "sleep"
    /\ w \in appleft /\ appleft' = appleft \ {w}
    /\ fromSlaveBufferIn' = [fromSlaveBufferIn EXCEPT ![m_curqoutidx][w] = sent]
    /\ UNCHANGED <<shared, m_curqidx, m_curqoutidx, rtvars, app, receive, sent,
                   chip, inhist, outhist>>

\* bashoutput and milisleep(100): long enough for every store to be seen.
AppSleep ==
    /\ app = "sleep" /\ appleft = {} /\ app' = "first"
    /\ appleft' = Words
    /\ UNCHANGED <<shared, ring, rtvars, receive, sent, chip, inhist, outhist>>

AppNext ==
    \/ ReceiveFirst \/ ReceiveLast \/ ReceiveCheck \/ SendPublish \/ AppSleep
    \/ \E w \in Words : ReceiveWord(w) \/ SendWord(w) \/ SendWordLate(w)

-----------------------------------------------------------------------------
(* The master and the chip (external).                                     *)

\* A new output frame arrives, which also restarts the watchdog.
MasterWrite ==
    /\ outputRam < MaxFrames
    /\ outputRam' = outputRam + 1 /\ wdExpired' = FALSE
    /\ UNCHANGED <<shared, ring, rtvars, appvars, inputRam, alOp, inhist, outhist>>

\* No frame for too long.
WatchdogExpires ==
    /\ ~wdExpired /\ wdExpired' = TRUE
    /\ UNCHANGED <<shared, ring, rtvars, appvars, outputRam, inputRam, alOp, inhist,
                   outhist>>

\* The master takes the slave to or out of the operational state.
MasterSetState ==
    /\ alOp' = ~alOp
    /\ UNCHANGED <<shared, ring, rtvars, appvars, outputRam, inputRam, wdExpired,
                   inhist, outhist>>

EnvNext == MasterWrite \/ WatchdogExpires \/ MasterSetState

Next == RtNext \/ AppNext \/ EnvNext

Spec == Init /\ [][Next]_vars

\* The application thread is scheduled: it sleeps for 100 ms and is runnable
\* otherwise.  The real-time thread may hang, for instance in one of the
\* unbounded polls of MainTask.
FairSpec == Spec /\ WF_vars(AppNext)

\* The real-time thread does not hang: it has priority 88 under SCHED_FIFO and
\* waits for an interrupt for at most 100 ms.
RtRuns == WF_vars(RtNext)
-----------------------------------------------------------------------------
(* Properties.                                                             *)

Buffers == [Words -> Nat]

\* Every variable keeps its type: the indexes stay inside the ring, the
\* counters inside their range.
TypeOK ==
    /\ m_atomiccounter \in 0 .. CounterMod - 1
    /\ m_BufferOutEthToSlaveBuffer \in Buffers
    /\ fromSlaveBufferIn \in [Slots -> Buffers]
    /\ m_curqidx \in Slots /\ m_curqoutidx \in Slots
    /\ rt \in {"wait", "wdog", "al", "reset", "begin", "fifo", "publish", "index", "copy"}
    /\ rtleft \in SUBSET Words
    /\ WatchDog \in BOOLEAN /\ Operational \in BOOLEAN
    /\ BufferOut \in Buffers /\ BufferIn \in Buffers /\ rtidx \in Slots
    /\ app \in {"first", "last", "check", "send", "sleep"}
    /\ appleft \in SUBSET Words
    /\ localcounter \in 0 .. CounterMod - 1 /\ lastcounter \in 0 .. CounterMod - 1
    /\ BufferfromEthCAT \in Buffers
    /\ sent \in 0 .. MaxSends
    /\ outputRam \in 0 .. MaxFrames /\ inputRam \in Buffers
    /\ wdExpired \in BOOLEAN /\ alOp \in BOOLEAN
    /\ base \in Nat /\ rbase \in Nat /\ moved \in 0 .. CounterMod
    /\ rtsent \in 0 .. MaxSends /\ laps \in 0 .. QINSize - 1

\* What the retry loop of receive_input is good for when accesses are made in
\* program order and m_atomiccounter did not run once around its range during
\* the copy.  The copy it returns has no word older than the frame that was
\* complete when the copy began, has words of at most one other frame, and is
\* exactly that complete frame if the copy began while the counter was even.
InputTearBounded ==
    (~Receiving /\ moved < CounterMod) =>
        /\ \E f \in 0 .. MaxFrames : \A w \in Words : BufferfromEthCAT[w] \in {rbase, f}
        /\ \A w \in Words : BufferfromEthCAT[w] >= rbase
        /\ localcounter % 2 = 0 => BufferfromEthCAT = [w \in Words |-> rbase]

\* Word by word, what receive_input stores never goes back to an older frame
\* of the master, whatever the order of its loads and however often it retries;
\* nor does it go back to zeroes, since a reset stops at BufferOut.
InputNeverGoesBack ==
    [][\A w \in Words : BufferfromEthCAT'[w] >= BufferfromEthCAT[w]]_BufferfromEthCAT

\* The ring of send_output, with accesses in program order.  Once a frame has
\* been sent, the frame that SPIWriteProcRamFifo transmits is, in all its
\* words, the newest one that was announced when m_curqoutidx was loaded, as
\* long as fewer than QINSize - 1 calls of send_output end during the copy.
\* The first frame is left out with reason: until it has been announced, both
\* indexes are 0 and slot 0 is transmitted while it is filled.
OutputIntact ==
    (rt # "copy" /\ rtsent > 0 /\ laps < QINSize - 1) =>
        inputRam = [w \in Words |-> rtsent]

\* Without that order a transmitted frame can be mixed, but a word in it that
\* is not of the announced frame is what the slot held one lap before.
OutputStaleOneLap ==
    (rt # "copy" /\ rtsent > 0 /\ laps < QINSize - 1) =>
        \A w \in Words :
            inputRam[w] \in {rtsent, IF rtsent > QINSize THEN rtsent - QINSize ELSE 0}

\* A frame given to send_output, or a newer one, reaches the chip if the
\* real-time thread does not hang.
OutputDelivered ==
    RtRuns => \A n \in 1 .. MaxSends : sent >= n ~> \A w \in Words : inputRam[w] >= n

\* A frame of the master, or a newer one, reaches the buffer that receive_input
\* reads, provided that the real-time thread does not hang and the slave ends up
\* operational with a live watchdog.
InputPublished ==
    (RtRuns /\ <>[](alOp /\ ~wdExpired)) =>
        \A n \in 1 .. MaxFrames :
            outputRam >= n ~> \A w \in Words : m_BufferOutEthToSlaveBuffer[w] >= n

\* receive_input does not wait for the real-time thread: it returns if that
\* thread stops changing m_atomiccounter, even if it stops at an odd value.
ReceiveReturns ==
    \A c \in 0 .. CounterMod - 1 :
        <>[](m_atomiccounter = c) => (Receiving ~> ~Receiving)

\* In program order a transmitted word is never older than the frame announced when
\* the cycle loaded m_curqoutidx; otherwise it may be of the lap before.
Lag == IF InOrder THEN 0 ELSE QINSize

\* The first word of the next frame has been stored in the ring.
begun == IF app = "send" /\ appleft # Words THEN sent + 1 ELSE sent

FX == INSTANCE FrameExchange WITH
          master <- outputRam, delivered <- BufferfromEthCAT, announced <- sent,
          cycle <- rt = "copy", taken <- rtsent, transmitted <- inputRam

\* The two buffers, the counter, the ring and its indexes together keep the promises
\* of FrameExchange, from the first frame on and however often the copy of
\* SPIWriteProcRamFifo is lapped: no word is invented, words reach the application
\* in the order of the master, and no word reaches the master more than a lap late.
ImplementsFrameExchange == FX!Spec

\* The frame that receive_input returns is one frame of the master, as the
\* guard m_atomiccounter is there to ensure.  It is not: a copy that begins and
\* ends at the same odd value is accepted.
ReceivedFrameIntact ==
    ~Receiving => \A v, w \in Words : BufferfromEthCAT[v] = BufferfromEthCAT[w]

\* "if watchdog is active or we are not in operational state, reset the input
\* buffer": after such a cycle the application finds zeroes.  It does not:
\* m_BufferOutEthToSlaveBuffer is left as it was.
ResetReachesApplication ==
    (rt = "index" /\ (WatchDog \/ ~Operational)) =>
        m_BufferOutEthToSlaveBuffer = Zeroes
=============================================================================
