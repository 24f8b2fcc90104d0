-------------------------------- MODULE Slave --------------------------------
(***************************************************************************)
(* The slave as a whole, from the start of main to the cycles of the       *)
(* real-time thread: start-up and reset of the LAN9252, its registers      *)
(* behind a command that is polled, its interrupt, the driver's semaphore  *)
(* and the timeout.                                                        *)
(*                                                                         *)
(* The parts that have modules of their own are reduced to what the others *)
(* see of them: the data of a frame (ProcessData), the open of the driver  *)
(* and its wait (GpioIrq, DownTimeout), the held thread (RtThread).        *)
(*                                                                         *)
(* External: the chip.  Its pin is up while the event of sync manager 0 is *)
(* set, unmasked and enabled; the event is set when the master writes and  *)
(* cleared when the buffer is read.  The pin reaches the driver inverted,  *)
(* as a falling edge, once the device is open.  The chip survives the      *)
(* program: at the start it may still be armed by an earlier run.          *)
(***************************************************************************)
EXTENDS Integers

CONSTANT MaxFrames   \* bound: number of frames the master writes

ASSUME MaxFramesAssumption == MaxFrames \in Nat

VARIABLES
    main, err, resumed,       \* control of main, status of init, Resume called
    rt, WatchDog,             \* control of the real-time thread, a local of MainTask
    dev, pend, sem,           \* device open, edge not handled yet, irq_lsigsema
    ready, test,              \* READY of HW_CFG, BYTE_TEST reads 0x87654321
    mask, irqcfg, inten,      \* AL_EVENT_MASK, IRQ_CFG, INT_EN are set
    busy, command,            \* ECAT_CSR_CMD: busy bit, register addressed
    data,                     \* ECAT_CSR_DATA
    fifo,                     \* state of a FIFO transfer
    sm0, wd, op, frames,      \* event pending, watchdog expired, state is OP
    skipped                   \* history: the pin was up and its edge is past

start  == <<main, err, resumed>>
driver == <<dev, pend, sem>>
config == <<mask, irqcfg, inten>>
csr    == <<busy, command, data>>
bus    == <<sm0, wd, op, frames>>
vars   == <<start, rt, WatchDog, driver, ready, test, config, csr, fifo, bus, skipped>>

Armed == mask /\ irqcfg /\ inten
Pin   == Armed /\ sm0

Init ==
    /\ main = "bcm" /\ err = 0 /\ resumed = FALSE
    /\ rt = "held" /\ WatchDog = FALSE
    /\ dev = FALSE /\ pend = FALSE /\ sem = 0
    /\ ready \in BOOLEAN /\ test \in BOOLEAN
    /\ \E armed \in BOOLEAN : mask = armed /\ irqcfg = armed /\ inten = armed
    /\ busy = FALSE /\ command = "none" /\ data = FALSE
    /\ fifo = "idle"
    /\ sm0 \in BOOLEAN /\ wd \in BOOLEAN /\ op \in BOOLEAN /\ frames = 0
    /\ skipped = FALSE

-----------------------------------------------------------------------------
(* main and etherberry_9252::init.                                         *)

MainGoto(from, to) == main = from /\ main' = to

\* What no step of main before Resume touches.
CycleUnchanged == UNCHANGED <<rt, WatchDog, pend, fifo, wd, frames>>

\* init returns an error code, and main takes its failure path.
Fail(from, code) == MainGoto(from, "fail") /\ err' = code

\* spi_init: bcm2835_init, then bcm2835_spi_begin.
MainSpiInit ==
    /\ \/ MainGoto("bcm", "spi") /\ UNCHANGED err
       \/ Fail("bcm", -10)
       \/ MainGoto("spi", "ready") /\ UNCHANGED err
       \/ Fail("spi", -9)
    /\ CycleUnchanged
    /\ UNCHANGED <<resumed, dev, sem, ready, test, config, csr, sm0, op, skipped>>

\* is_resetneeded: READY is looked at first, then the test register.
MainResetNeeded ==
    /\ \/ MainGoto("ready", IF ready THEN "test" ELSE "rst1")
       \/ MainGoto("test", IF test THEN "mask" ELSE "rst1")
    /\ CycleUnchanged
    /\ UNCHANGED <<err, resumed, dev, sem, ready, test, config, csr, sm0, op, skipped>>

\* do_resetshield: DIGITAL_RST, twice.  What the chip answers afterwards is open.
MainReset ==
    /\ \/ MainGoto("rst1", "rst2")
       \/ MainGoto("rst2", "verify")
    /\ ready' \in BOOLEAN /\ test' \in BOOLEAN
    /\ mask' = FALSE /\ irqcfg' = FALSE /\ inten' = FALSE
    /\ sm0' = FALSE /\ op' = FALSE
    /\ CycleUnchanged
    /\ UNCHANGED <<err, resumed, dev, sem, csr, skipped>>

\* Fault: the result of do_resetshield is not looked at.
MainVerify_Ignored ==
    /\ MainGoto("verify", "mask") /\ UNCHANGED err
    /\ CycleUnchanged
    /\ UNCHANGED <<resumed, dev, sem, ready, test, config, csr, sm0, op, skipped>>

\* Fault: the reset is tried again for as long as it fails.
MainVerify_Retry ==
    /\ MainGoto("verify", IF test THEN "mask" ELSE "rst1") /\ UNCHANGED err
    /\ CycleUnchanged
    /\ UNCHANGED <<resumed, dev, sem, ready, test, config, csr, sm0, op, skipped>>

\* do_resetshield: the test register decides.
MainVerify ==
    /\ \/ test /\ MainGoto("verify", "mask") /\ UNCHANGED err
       \/ ~test /\ Fail("verify", -9)
    /\ CycleUnchanged
    /\ UNCHANGED <<resumed, dev, sem, ready, test, config, csr, sm0, op, skipped>>

\* Write_Reg_Wait and Read_Reg_Wait issue a command ...
Issue(reg) == busy' = TRUE /\ command' = reg /\ UNCHANGED data

\* do_initirq: Write_Reg_Wait(AL_EVENT_MASK_REG_0)
MainMask ==
    /\ MainGoto("mask", "maskpoll") /\ Issue("MASK")
    /\ CycleUnchanged
    /\ UNCHANGED <<err, resumed, dev, sem, ready, test, config, sm0, op, skipped>>

\* ... and poll until the chip is not busy.
MainMaskPoll ==
    /\ MainGoto("maskpoll", "irqcfg") /\ ~busy
    /\ CycleUnchanged
    /\ UNCHANGED <<err, resumed, dev, sem, ready, test, config, csr, sm0, op, skipped>>

\* do_initirq: IRQ_CFG, then INT_EN.
MainEnable ==
    /\ \/ MainGoto("irqcfg", "inten") /\ irqcfg' = TRUE /\ UNCHANGED inten
       \/ MainGoto("inten", "open") /\ inten' = TRUE /\ UNCHANGED irqcfg
    /\ CycleUnchanged
    /\ UNCHANGED <<err, resumed, dev, sem, ready, test, mask, csr, sm0, op, skipped>>

\* do_initirq: open.  A pin that is up already makes no edge any more.
MainOpen ==
    /\ \/ /\ MainGoto("open", "resume") /\ UNCHANGED err
          /\ dev' = TRUE /\ sem' = 0 /\ skipped' = Pin
       \/ Fail("open", -27) /\ UNCHANGED <<dev, sem, skipped>>
    /\ CycleUnchanged
    /\ UNCHANGED <<resumed, ready, test, config, csr, sm0, op>>

\* mytestthread.Resume(), and the loop of main.
MainResume ==
    /\ MainGoto("resume", "run") /\ resumed' = TRUE
    /\ CycleUnchanged
    /\ UNCHANGED <<err, dev, sem, ready, test, config, csr, sm0, op, skipped>>

\* The failure path: the bus is released and main returns.
MainFail ==
    /\ MainGoto("fail", "exit")
    /\ CycleUnchanged
    /\ UNCHANGED <<err, resumed, dev, sem, ready, test, config, csr, sm0, op, skipped>>

Main ==
    \/ MainSpiInit \/ MainResetNeeded \/ MainReset \/ MainVerify \/ MainMask
    \/ MainMaskPoll \/ MainEnable \/ MainOpen \/ MainResume \/ MainFail

-----------------------------------------------------------------------------
(* execute_fromthread and MainTask.                                        *)

RtGoto(from, to) == rt = from /\ rt' = to

\* The thread, created held, begins.
RtStart ==
    /\ RtGoto("held", "wait") /\ resumed
    /\ UNCHANGED <<start, WatchDog, driver, ready, test, config, csr, fifo, bus, skipped>>

\* Fault: the wait ends without the semaphore.
RtIrq_Unchecked ==
    /\ RtGoto("wait", "wdcmd") /\ sem' = sem - 1
    /\ UNCHANGED <<start, WatchDog, dev, pend, ready, test, config, csr, fifo, bus, skipped>>

\* waitforirq_or_timeout: the semaphore is obtained ...
RtIrq ==
    /\ RtGoto("wait", "wdcmd") /\ sem > 0 /\ sem' = sem - 1
    /\ UNCHANGED <<start, WatchDog, dev, pend, ready, test, config, csr, fifo, bus, skipped>>

\* Fault: the wait is without a timeout, as IRQMOD_WAIT_IRQ is.
RtTimeout_Endless ==
    /\ RtGoto("wait", "wdcmd") /\ sem > 0
    /\ UNCHANGED <<start, WatchDog, driver, ready, test, config, csr, fifo, bus, skipped>>

\* ... or 100 ms pass; the cycle is the same.
RtTimeout ==
    /\ RtGoto("wait", "wdcmd") /\ sem = 0
    /\ UNCHANGED <<start, WatchDog, driver, ready, test, config, csr, fifo, bus, skipped>>

\* Read_Reg_Wait(WDOG_STATUS) and Read_Reg_Wait(AL_STATUS_REG_0)
RtCommand ==
    /\ \/ RtGoto("wdcmd", "wdpoll") /\ Issue("WDOG")
       \/ RtGoto("alcmd", "alpoll") /\ Issue("AL")
    /\ UNCHANGED <<start, WatchDog, driver, ready, test, config, fifo, bus, skipped>>

\* Fault: ECAT_CSR_DATA is read without a poll.
RtPollWatchdog_NoWait ==
    /\ RtGoto("wdpoll", "alcmd")
    /\ WatchDog' = data
    /\ UNCHANGED <<start, driver, ready, test, config, csr, fifo, bus, skipped>>

\* The answer of the watchdog register.
RtPollWatchdog ==
    /\ RtGoto("wdpoll", "alcmd") /\ ~busy
    /\ WatchDog' = data
    /\ UNCHANGED <<start, driver, ready, test, config, csr, fifo, bus, skipped>>

\* The answer of the state register decides whether the data are read.  If not,
\* a pin that is up stays up.
RtPollAl ==
    /\ rt = "alpoll" /\ ~busy
    /\ IF WatchDog \/ ~data
       THEN rt' = "wrcmd" /\ skipped' = (skipped \/ sm0)
       ELSE rt' = "rdcmd" /\ UNCHANGED skipped
    /\ UNCHANGED <<start, WatchDog, driver, ready, test, config, csr, fifo, bus>>

\* SPIReadProcRamFifo and SPIWriteProcRamFifo: a transfer is started ...
RtTransfer ==
    /\ \/ RtGoto("rdcmd", "rdpoll") /\ fifo' = "read"
       \/ RtGoto("wrcmd", "wrpoll") /\ fifo' = "write"
    /\ UNCHANGED <<start, WatchDog, driver, ready, test, config, csr, bus, skipped>>

\* ... the status polled until 8 words are there, and the words fetched ...
RtReadFifo ==
    /\ RtGoto("rdpoll", "wrcmd") /\ fifo = "avail" /\ fifo' = "idle"
    /\ UNCHANGED <<start, WatchDog, driver, ready, test, config, csr, bus, skipped>>

\* Fault: what the semaphore has counted during the cycle is dropped.
RtWriteFifo_Drains ==
    /\ RtGoto("wrpoll", "wait") /\ fifo = "avail" /\ fifo' = "idle"
    /\ sem' = 0
    /\ UNCHANGED <<start, WatchDog, dev, pend, ready, test, config, csr, bus, skipped>>

\* ... or until there is space for 8, and the words stored.  The cycle ends.
RtWriteFifo ==
    /\ RtGoto("wrpoll", "wait") /\ fifo = "avail" /\ fifo' = "idle"
    /\ UNCHANGED <<start, WatchDog, driver, ready, test, config, csr, bus, skipped>>

Rt ==
    \/ RtStart \/ RtIrq \/ RtTimeout \/ RtCommand \/ RtPollWatchdog \/ RtPollAl
    \/ RtTransfer \/ RtReadFifo \/ RtWriteFifo

-----------------------------------------------------------------------------
(* The driver, the chip and the master.                                    *)

\* r_irq_handler
Handler ==
    /\ pend /\ pend' = FALSE /\ sem' = sem + 1
    /\ UNCHANGED <<start, rt, WatchDog, dev, ready, test, config, csr, fifo, bus, skipped>>

\* The chip executes the command: it writes the mask, or answers.
ChipExecute ==
    /\ busy /\ busy' = FALSE
    /\ mask' = (mask \/ command = "MASK")
    /\ data' = ((command = "WDOG" /\ wd) \/ (command = "AL" /\ op))
    /\ UNCHANGED <<start, rt, WatchDog, driver, ready, test, irqcfg, inten, command,
                   fifo, bus, skipped>>

\* The chip fills its FIFO from the process RAM, which takes the event back, or
\* has space for what it is to be sent.
ChipTransfer ==
    /\ \/ fifo = "read" /\ sm0' = FALSE /\ skipped' = FALSE
       \/ fifo = "write" /\ UNCHANGED <<sm0, skipped>>
    /\ fifo' = "avail"
    /\ UNCHANGED <<start, rt, WatchDog, driver, ready, test, config, csr, wd, op, frames>>

Chip == ChipExecute \/ ChipTransfer

\* A frame: the event is set, the pin goes up unless it is up, and the driver
\* gets an edge if the device is open.
MasterWrite ==
    /\ frames < MaxFrames /\ frames' = frames + 1
    /\ sm0' = TRUE /\ wd' = FALSE
    /\ pend' = (pend \/ (dev /\ Armed /\ ~sm0))
    /\ UNCHANGED <<start, rt, WatchDog, dev, sem, ready, test, config, csr, fifo, op,
                   skipped>>

\* The watchdog expires, or the master changes the state.
MasterOther ==
    /\ \/ ~wd /\ wd' = TRUE /\ UNCHANGED op
       \/ op' = ~op /\ UNCHANGED wd
    /\ UNCHANGED <<start, rt, WatchDog, driver, ready, test, config, csr, fifo, sm0,
                   frames, skipped>>

Next == Main \/ Rt \/ Handler \/ Chip \/ MasterWrite \/ MasterOther

Spec == Init /\ [][Next]_vars

\* Both threads are scheduled and a wait ends after 100 ms; interrupts are
\* served; the chip executes commands and transfers.
FairSpec ==
    Spec /\ WF_vars(Main) /\ WF_vars(Rt) /\ WF_vars(Handler) /\ WF_vars(Chip)
-----------------------------------------------------------------------------
(* Properties.                                                             *)

\* Every variable keeps its type; no wait succeeds without an interrupt.
TypeOK ==
    /\ main \in {"bcm", "spi", "ready", "test", "rst1", "rst2", "verify", "mask",
                 "maskpoll", "irqcfg", "inten", "open", "resume", "run", "fail", "exit"}
    /\ err \in {0, -9, -10, -27} /\ resumed \in BOOLEAN
    /\ rt \in {"held", "wait", "wdcmd", "wdpoll", "alcmd", "alpoll", "rdcmd", "rdpoll",
               "wrcmd", "wrpoll"}
    /\ WatchDog \in BOOLEAN /\ dev \in BOOLEAN /\ pend \in BOOLEAN /\ sem \in Nat
    /\ ready \in BOOLEAN /\ test \in BOOLEAN
    /\ mask \in BOOLEAN /\ irqcfg \in BOOLEAN /\ inten \in BOOLEAN
    /\ busy \in BOOLEAN /\ command \in {"none", "MASK", "WDOG", "AL"}
    /\ data \in BOOLEAN
    /\ fifo \in {"idle", "read", "write", "avail"}
    /\ sm0 \in BOOLEAN /\ wd \in BOOLEAN /\ op \in BOOLEAN /\ frames \in 0 .. MaxFrames
    /\ skipped \in BOOLEAN

\* The real-time thread never shares the bus with init, and runs only on a chip
\* that has passed the test register and whose interrupt is set up and
\* connected, whichever way init has taken and whatever an earlier run left.
CyclesOnlyWhenArmed ==
    rt # "held" => main = "run" /\ err = 0 /\ test /\ Armed /\ dev

\* The access to the chip that is made next, or is polled for, and how far it is.
Access ==
    CASE rt = "held" ->
            IF main \in {"irqcfg", "inten", "open", "resume", "run"} \/ err = -27
            THEN "WDOG" ELSE "MASK"
      [] rt \in {"wait", "wdcmd", "wdpoll"} -> "WDOG"
      [] rt \in {"alcmd", "alpoll"} -> "AL"
      [] rt \in {"rdcmd", "rdpoll"} -> "INPUT"
      [] rt \in {"wrcmd", "wrpoll"} -> "OUTPUT"
Phase ==
    IF main # "maskpoll" /\ rt \notin {"wdpoll", "alpoll", "rdpoll", "wrpoll"} THEN "ahead"
    ELSE IF busy \/ fifo \in {"read", "write"} THEN "issued" ELSE "done"

LAN == INSTANCE Lan9252 WITH
           access <- Access, phase <- Phase,
           answer <- data /\ Phase = "done" /\ Access \in {"WDOG", "AL"},
           expired <- WatchDog, event <- sm0

\* Commands, busy bit and FIFO status together make the accesses of Lan9252: what
\* Read_Reg_Wait returns is what the register held in this access and not what an
\* earlier command left in ECAT_CSR_DATA, main never gets into a cycle's access,
\* and the event is taken only by a cycle that has found watchdog and state good.
ImplementsLan9252 == LAN!Spec

\* Interrupts are not lost: a thread that waits while the chip holds its pin up
\* is about to be woken, unless the edge was before the open of the device or a
\* cycle has left the data unread since.  Only then is the timeout needed.
TimeoutOnlyAfterSkip ==
    (rt = "wait" /\ Pin /\ ~skipped) => pend \/ sem > 0

\* With the timeout it is recovered from: if the slave ends up operational with
\* a live watchdog, every frame is read, also one whose edge was lost.
FrameServed ==
    <>[](op /\ ~wd) => (resumed /\ sm0 ~> ~sm0)

\* init comes to an end: main gets to its loop or gives up.
StartUpEnds ==
    <>(main \in {"run", "exit"})
=============================================================================
