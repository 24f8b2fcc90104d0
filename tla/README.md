# Verification of the RT EtherCAT slave

The program is an EtherCAT slave for a Raspberry Pi 4 with a LAN9252 shield
(EasyCAT): a kernel module that turns the interrupt pin of the chip into a
semaphore, a real-time thread that moves process data between the chip and
memory once per interrupt, and an application loop that consumes and produces
that data. This directory holds TLA+ models of its concurrent parts, the TLC
configurations that check them, and TLAPS proofs of the main invariants.

Contents: [inventory](#inventory), [modules](#modules), [runs](#runs),
[proofs](#proofs), [findings](#findings), [limits](#limits),
[plan](#plan). `PROJECT.json` lists the same material by line of source.

## Inventory

### Components, their state and operations

| component | source | state | operations |
|---|---|---|---|
| process data exchange | `rpi_base.cpp`: `receive_input`, `send_output`, `MainTask`, `SPIReadProcRamFifo`, `SPIWriteProcRamFifo` | `m_atomiccounter`, `m_BufferOutEthToSlaveBuffer`, ring `fromSlaveBufferIn` with `m_curqidx` and `m_curqoutidx`, `BufferIn`, `BufferOut` | one cycle of the real-time thread; one round of the application |
| LAN9252 access | `rpi_base.cpp`: `Read_Reg`, `Write_Reg`, `Read_Reg_Wait`, `Write_Reg_Wait` | registers of the chip, SPI | direct and indirect (polled) register accesses |
| shield | `shield_9252.cpp`: `init`, `is_resetneeded`, `do_resetshield`, `do_initirq`, `waitforirq_or_timeout`, `execute_fromthread` | `m_devhndl`, statistics | start-up with optional reset, endless cycle |
| kernel driver | `gpioirq.c` | `MYCONTEXT` per open (semaphore, irq number, modes), pin and line | load, unload, open, close, ioctl, interrupt handler, `down_timeoutms` |
| threads | `thread.cpp`: `threadbase`, `thread`, `rtthread`, `rttestthread` | `m_activ`, `m_rcpu`, `HALTHREADID` (start mutex, `pthread_t`) | construct, `Resume`, `Suspend`, `Terminate`, destroy; `__Start_thread`, `ExecThread` |
| mutex | `thread.cpp`: `mutex` | a named semaphore | `lock`, `unlock`, `reset` |
| scheduling | `thread.cpp`: `setscheduler`, `raise_soft_prio`, `get_nextcpu` | rlimit, `sc_cpu` | retry on EPERM; next CPU |
| statistics | `rt_utilities.cpp`: `stattool` | sums, extrema, mean, deviation | `calc`, `reset` |
| application | `slave_test.cpp`: `main` | its two frames, a counter | start, loop |
| console, clock, keyboard | `rpi_base.cpp` | none of interest | `bashoutput`, `milisleep`, `Getns`, `keyboard` |

### Interactions

- `main` calls `ETHB.init()` (SPI, reset, interrupt), then `Resume` on the
  `rttestthread`, which was constructed as a global with `crrunning=false`.
- The real-time thread blocks in an ioctl of the driver, for 100 ms at most;
  the interrupt handler ends the wait by raising the semaphore of the context.
- The real-time thread and the application share the buffers of `rpi_base`
  without a lock: a counter guards one direction, a ring the other.
- The statistics are written by the real-time thread and printed by the
  application, also without a lock.
- The threads of the process share the soft limit of real-time priorities, which
  each of them raises for itself.
- The chip raises its pin when the master has written sync manager 0, and keeps
  it up until the data are read.

### What is hard

Two threads on different cores of a weakly ordered processor without a lock or
a barrier; an interrupt handler that runs in the middle of open and close; a
thread that is created in the middle of a constructor and cancelled wherever it
is; a timeout computed in three integer widths and rounded to jiffies;
interrupts that race with timeouts; resources kept after a partial failure; a
limit and a named semaphore that other threads, other processes and earlier runs
change between two calls.
`PROJECT.json`, "hazards", lists them at their lines.

### What makes each part correct

- *Process data*: a frame is delivered whole and not older than one that was
  delivered before; the newest frame gets through in both directions; the
  application is never held up; without a live master the application sees a
  safe value.
- *Driver*: whoever has the device open has pin, line and semaphore; a handler
  never meets memory that is gone or not ready; nothing is leaked; an interrupt
  wakes a waiter and is counted once; a wait lasts for as long as it should.
- *Threads*: a thread runs when it was told to and not before, uses only what
  the constructor has set, can be ended in every state, and is not touched
  after it has been joined or its memory freed. It has its priority whenever the
  hard limit allows it.
- *Start-up*: the chip answers before the first cycle; on every failure what was
  acquired is released.
- *Mutex*: at most one holder, also across `reset` and a crash of the holder.
- *Statistics*: the figures are those of all measured cycles, and a line that is
  read while they change does not say what was never so.

## Modules

`MC<module>` extends a module for TLC, `<module>Proofs` holds its theorems.
Operators introduced by a comment "Fault:" are altered forms of the definition
that follows them; no specification uses them. Substituting one shows that a
property does depend on that line of code.

### ProcessData

Two processes and an environment. Variables carry the names of the fields.

| action | code |
|---|---|
| `RtWake` | `waitforirq_or_timeout` returns, for either reason; `MainTask` begins |
| `RtReadWatchdog`, `RtReadAlStatus`, `RtReset` | the two register reads and the branch of `MainTask` |
| `RtBeginRead`, `RtReadFifo`, `RtPublishWord`, `RtEndRead` | `SPIReadProcRamFifo`: counter, transfer, copy word by word, counter |
| `RtLoadIndex`, `RtCopyWord`, `RtWriteFifo` | `SPIWriteProcRamFifo`: index, copy word by word, transfer |
| `ReceiveFirst`, `ReceiveWord`, `ReceiveLast`, `ReceiveCheck` | the loop of `receive_input` |
| `SendWord`, `SendPublish`, `SendWordLate` | `send_output`; the last one a store that becomes visible late |
| `AppSleep` | `bashoutput` and `milisleep(100)` |
| `MasterWrite`, `WatchdogExpires`, `MasterSetState` | master and chip (external) |

A frame is reduced to its number and a word to the number of the frame it comes
from, so "torn" is "two words differ". `InOrder` selects whether the accesses of
the application are performed in program order or as ARMv8 may reorder them;
those of the real-time thread are fenced by the bcm2835 library. `m_atomiccounter`
is a counter modulo `CounterMod` (2^32 in the code). The variables `base`,
`rbase`, `moved`, `rtsent` and `laps` are history: no guard reads them.

`begun` and `Lag` serve the refinement mapping: `FX` instantiates FrameExchange
with the fields of ProcessData, and `ImplementsFrameExchange` is its
specification.

### FrameExchange

The abstract specification of the exchange, without buffers, ring, counter or
threads. Words go forward to a frame that the master has written (`Deliver`); a
cycle takes the newest announced frame (`Take`) and transmits words that are of
this frame or of later ones that have been begun, or at most `Lag` frames older
(`Transmit`). `Lag` is 0 in program order and one round of the ring otherwise.
Frames may be skipped, repeated and mixed, since the code promises no more (see
[findings](#findings)); unlike `OutputIntact` it holds from the first frame on
and however often the copy is lapped.

### DownTimeout

`down_timeoutms` with its arithmetic: the product in `unsigned long`, the
microseconds cut to `unsigned int`, rounding up to jiffies with at least one,
and the loop that sleeps again until the end time. Units and widths are
constants. Time passes by `Tick` while the caller sleeps and by `Delay` while it
could run but does not; the latter is counted in `stolen`.

### GpioIrq

Several contexts that go step by step through `driver_open` and `driver_close`,
one pin, one line, one handler. The steps are those that another context or the
handler can observe, failures included: a pin that is taken, `gpio_to_irq` or
`request_irq` that fails (`faulty`), `kzalloc` without a check (`crashed`). The
inside of a wait with timeout is DownTimeout's; here it succeeds or fails.

### RtThread

One object of class `thread` or `rtthread` with a derived class that overrides
`Execute`. `owner` is the control of the constructing and calling thread, `th`
that of the created one, `vptr` the class that a virtual call takes. POSIX is
external: asynchronous cancellation strikes at any point after the cancellation
type was set; destroying a locked mutex fails and destroying a free one makes it
pass everybody; cancelling or joining a joined thread sets `ub`. `Execute` may
return or not.

`ExecThread` is modelled step by step: `SetScheduler` is one attempt of
`setscheduler`, `RaiseLook` and `RaiseSet` the two halves of `raise_soft_prio`,
`CallExecute` the affinity and the virtual call. `OtherRaiseSet` is `RaiseSet` of
another rtthread, which can change the soft limit in either direction between any
two of them. `disturbed` is history: `setrlimit` failed, or the look found the
limit raised already.

### NamedMutex

Processes with one object of class `mutex` each, on one named semaphore that
outlives them. `Construct` is `sem_open`, which creates the semaphore only once;
`Leave` the destructor, or the end of the process wherever it is; `Lock` and
`Acquire` are `lock`, with `Interrupted` for a `sem_wait` that a signal ends;
`ResetLook` and `ResetPost` the two calls of `reset`. `lost`, `posts` and
`signals` count what disturbs the semaphore; their bounds are in the guards.

### Statistics

The measurement in `execute_fromthread` (`Cycle`, `PeriodBegin`, `PeriodEnd`,
`CycleEnd`), the stores of `stattool::calc` (`Store`) and the loads of
`bashoutput` (`LineBegin`, `Load`), each double in one access. `inorder` selects
program order or any order of the stores of one `calc` and the loads of one
stattool. The floating point is abstracted: a mean is the pair of sum and count,
a deviation tells whether it is zero and of how many values it is. The properties
compare what `calc` accumulates with `Results(s, n)`, the definition of mean, range,
deviation and extrema for the first `n` values of a history.

### Slave

The composition: `main` from its first line to its loop, the chip, the driver as
a flag, an edge and a semaphore, and the cycle with its register accesses. The
other modules appear as what Slave sees of them: the held thread of RtThread as
`resumed`, the wait of DownTimeout as "semaphore or timeout", the open of GpioIrq
as one step that succeeds or fails, the data of ProcessData as the event of sync
manager 0.

| action | code |
|---|---|
| `MainSpiInit` | `spi_init` |
| `MainResetNeeded`, `MainReset`, `MainVerify` | `is_resetneeded`, `do_resetshield` |
| `MainMask`, `MainMaskPoll`, `MainEnable`, `MainOpen` | `do_initirq`, the first two being `Write_Reg_Wait` |
| `MainResume`, `MainFail` | the two ways on in `main` |
| `RtStart`, `RtIrq`, `RtTimeout` | `Execute`, `waitforirq_or_timeout` |
| `RtCommand`, `RtPollWatchdog`, `RtPollAl` | the two calls of `Read_Reg_Wait` in `MainTask`, and its branch |
| `RtTransfer`, `RtReadFifo`, `RtWriteFifo` | the FIFO transfers |
| `Handler` | `r_irq_handler` |
| `ChipExecute`, `ChipTransfer`, `MasterWrite`, `MasterOther` | chip and master (external) |

The chip may start in any state, also armed and with its pin up, as an earlier
run of the program leaves it. `skipped` is history: the pin was up when the
device was opened, or a cycle left the data unread.

`Access` and `Phase` serve the refinement mapping: `LAN` instantiates Lan9252 with the
state of Slave, and `ImplementsLan9252` is its specification.

### Lan9252

The abstract specification of the accesses, without command and data register, busy
bit, FIFO status and threads. There is one access at a time, in the order mask, then
in each cycle watchdog, state, input if both were good, output. The chip performs it
in one instant (`Perform`) between `Issue` and `Return`: a register answers with what
it holds then, and only the input takes the event back. `Reset` is possible before the
first access only.

## Runs

| run | instance | properties | shows |
|---|---|---|---|
| `order` | 2 words, ring of 3, counter mod 4, 2 frames, 4 sends, program order | `InputTearBounded`, `OutputIntact` | what counter and ring guarantee: a copy has no old words and mixes at most two frames, and only if it began at an odd counter; a transmitted frame is whole and the newest unless lapped |
| `weak` | 2 words, ring of 2, counter mod 2, reordering | `TypeOK`, `OutputStaleOneLap`, `InputNeverGoesBack`, `ImplementsFrameExchange` | what is left without barriers: no word goes back, a foreign word in a transmitted frame is exactly one lap old, and the exchange is one that FrameExchange allows |
| `live` | 2 words, ring of 2, counter mod 2 | `OutputDelivered`, `InputPublished`, `ReceiveReturns` | frames get through in both directions; `receive_input` does not depend on the other thread |
| `torn` | violation | `ReceivedFrameIntact` | see [findings](#findings) |
| `reset` | violation | `ResetReachesApplication` | see [findings](#findings) |
| `wait` | `unsigned long` wide enough | `TypeOK`, `WaitsMinimum`, `WaitsMaximum`, `SignalsConserved`, `CallReturns` | both bounds of the comment, each interrupt counted once, termination |
| `driver` | 2 contexts, 2 interrupts | `TypeOK`, `OpenOwnsDevice`, `HandlerContextAlive`, `PinNotLeaked`, `InterruptWakesWaiter` | ownership and memory under every interleaving of open, close, ioctl, interrupt and reload |
| `window` | violation | `HandlerFindsSemaphore` | see [findings](#findings) |
| `life` | both classes, 4 calls, 3 limits, 2 changes by others | `HeldUntilResumed`, `CpuKnown`, `NoUseAfterFree`, `JoinedOnce`, `PriorityRaised`, `HeldRunsDerived`, `ResumeStarts`, `TerminateReturns` | start, priority, end and memory of a thread under every order of calls |
| `start` | 3 frames, chip in any initial state | `TypeOK`, `CyclesOnlyWhenArmed`, `TimeoutOnlyAfterSkip`, `ImplementsLan9252`, `FrameServed`, `StartUpEnds` | set-up before use; accesses that are atomic, and cycles that decide by their own answers; no interrupt is lost unless the edge was before the open or the data were left unread, and then the timeout makes up for it |
| `mutex` | 3 processes, 2 lost holders, 3 posts of `reset`, 1 signal | `MutualExclusion`, `ExcessBounded`, `NoWaitWhileFree` | when the mutex excludes over crashes and resets, by how many it can fail to, and that nobody waits in front of a free section |
| `stats` | 4 cycles, either order of accesses | `StatisticsCorrect`, `LineCurrent`, `LineConsistent`, `RuntimeNotOlder` | what the figures are, and what a line read in the middle of an update may say |

### Bounds

- Two words are enough for a frame to be torn; words are interchangeable, hence
  the symmetry in the runs without liveness.
- A counter mod 4 lets a copy meet every parity, be passed by one and by two
  publications, and be passed by a whole round; mod 2, used where parity does
  not enter, makes the round as short as it can be. The wrap is excluded in
  `InputTearBounded` by `moved < CounterMod`: at 2^32 it would take 2^31
  cycles during one copy.
- A ring of 3 with 4 sends is the smallest in which the ring wraps, and in which
  a copy can be overtaken with and without being lapped. The code has a larger
  ring; the proofs hold for every size.
- In DownTimeout the constants make a millisecond, a microsecond and a jiffy
  incommensurable, and make `unsigned int` overflow for the longest timeout.
- Two contexts are the fewest for a conflict over pin and line, two interrupts
  the fewest for one that is pending while another is handled.
- Four calls cover each of `Resume`, `Suspend`, `Terminate` before and after one
  of the others, and one repetition; the proofs hold for any number.
- Limits 0, 1 and 2 with priority 1: a soft and a hard limit below, at and above
  the priority; two changes by others take the limit up and down again.
- Three processes let one be inside, one in the middle of `reset` and one waiting;
  two lost holders and three posts take both counts across each other, and one
  signal breaks the semaphore; the proofs hold for any numbers.
- Four cycles give two measured ones, the first with its special case in `calc`
  and one that updates; two pairs of times make mean, extrema and deviation differ.
  A line can begin and be read at every point of them.
- Three frames: one whose edge is lost, one during the cycle, one after it.

`CHECK_DEADLOCK FALSE` is used where the system really may stop: after the last
timed call (DownTimeout), a crash or the last close (GpioIrq), the destructor
(RtThread).

### Fairness

- ProcessData, `FairSpec`: the application thread is scheduled, since it has a
  core and blocks only in a sleep. Nothing is assumed of the real-time thread,
  which polls the chip without a limit. `OutputDelivered` and `InputPublished`
  assume in the formula that it runs (`RtRuns`): priority 88 under SCHED_FIFO,
  and 100 ms is the longest wait. `InputPublished` also assumes that
  the slave ends up operational with a live watchdog, since it rightly drops
  data otherwise.
- DownTimeout: the caller runs when it can and the clock does not stop.
- GpioIrq: the kernel serves interrupts, and a waiter whose semaphore is raised
  goes on. Nothing makes anyone open, close or signal.
- RtThread: a call that has begun goes on and so does the thread, except that
  `Execute` need not return and nobody has to call anything.
- NamedMutex: a call that has begun goes on when it can, and a process that is
  inside calls `unlock` or is gone. Which waiter gets the semaphore is open, so
  `NoWaitWhileFree` promises only that somebody gets in.
- Statistics: none; it has no liveness property.
- Slave: both threads are scheduled, a wait ends after 100 ms (`CallReturns` of
  DownTimeout), interrupts are served, and the chip executes its commands and
  transfers, for which the code polls without a limit. `FrameServed` assumes in
  the formula that the slave ends up operational with a live watchdog.

## Proofs

All theorems hold for every value of the constants under the named assumptions
of the modules.

**ProcessDataProofs.** `TypeCorrect`, `InputNeverGoesBackCorrect` in any memory
order; `InputTearCorrect` and `OutputIntactCorrect` for `InOrder`, which
they state as an assumption. The invariants as checked are not inductive: they
speak of a copy that has ended. `InputInv` adds that the counter is odd exactly
between the two increments (`ParityInv`), that the shared buffer then mixes
`base` with the frame being published and otherwise equals `base` (`SharedInv`),
that the counter has moved by `moved` since the copy began (`MovedInv`, the
step where arithmetic modulo `CounterMod` enters: equal counters with
`moved < CounterMod` mean that nothing moved), and what the words copied so far
can be (`CopyInv`). `OutputInv` says where the newest frame and the words of the
one being filled lie in the ring (`RingInv`), and that a copy that was not
lapped still reads the slot it began with (`LapInv`). `LagInv` says that each
word of the application is at most as new as the shared one.

**FrameExchangeProofs.** `Refinement` (ProcessData implements FrameExchange) and
`OutputStaleOneLapCorrect`, both in any memory order. `SlotInv` says what each
word of each slot of the ring holds: the frame announced as many calls of
`send_output` ago as the slot is behind `m_curqoutidx`, apart from the stores of
the frame under way and from stores still to be seen, in whose place there is the
frame of one lap before. From it follows that numbers in the ring only grow
(`Growing`), so that what a cycle copies stays between the frame taken, less
`Lag`, and the newest begun (`CopiedInv`); with that and `LagInv` every step of
ProcessData is a step of FrameExchange or a stutter (`RefinementNext`).
`StaleInv` keeps, while the copy is not lapped, the distance between the slot
copied and the slot being filled.

**DownTimeoutProofs.** `TypeCorrect`, `WaitsMinimumCorrect`,
`WaitsMaximumCorrect`, `SignalsConservedCorrect`. They assume
`NoOverflow`: the product of each timeout with `MsNs` fits in `unsigned long`
and half of `long long`; see [limits](#limits) for a kernel on which it does not. The
argument: `endtime` is exactly the start plus the timeout, `rest_ns` never
promises more than is left when it was computed, and `wakeup` is at most one
jiffy beyond `endtime`, because `LocalJiffies` rounds up by less than a jiffy
(`LocalJiffiesBound`).

**GpioIrqProofs.** `TypeCorrect`, `OpenOwnsDeviceCorrect`,
`HandlerContextAliveCorrect`, `PinNotLeakedCorrect`, for any set of contexts.
`OwnerInv` ties the stage of each context to what it holds: only one that has
got the pin knows the number of the line, the registered context is between
`request_irq` and `free_irq`, a running handler has the registered context or
one that is still waiting in `free_irq`, memory is freed last.

**RtThreadProofs.** `TypeCorrect`, `HeldUntilResumedCorrect`, `CpuKnownCorrect`,
`NoUseAfterFreeCorrect`, `JoinedOnceCorrect`, `PriorityRaisedCorrect`,
`HeldRunsDerivedCorrect`, for any number of calls and any limits. `IInv`
adds that a thread nobody has let go stands before the virtual call with the
mutex locked (`HoldInv`), that the CPU is known whenever the owner has left the
base constructor (`CpuInv`), that a thread without handle is none or over
(`LifeInv`), that `thread` has no handle once it has joined (`JoinInv`), that a
thread past its attempts has its priority or a reason why not (`PrioInv`), and
that the derived class is in place when a held thread can be let go (`VptrInv`).

**NamedMutexProofs.** `TypeCorrect`, `MutualExclusionCorrect`,
`ExcessBoundedCorrect`, for any finite set of processes. Both follow from one
account (`Conserved`): processes inside plus the value of the semaphore are one,
plus posts of `reset` and interrupted locks, less lost holders.

**SlaveProofs.** `TypeCorrect`, `CyclesOnlyWhenArmedCorrect`,
`TimeoutOnlyAfterSkipCorrect` and `Refinement` (Slave implements Lan9252), for any
number of frames. `StartInv` says what is set up at each stage of `main`, the mask
being written by the chip while `main` polls; `EdgeInv` that a pin that is up was
announced, is about to be dealt with by the current cycle, or is marked as skipped.
`CsrInv` says that a command in the chip is that of the one who polls, `main` or the
thread, and a FIFO transfer likewise. With it `RefinementNext` takes each action to
one of Lan9252: issuing a command to `Issue`, `ChipExecute` and `ChipTransfer` to
`Perform`, the end of a poll to `Return`, everything that driver and start-up do
besides to a stutter.

**StatisticsProofs.** `ResultsCorrect` (that is `StatisticsCorrect`),
`LineCurrentCorrect`, `RuntimeNotOlderCorrect` and `LineConsistentCorrect`, for all
times and any number of cycles; the first two in any order of loads and stores.

- `CountInv` says of how many values each stored mean is, the run time being one
  ahead while the period is calculated, and `PrintedInv` that what has been printed
  of the period is not ahead of that.
- `LineInv` is the argument for `LineConsistent`: calc stores the extrema before
  range and mean, and bashoutput loads them after (`OrderInv`); the values of calc
  and the stored ones hold together at every store (`NewInv`, `ToolInv`); and
  since extrema only widen, a mean that has been loaded stays within those that
  are still to be loaded (`SeenInv`).
- `ResultsInv` is the argument for the other two. `Account(r, s, n)` says that the
  state `r` of a stattool accounts for the first `n` values of `s`; `CalcAccount`
  that one `calc` takes it to `n + 1`, and `AccountResults` that the results then
  are those of the definition. `HistInv` relates counter and start times of the
  thread to the history, `StoredInv` says of each result whether it is the one
  before or after the value that `calc` works on, and `ShownInv` that a stattool
  never has fewer values than when the line was begun.
- The deviation is zero exactly if `n * sum2 - sum * sum` is, and that has to mean
  that all values are equal. `Spread` says so, with the sums of equal values
  beside it to be inductive; `SpreadNext` is the algebra of one more value.
- The definitions use sums of any number of values (`Sums`, a recursive function).
  `SumStep` is its recursion and `NatSet` induction for a set of numbers, both
  proved from well-foundedness.

Only model-checked: the liveness properties, since fairness and ENABLED are beyond
the prover. Every safety and action property of a passing run is a theorem.

## Findings

Each is a run that TLC must find violated; the text it contradicts is quoted in
`PROJECT.json`.

1. `torn`: `receive_input` compares the counter before and after the copy but
   not its parity. A copy that begins and ends during one publication is
   accepted and mixes two frames. `InputTearBounded` says how far that goes.
2. `reset`: on an expired watchdog or outside OP, `MainTask` zeroes `BufferOut`,
   but the application reads `m_BufferOutEthToSlaveBuffer`, which keeps the last
   frame of the master.
3. `window`: `request_irq` precedes `sema_init`, so that an interrupt in between
   raises a semaphore without a wait list.

## Limits

- Where `unsigned long` has 32 bits, `fac_ms2ns * timeout_ms` wraps from 4295 ms
  on, and `down_timeoutms` returns early. The `wait` run and the proofs take it to
  be wide enough, as it is on the 64-bit build; 100 ms, the timeout of the slave,
  never wraps.
- `HeldRunsDerived` is about `crrunning=false`. With true, the default, the base
  constructor unlocks the start mutex before the derived constructor begins, and
  the thread may call the `Execute` of the base class, which returns at once;
  the model contains this. `rttestthread` passes false.
- `PriorityRaised` excepts a thread that finds the limit already raised by another
  one: `raise_soft_prio` then returns -1 and `setscheduler` does not try again.
- `MutualExclusion` says nothing once posts of `reset` and interrupted locks
  outnumber the lost holders, because two processes can then be inside;
  `ExcessBounded` says how many. The program does not use the class.
- `LineConsistent` and `RuntimeNotOlder` are about program order. Without it only
  `LineCurrent` is left. Rounding is not modelled.
- `OutputIntact` starts with the first frame that was announced: until then both
  indexes are 0 and slot 0 is transmitted while it is being filled.
- `PinNotLeaked` holds as long as the kernel refuses nothing of its own accord:
  after a failure of `gpio_to_irq` or `request_irq`, `driver_open` does keep the
  pin, and reloading the module does not release it.
- `JoinedOnce` is about class `thread`. In `rtthread::Terminate` the clearing of
  `m_thread` is commented out, so `Terminate` followed by the destructor joins
  twice there; the program never calls `Terminate` on one.
- `InterruptWakesWaiter` ends at the bound of interrupts (`irqs = MaxIrqs`).
- RtThread leaves out a failing `malloc`, and takes the CPU of an `rtthread` to
  be chosen by the constructor (`cpu = -1`, as `rttestthread` does).
- The bytes that `Read_Reg` and `Write_Reg` exchange over SPI are one step.
- After a reset of the chip the code does not look at READY again; Slave lets the
  registers be written either way.
- ProcessData takes a register access or FIFO transfer for one step that ends,
  and the chip's three-buffer mechanism for correct.

## Not modelled

- `milisleep`, `Getns`, `readfilebuf`, `isrealtime`, console formatting and the
  keyboard utilities: single system calls or terminal input without shared state.
- The number that `get_nextcpu` chooses, thread names and stack sizes: no later
  step depends on them.
- The byte sequences of `Read_Reg` and `Write_Reg`: they keep no state between
  two calls; the registers behind them are Slave's.
- Build files, udev rules, and the manual test of the driver, whose calls are among
  the ioctls of GpioIrq.

## Plan

Written, in this order: ProcessData, DownTimeout, GpioIrq, RtThread, Slave,
NamedMutex, Statistics, FrameExchange, Lan9252, all with proofs. Left:

1. Slave with the whole of GpioIrq's open in place of its one step, so that the
   window between `request_irq` and `sema_init` and an armed chip meet.
2. What a chip that resets by itself in the middle of an access does to the cycle,
   which polls without a limit.
