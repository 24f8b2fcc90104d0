------------------------------- MODULE GpioIrq -------------------------------
(***************************************************************************)
(* The kernel module gpioirq: it turns falling edges of GPIO 25, the       *)
(* interrupt pin of the LAN9252, into a semaphore that user space waits    *)
(* for with ioctl.                                                         *)
(*                                                                         *)
(* Each open of /dev/gpioirq has a context of its own (MYCONTEXT), but pin *)
(* and interrupt line exist once.  Opens, closes, ioctls and interrupts    *)
(* interleave: the calls of driver_open and driver_close that other        *)
(* contexts or the handler can observe are separate steps.                 *)
(*                                                                         *)
(* External, as the kernel documents them: gpio_request gives the pin to   *)
(* one holder, request_irq refuses a line that is in use or does not       *)
(* exist, free_irq waits for a running handler, an edge during the handler *)
(* runs it once more, release is called after the last ioctl has returned  *)
(* and only for an open that succeeded, and a module with open files is    *)
(* not removed.  A kernel that touches freed memory or a semaphore without *)
(* a wait list has crashed.                                                *)
(***************************************************************************)
EXTENDS Integers

CONSTANTS
    Files,    \* opens of the device
    NoFile,   \* no context
    MaxIrqs   \* bound: interrupts handled

ASSUME FilesAssumption == NoFile \notin Files
ASSUME MaxIrqsAssumption == MaxIrqs \in Nat

VARIABLES
    loaded,      \* the module is registered
    stage,       \* progress of each context through open and close
    mem,         \* its memory: none, zeroed (kzalloc), ready (sema_init), freed
    irq_number,  \* 0 from kzalloc, -1 if the mapping failed, else LINE
    wOpen, sem,
    io, ret,     \* ioctl in progress, its last result
    pin,         \* holder of the pin (gpio_request)
    irqhandler,  \* context registered for the line (request_irq)
    pending,     \* an edge has not been handled yet
    running,     \* context that the running handler was given
    irqs,        \* interrupts handled
    faulty,      \* the kernel has refused something of its own accord
    crashed

device == <<pin, irqhandler, pending, running, irqs>>
ctx    == <<stage, mem, irq_number, wOpen, sem>>
ioctl  == <<io, ret>>
system == <<loaded, faulty, crashed>>
vars   == <<device, ctx, ioctl, system>>

LINE == 1

Unused == {"new", "failed", "closed"}
Stages == Unused \union {"config", "map", "request", "init", "open",
                         "release", "sync", "gpio_free", "kfree"}

Init ==
    /\ loaded = FALSE /\ faulty = FALSE /\ crashed = FALSE
    /\ stage = [f \in Files |-> "new"] /\ mem = [f \in Files |-> "none"]
    /\ irq_number = [f \in Files |-> 0] /\ wOpen = [f \in Files |-> FALSE]
    /\ sem = [f \in Files |-> 0]
    /\ io = [f \in Files |-> "none"] /\ ret = [f \in Files |-> "none"]
    /\ pin = NoFile /\ irqhandler = NoFile /\ pending = FALSE /\ running = NoFile
    /\ irqs = 0

-----------------------------------------------------------------------------
(* Loading and unloading.                                                  *)

r_init ==
    /\ ~loaded /\ loaded' = TRUE
    /\ UNCHANGED <<device, ctx, ioctl, faulty, crashed>>

r_cleanup ==
    /\ loaded /\ loaded' = FALSE
    /\ \A f \in Files : stage[f] \in Unused
    /\ UNCHANGED <<device, ctx, ioctl, faulty, crashed>>

-----------------------------------------------------------------------------
(* driver_open.                                                            *)

Goto(f, from, to) == stage[f] = from /\ stage' = [stage EXCEPT ![f] = to]

\* kzalloc ...
OpenAlloc(f) ==
    /\ loaded /\ Goto(f, "new", "config")
    /\ mem' = [mem EXCEPT ![f] = "zeroed"]
    /\ UNCHANGED <<device, irq_number, wOpen, sem, ioctl, system>>

\* ... the result of which is not looked at: strcpy writes to a null pointer.
OpenAllocFails(f) ==
    /\ loaded /\ stage[f] = "new"
    /\ faulty' = TRUE /\ crashed' = TRUE
    /\ UNCHANGED <<device, ctx, ioctl, loaded>>

\* Fault: a pin that is taken is used all the same.
OpenRequestPin_Ignored(f) ==
    /\ Goto(f, "config", "map")
    /\ pin' = IF pin = NoFile THEN f ELSE pin
    /\ UNCHANGED <<irqhandler, pending, running, irqs, mem, irq_number, wOpen, sem,
                   ioctl, system>>

\* r_int_config: gpio_request.  If the pin is taken, r_int_config returns
\* early, and driver_open goes on with the irq_number 0 of kzalloc.
OpenRequestPin(f) ==
    /\ \/ pin = NoFile /\ pin' = f /\ Goto(f, "config", "map")
       \/ pin # NoFile /\ UNCHANGED pin /\ Goto(f, "config", "request")
    /\ UNCHANGED <<irqhandler, pending, running, irqs, mem, irq_number, wOpen, sem,
                   ioctl, system>>

\* r_int_config: gpio_to_irq.  Its failure is printed, not returned either.
OpenMapIrq(f) ==
    /\ Goto(f, "map", "request")
    /\ \/ irq_number' = [irq_number EXCEPT ![f] = LINE] /\ UNCHANGED faulty
       \/ irq_number' = [irq_number EXCEPT ![f] = -1] /\ faulty' = TRUE
    /\ UNCHANGED <<device, mem, wOpen, sem, ioctl, loaded, crashed>>

LineFree(f) == irq_number[f] = LINE /\ irqhandler = NoFile

\* request_irq: from here on the handler may run.
OpenRequestIrq(f) ==
    /\ LineFree(f) /\ Goto(f, "request", "init")
    /\ irqhandler' = f
    /\ UNCHANGED <<pin, pending, running, irqs, mem, irq_number, wOpen, sem, ioctl,
                   system>>

\* request_irq fails: driver_open returns -EFAULT and leaves the rest as it is.
OpenRequestIrqFails(f) ==
    /\ Goto(f, "request", "failed")
    /\ faulty' = (faulty \/ LineFree(f))
    /\ UNCHANGED <<device, mem, irq_number, wOpen, sem, ioctl, loaded, crashed>>

\* wOpen from the mode of the file, and sema_init.
OpenFinish(f) ==
    /\ Goto(f, "init", "open")
    /\ \E mode \in BOOLEAN : wOpen' = [wOpen EXCEPT ![f] = mode]
    /\ sem' = [sem EXCEPT ![f] = 0] /\ mem' = [mem EXCEPT ![f] = "ready"]
    /\ UNCHANGED <<device, irq_number, ioctl, system>>

-----------------------------------------------------------------------------
(* driver_close.                                                           *)

CloseBegin(f) ==
    /\ Goto(f, "open", "release") /\ io[f] = "none"
    /\ UNCHANGED <<device, mem, irq_number, wOpen, sem, ioctl, system>>

\* Fault: free_irq is missing.
r_int_release_NoFreeIrq(f) ==
    /\ Goto(f, "release", "kfree") /\ pin' = NoFile
    /\ UNCHANGED <<irqhandler, pending, running, irqs, mem, irq_number, wOpen, sem,
                   ioctl, system>>

\* Fault: the pin is freed before the line.
r_int_release_PinFirst(f) ==
    /\ \/ /\ Goto(f, "release", "gpio_free")
          /\ pin' = NoFile /\ UNCHANGED <<irqhandler, pending>>
       \/ /\ Goto(f, "gpio_free", "sync")
          /\ irqhandler' = NoFile /\ pending' = FALSE /\ UNCHANGED pin
       \/ /\ Goto(f, "sync", "kfree") /\ running # f
          /\ UNCHANGED <<pin, irqhandler, pending>>
    /\ UNCHANGED <<running, irqs, mem, irq_number, wOpen, sem, ioctl, system>>

\* free_irq takes the handler off the line and waits for a running one to end;
\* gpio_free gives the pin up.
r_int_release(f) ==
    /\ \/ /\ Goto(f, "release", "sync")
          /\ irqhandler' = NoFile /\ pending' = FALSE /\ UNCHANGED pin
       \/ /\ Goto(f, "sync", "gpio_free") /\ running # f
          /\ UNCHANGED <<pin, irqhandler, pending>>
       \/ /\ Goto(f, "gpio_free", "kfree")
          /\ pin' = NoFile /\ UNCHANGED <<irqhandler, pending>>
    /\ UNCHANGED <<running, irqs, mem, irq_number, wOpen, sem, ioctl, system>>

\* kfree
CloseFree(f) ==
    /\ Goto(f, "kfree", "closed")
    /\ mem' = [mem EXCEPT ![f] = "freed"]
    /\ UNCHANGED <<device, irq_number, wOpen, sem, ioctl, system>>

-----------------------------------------------------------------------------
(* Interrupts.                                                             *)

\* A falling edge of the pin while a handler is registered.
Edge ==
    /\ irqhandler # NoFile /\ pending' = TRUE
    /\ UNCHANGED <<pin, irqhandler, running, irqs, ctx, ioctl, system>>

\* The kernel calls the handler with the context given to request_irq.
HandlerStart ==
    /\ pending /\ running = NoFile /\ irqs < MaxIrqs
    /\ running' = irqhandler /\ pending' = FALSE /\ irqs' = irqs + 1
    /\ UNCHANGED <<pin, irqhandler, ctx, ioctl, system>>

\* Fault: the semaphore is not raised.
r_irq_handler_NoUp ==
    /\ running # NoFile /\ running' = NoFile
    /\ UNCHANGED <<pin, irqhandler, pending, irqs, ctx, ioctl, system>>

\* up(&md->irq_lsigsema): with a waiter, it is the waiter that goes on.
r_irq_handler ==
    /\ running # NoFile /\ running' = NoFile
    /\ \/ /\ mem[running] = "ready"
          /\ sem' = [sem EXCEPT ![running] = @ + 1] /\ UNCHANGED crashed
       \/ /\ mem[running] # "ready"
          /\ crashed' = TRUE /\ UNCHANGED sem
    /\ UNCHANGED <<pin, irqhandler, pending, irqs, stage, mem, irq_number, wOpen,
                   ioctl, loaded, faulty>>

-----------------------------------------------------------------------------
(* driver_unioctl and my_api.                                              *)

Return(f, result) ==
    /\ io' = [io EXCEPT ![f] = "none"]
    /\ ret' = [ret EXCEPT ![f] = result]

\* IRQMOD_WAIT_IRQ or IRQMOD_DOWN_TIMEOUT begins to wait.
IoctlEnter(f) ==
    /\ stage[f] = "open" /\ io[f] = "none" /\ wOpen[f]
    /\ \E cmd \in {"wait", "timeout"} : io' = [io EXCEPT ![f] = cmd]
    /\ ret' = [ret EXCEPT ![f] = "none"]
    /\ UNCHANGED <<device, ctx, system>>

\* An address out of range, a command that does not exist, or a file that is
\* not open for writing.
IoctlRefused(f) ==
    /\ stage[f] = "open" /\ io[f] = "none"
    /\ \/ \E result \in {"EFAULT", "ENOTTY"} : Return(f, result)
       \/ ~wOpen[f] /\ Return(f, "EINVAL")
    /\ UNCHANGED <<device, ctx, system>>

\* Fault: the wait succeeds without an interrupt.
IoctlDown_Unchecked(f) ==
    /\ io[f] # "none"
    /\ sem' = [sem EXCEPT ![f] = @ - 1]
    /\ Return(f, "ok")
    /\ UNCHANGED <<device, stage, mem, irq_number, wOpen, system>>

\* down_interruptible or down_timeoutms obtains the semaphore.
IoctlDown(f) ==
    /\ io[f] # "none" /\ sem[f] > 0
    /\ sem' = [sem EXCEPT ![f] = @ - 1]
    /\ Return(f, "ok")
    /\ UNCHANGED <<device, stage, mem, irq_number, wOpen, system>>

\* down_timeoutms gives up, or a signal ends down_interruptible.
IoctlFails(f) ==
    /\ sem[f] = 0
    /\ \/ io[f] = "timeout" /\ Return(f, "ETIME")
       \/ io[f] = "wait" /\ Return(f, "EINTR")
    /\ UNCHANGED <<device, ctx, system>>

Open(f) ==
    \/ OpenAlloc(f) \/ OpenAllocFails(f) \/ OpenRequestPin(f) \/ OpenMapIrq(f)
    \/ OpenRequestIrq(f) \/ OpenRequestIrqFails(f) \/ OpenFinish(f)
Close(f) == CloseBegin(f) \/ r_int_release(f) \/ CloseFree(f)
Ioctl(f) == IoctlEnter(f) \/ IoctlRefused(f) \/ IoctlDown(f) \/ IoctlFails(f)

Next ==
    /\ ~crashed
    /\ \/ r_init \/ r_cleanup \/ Edge \/ HandlerStart \/ r_irq_handler
       \/ \E f \in Files : Open(f) \/ Close(f) \/ Ioctl(f)

Spec == Init /\ [][Next]_vars

\* Interrupts are served, and a thread whose wait can succeed goes on.
FairSpec ==
    /\ Spec
    /\ WF_vars(~crashed /\ HandlerStart) /\ WF_vars(~crashed /\ r_irq_handler)
    /\ \A f \in Files : WF_vars(~crashed /\ IoctlDown(f))
-----------------------------------------------------------------------------
(* Properties.                                                             *)

\* Every variable keeps its type; no wait succeeds without an interrupt.
TypeOK ==
    /\ loaded \in BOOLEAN /\ faulty \in BOOLEAN /\ crashed \in BOOLEAN
    /\ stage \in [Files -> Stages]
    /\ mem \in [Files -> {"none", "zeroed", "ready", "freed"}]
    /\ irq_number \in [Files -> {0, -1, LINE}] /\ wOpen \in [Files -> BOOLEAN]
    /\ sem \in [Files -> Nat]
    /\ io \in [Files -> {"none", "wait", "timeout"}]
    /\ ret \in [Files -> {"none", "ok", "ETIME", "EINTR", "EINVAL", "ENOTTY", "EFAULT"}]
    /\ pin \in Files \union {NoFile} /\ irqhandler \in Files \union {NoFile}
    /\ running \in Files \union {NoFile}
    /\ pending \in BOOLEAN /\ irqs \in Nat

\* An open file has the pin and the line to itself until it is closed, however
\* opens and closes of other contexts interleave and whatever of theirs fails.
OpenOwnsDevice ==
    \A f \in Files : stage[f] = "open" => pin = f /\ irqhandler = f /\ mem[f] = "ready"

\* The handler is never given a context that was freed: driver_close takes the
\* handler off the line, and waits for it, before kfree.
HandlerContextAlive ==
    running # NoFile => mem[running] # "freed"

\* While the kernel refuses nothing of its own accord, an open that is turned
\* away leaves the pin to whoever has it, and the pin does not outlive its
\* context: a later open can succeed.
PinNotLeaked ==
    (~faulty /\ pin # NoFile) => stage[pin] \notin Unused

\* An interrupt ends a wait without timeout that is in progress.
InterruptWakesWaiter ==
    \A f \in Files :
        (pending /\ irqhandler = f /\ io[f] = "wait") ~>
            (io[f] = "none" \/ crashed \/ irqs = MaxIrqs)

\* "activates irq. conf. and semaphore": the handler finds its semaphore
\* initialised.  It need not: driver_open calls request_irq before sema_init.
HandlerFindsSemaphore ==
    running # NoFile => mem[running] = "ready"
=============================================================================
