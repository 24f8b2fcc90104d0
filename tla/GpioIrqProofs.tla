---------------------------- MODULE GpioIrqProofs ----------------------------
(***************************************************************************)
(* Proofs about GpioIrq, for any number of opens of the device.            *)
(***************************************************************************)
EXTENDS GpioIrq, TLAPS

USE DEF vars, device, ctx, ioctl, system

\* The steps of the driver, one disjunct per action.
LEMMA NextCases ==
    ASSUME Next
    PROVE  \/ r_init \/ r_cleanup \/ Edge \/ HandlerStart \/ r_irq_handler
           \/ \E f \in Files : OpenAlloc(f)
           \/ \E f \in Files : OpenAllocFails(f)
           \/ \E f \in Files : OpenRequestPin(f)
           \/ \E f \in Files : OpenMapIrq(f)
           \/ \E f \in Files : OpenRequestIrq(f)
           \/ \E f \in Files : OpenRequestIrqFails(f)
           \/ \E f \in Files : OpenFinish(f)
           \/ \E f \in Files : CloseBegin(f)
           \/ \E f \in Files : r_int_release(f)
           \/ \E f \in Files : CloseFree(f)
           \/ \E f \in Files : IoctlEnter(f)
           \/ \E f \in Files : IoctlRefused(f)
           \/ \E f \in Files : IoctlDown(f)
           \/ \E f \in Files : IoctlFails(f)
  BY DEF Next, Open, Close, Ioctl

-----------------------------------------------------------------------------
(* Type correctness.                                                       *)

\* The state before the module is loaded is well typed.
LEMMA TypeInit == Init => TypeOK
  <1> SUFFICES ASSUME Init PROVE TypeOK
    OBVIOUS
  <1>1. /\ stage \in [Files -> Stages] /\ wOpen \in [Files -> BOOLEAN]
        /\ mem \in [Files -> {"none", "zeroed", "ready", "freed"}]
        /\ io \in [Files -> {"none", "wait", "timeout"}]
        /\ ret \in [Files -> {"none", "ok", "ETIME", "EINTR", "EINVAL", "ENOTTY", "EFAULT"}]
    BY DEF Init, Stages, Unused
  <1>2. irq_number \in [Files -> {0, -1, LINE}] /\ sem \in [Files -> Nat] /\ irqs \in Nat
    BY DEF Init, LINE
  <1> QED
    BY <1>1, <1>2 DEF Init, TypeOK

\* Every step of open, close, ioctl and interrupt keeps the types.
LEMMA TypeNext ==
    ASSUME TypeOK, [Next]_vars
    PROVE  TypeOK'
  <1> USE DEF TypeOK, Goto, Return, Stages, Unused, LINE
  <1>1. CASE UNCHANGED vars
    BY <1>1
  <1>2. CASE r_init
    BY <1>2 DEF r_init
  <1>3. CASE r_cleanup
    BY <1>3 DEF r_cleanup
  <1>4. CASE Edge
    BY <1>4 DEF Edge
  <1>5. CASE HandlerStart
    <2>1. irqs' \in Nat
      BY <1>5 DEF HandlerStart
    <2>2. pending' \in BOOLEAN /\ running' \in Files \union {NoFile}
      BY <1>5 DEF HandlerStart
    <2> QED
      BY <1>5, <2>1, <2>2 DEF HandlerStart
  <1>6. CASE r_irq_handler
    <2>1. sem' \in [Files -> Nat]
      BY <1>6 DEF r_irq_handler
    <2>2. crashed' \in BOOLEAN /\ running' \in Files \union {NoFile}
      BY <1>6 DEF r_irq_handler
    <2> QED
      BY <1>6, <2>1, <2>2 DEF r_irq_handler
  <1>7. CASE \E f \in Files : OpenAlloc(f)
    BY <1>7 DEF OpenAlloc
  <1>8. CASE \E f \in Files : OpenAllocFails(f)
    BY <1>8 DEF OpenAllocFails
  <1>9. CASE \E f \in Files : OpenRequestPin(f)
    BY <1>9 DEF OpenRequestPin
  <1>10. CASE \E f \in Files : OpenMapIrq(f)
    BY <1>10 DEF OpenMapIrq
  <1>11. CASE \E f \in Files : OpenRequestIrq(f)
    BY <1>11 DEF OpenRequestIrq
  <1>12. CASE \E f \in Files : OpenRequestIrqFails(f)
    BY <1>12 DEF OpenRequestIrqFails
  <1>13. CASE \E f \in Files : OpenFinish(f)
    BY <1>13 DEF OpenFinish
  <1>14. CASE \E f \in Files : CloseBegin(f)
    BY <1>14 DEF CloseBegin
  <1>15. CASE \E f \in Files : r_int_release(f)
    BY <1>15 DEF r_int_release
  <1>16. CASE \E f \in Files : CloseFree(f)
    BY <1>16 DEF CloseFree
  <1>17. CASE \E f \in Files : IoctlEnter(f)
    BY <1>17 DEF IoctlEnter
  <1>18. CASE \E f \in Files : IoctlRefused(f)
    BY <1>18 DEF IoctlRefused
  <1>19. CASE \E f \in Files : IoctlDown(f)
    BY <1>19 DEF IoctlDown
  <1>20. CASE \E f \in Files : IoctlFails(f)
    BY <1>20 DEF IoctlFails
  <1> QED
    BY <1>1, <1>2, <1>3, <1>4, <1>5, <1>6, <1>7, <1>8, <1>9, <1>10, <1>11, <1>12,
       <1>13, <1>14, <1>15, <1>16, <1>17, <1>18, <1>19, <1>20, NextCases

\* Every reachable state of the driver is well typed; in particular no ioctl
\* takes the semaphore below zero.
THEOREM TypeCorrect == Spec => []TypeOK
  BY TypeInit, TypeNext, PTL DEF Spec

-----------------------------------------------------------------------------
(* Who holds the pin, the line and the memory.                             *)

\* The context has obtained the pin and not given it up.
HoldsPin(f) ==
    \/ stage[f] \in {"map", "init", "open", "release", "sync", "gpio_free"}
    \/ stage[f] = "request" /\ irq_number[f] # 0

\* irq_number is set by OpenMapIrq only, and negative only by a kernel fault.
NumberInv ==
    \A f \in Files :
        /\ stage[f] \in {"new", "config", "map"} => irq_number[f] = 0
        /\ irq_number[f] = -1 => faulty
        /\ stage[f] \in {"init", "open", "release", "sync", "gpio_free"} => irq_number[f] = LINE

\* A context that has obtained the pin is its holder; the holder has obtained
\* it, unless a kernel fault made an open fail half-way.
PinInv ==
    /\ \A f \in Files : HoldsPin(f) => pin = f
    /\ (~faulty /\ pin # NoFile) => HoldsPin(pin)

\* The line belongs to the context between request_irq and free_irq.
LineInv ==
    /\ \A f \in Files : irqhandler = f <=> stage[f] \in {"init", "open", "release"}
    /\ pending => irqhandler # NoFile

\* The handler runs for a context whose free_irq has not returned.
RunningInv ==
    running # NoFile => stage[running] \in {"init", "open", "release", "sync"}

\* The memory of a context follows its stage.
MemInv ==
    \A f \in Files :
        /\ mem[f] = "freed" => stage[f] = "closed"
        /\ stage[f] \in {"open", "release", "sync", "gpio_free", "kfree"} => mem[f] = "ready"

OwnerInv == NumberInv /\ PinInv /\ LineInv /\ RunningInv /\ MemInv

\* Nothing is held before the module is loaded.
LEMMA OwnerInit == Init => OwnerInv
  BY FilesAssumption
  DEF Init, OwnerInv, NumberInv, PinInv, HoldsPin, LineInv, RunningInv, MemInv, LINE

\* Every step keeps the ownership invariant.  The steps that matter are those in
\* which two contexts meet: a request for the pin or the line while another one
\* holds it, and the release of the line before the pin.
LEMMA OwnerNext ==
    ASSUME TypeOK, OwnerInv, [Next]_vars
    PROVE  OwnerInv'
  <1> USE FilesAssumption
      DEF TypeOK, OwnerInv, NumberInv, PinInv, HoldsPin, LineInv, RunningInv, MemInv,
          Goto, LINE
  <1>1. CASE UNCHANGED vars
    BY <1>1
  <1>2. CASE r_init
    BY <1>2 DEF r_init
  <1>3. CASE r_cleanup
    BY <1>3 DEF r_cleanup
  <1>4. CASE Edge
    BY <1>4 DEF Edge
  <1>5. CASE HandlerStart
    BY <1>5 DEF HandlerStart
  <1>6. CASE r_irq_handler
    BY <1>6 DEF r_irq_handler
  <1>7. CASE \E f \in Files : OpenAlloc(f)
    BY <1>7 DEF OpenAlloc
  <1>8. CASE \E f \in Files : OpenAllocFails(f)
    BY <1>8 DEF OpenAllocFails
  <1>9. CASE \E f \in Files : OpenRequestPin(f)
    BY <1>9 DEF OpenRequestPin
  <1>10. CASE \E f \in Files : OpenMapIrq(f)
    BY <1>10 DEF OpenMapIrq
  <1>11. CASE \E f \in Files : OpenRequestIrq(f)
    BY <1>11 DEF OpenRequestIrq, LineFree
  <1>12. CASE \E f \in Files : OpenRequestIrqFails(f)
    <2> PICK f \in Files : OpenRequestIrqFails(f)
      BY <1>12
    <2>1. /\ stage[f] = "request" /\ stage' = [stage EXCEPT ![f] = "failed"]
          /\ faulty' = (faulty \/ LineFree(f))
          /\ UNCHANGED <<device, mem, irq_number>>
      BY DEF OpenRequestIrqFails
    <2>2. NumberInv'
      BY <2>1
    <2>3. PinInv'
      <3>1. \A g \in Files : HoldsPin(g)' => pin' = g
        BY <2>1
      <3>2. CASE faulty \/ LineFree(f)
        BY <2>1, <3>1, <3>2
      <3>3. CASE ~faulty /\ irq_number[f] = 0
        BY <2>1, <3>1, <3>3
      <3>4. CASE ~faulty /\ irq_number[f] = LINE /\ irqhandler # NoFile
        \* the other holder of the line would hold the pin as well
        BY <3>4, <2>1
      <3> QED
        BY <3>2, <3>3, <3>4 DEF LineFree
    <2>4. LineInv' /\ RunningInv' /\ MemInv'
      BY <2>1
    <2> QED
      BY <2>2, <2>3, <2>4
  <1>13. CASE \E f \in Files : OpenFinish(f)
    BY <1>13 DEF OpenFinish
  <1>14. CASE \E f \in Files : CloseBegin(f)
    BY <1>14 DEF CloseBegin
  <1>15. CASE \E f \in Files : r_int_release(f)
    BY <1>15 DEF r_int_release
  <1>16. CASE \E f \in Files : CloseFree(f)
    BY <1>16 DEF CloseFree
  <1>17. CASE \E f \in Files : IoctlEnter(f)
    BY <1>17 DEF IoctlEnter
  <1>18. CASE \E f \in Files : IoctlRefused(f)
    BY <1>18 DEF IoctlRefused
  <1>19. CASE \E f \in Files : IoctlDown(f)
    BY <1>19 DEF IoctlDown
  <1>20. CASE \E f \in Files : IoctlFails(f)
    BY <1>20 DEF IoctlFails
  <1> QED
    BY <1>1, <1>2, <1>3, <1>4, <1>5, <1>6, <1>7, <1>8, <1>9, <1>10, <1>11, <1>12,
       <1>13, <1>14, <1>15, <1>16, <1>17, <1>18, <1>19, <1>20, NextCases

\* The ownership invariant holds in every reachable state.
LEMMA OwnerCorrect == Spec => []OwnerInv
  <1>1. OwnerInv /\ TypeOK /\ [Next]_vars => OwnerInv'
    BY OwnerNext
  <1> QED
    BY <1>1, OwnerInit, TypeCorrect, PTL DEF Spec

-----------------------------------------------------------------------------
(* Theorems.                                                               *)

\* For any number of opens of /dev/gpioirq: an open file has the pin, the line
\* and an initialised semaphore.
THEOREM OpenOwnsDeviceCorrect == Spec => []OpenOwnsDevice
  <1>1. OwnerInv => OpenOwnsDevice
    BY DEF OwnerInv, PinInv, HoldsPin, LineInv, MemInv, OpenOwnsDevice
  <1> QED
    BY <1>1, OwnerCorrect, PTL

\* For any number of opens: r_irq_handler is never given a freed context.
THEOREM HandlerContextAliveCorrect == Spec => []HandlerContextAlive
  <1>1. OwnerInv /\ TypeOK => HandlerContextAlive
    BY DEF OwnerInv, RunningInv, MemInv, TypeOK, HandlerContextAlive
  <1> QED
    BY <1>1, OwnerCorrect, TypeCorrect, PTL

\* For any number of opens: without kernel faults the pin is never left behind
\* by driver_open or driver_close.
THEOREM PinNotLeakedCorrect == Spec => []PinNotLeaked
  <1>1. OwnerInv /\ TypeOK => PinNotLeaked
    BY DEF OwnerInv, PinInv, HoldsPin, TypeOK, PinNotLeaked, Unused
  <1> QED
    BY <1>1, OwnerCorrect, TypeCorrect, PTL
=============================================================================
