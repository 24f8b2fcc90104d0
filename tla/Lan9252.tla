------------------------------- MODULE Lan9252 -------------------------------
(***************************************************************************)
(* What the slave's accesses to the LAN9252 promise, without the command   *)
(* and data registers, busy bit and status polls that they are made of:    *)
(* the chip performs each access in one instant between its issue and its  *)
(* return, there is one at a time, and MainTask decides by the answers of  *)
(* the same cycle, the watchdog first.                                     *)
(***************************************************************************)

VARIABLES
    \* the access that is made next, or is under way, and how far it is
    access, phase,
    \* what the chip has answered to it; the watchdog's answer, as MainTask keeps it
    answer, expired,
    \* the chip: event mask, event of sync manager 0, watchdog expired, state is OP
    mask, event, wd, op

program == <<access, phase, answer, expired>>
vars    == <<program, mask, event, wd, op>>

Init ==
    /\ access = "MASK" /\ phase = "ahead" /\ answer = FALSE /\ expired = FALSE
    /\ mask \in BOOLEAN /\ event \in BOOLEAN /\ wd \in BOOLEAN /\ op \in BOOLEAN

\* Before its first access the program may reset the chip.
Reset ==
    /\ access = "MASK" /\ phase = "ahead"
    /\ mask' = FALSE /\ event' = FALSE /\ op' = FALSE
    /\ UNCHANGED <<program, wd>>

Issue ==
    /\ phase = "ahead" /\ phase' = "issued"
    /\ UNCHANGED <<access, answer, expired, mask, event, wd, op>>

\* The chip performs the access.
Perform ==
    /\ phase = "issued" /\ phase' = "done"
    /\ answer' = ((access = "WDOG" /\ wd) \/ (access = "AL" /\ op))
    /\ mask'   = (mask \/ access = "MASK")
    /\ event'  = (event /\ access # "INPUT")
    /\ UNCHANGED <<access, expired, wd, op>>

\* The access after that which has returned: the data are read only if the watchdog
\* was alive and, later in the same cycle, the state OP.
Follows ==
    CASE access \in {"MASK", "OUTPUT"} -> "WDOG"
      [] access = "WDOG" -> "AL"
      [] access = "AL" -> IF expired \/ ~answer THEN "OUTPUT" ELSE "INPUT"
      [] access = "INPUT" -> "OUTPUT"

Return ==
    /\ phase = "done" /\ phase' = "ahead" /\ access' = Follows /\ answer' = FALSE
    /\ expired' = IF access = "WDOG" THEN answer ELSE expired
    /\ UNCHANGED <<mask, event, wd, op>>

\* The master writes a frame; the watchdog expires or the state changes.
Master ==
    /\ \/ event' = TRUE /\ wd' = FALSE /\ UNCHANGED op
       \/ UNCHANGED event /\ wd' \in BOOLEAN /\ op' \in BOOLEAN
    /\ UNCHANGED <<program, mask>>

Next == Reset \/ Issue \/ Perform \/ Return \/ Master

Spec == Init /\ [][Next]_vars
=============================================================================
