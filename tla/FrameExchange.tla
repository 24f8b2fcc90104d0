----------------------------- MODULE FrameExchange -----------------------------
(***************************************************************************)
(* What the slave promises of the process data it moves, whatever buffers, *)
(* counters and threads it uses: words of frames go from the master to the *)
(* application and from the application to the master.                     *)
(*                                                                         *)
(* A word carries the number of its frame.  Towards the application every  *)
(* word goes forward to a frame that the master has written.  Towards the  *)
(* master a cycle takes the newest announced frame: the words that it      *)
(* transmits are of that frame or of later ones that have been begun, and  *)
(* at most Lag frames older.  Frames may be skipped, repeated and mixed.   *)
(***************************************************************************)
EXTENDS Integers

CONSTANTS
    Words,   \* the words of a frame
    Lag      \* how many frames late a transmitted word may be

VARIABLES
    master,       \* frames that the master has written
    delivered,    \* words that the application holds
    begun,        \* frames that the application has begun to store
    announced,    \* frames that it has announced
    cycle,        \* a cycle has taken a frame and is going to transmit it
    taken,        \* frames announced when it took that
    transmitted   \* words that the master can read

vars == <<master, delivered, begun, announced, cycle, taken, transmitted>>

Init ==
    /\ master = 0 /\ begun = 0 /\ announced = 0 /\ cycle = FALSE /\ taken = 0
    /\ delivered = [w \in Words |-> 0] /\ transmitted = [w \in Words |-> 0]

MasterWrite ==
    /\ master' = master + 1
    /\ UNCHANGED <<delivered, begun, announced, cycle, taken, transmitted>>

\* A word of the application moves on to a newer frame.
Deliver(w) ==
    /\ delivered[w] <= delivered'[w] /\ delivered'[w] <= master
    /\ delivered' = [delivered EXCEPT ![w] = delivered'[w]]
    /\ UNCHANGED <<master, begun, announced, cycle, taken, transmitted>>

\* The application stores the first word of a frame ...
Begin ==
    /\ begun = announced /\ begun' = begun + 1
    /\ UNCHANGED <<master, delivered, announced, cycle, taken, transmitted>>

\* ... and announces the frame.
Announce ==
    /\ announced' = announced + 1 /\ begun' = announced'
    /\ UNCHANGED <<master, delivered, cycle, taken, transmitted>>

\* A cycle takes the newest announced frame ...
Take ==
    /\ ~cycle /\ cycle' = TRUE /\ taken' = announced
    /\ UNCHANGED <<master, delivered, begun, announced, transmitted>>

\* ... and transmits it, or parts of frames stored since.
Transmit ==
    /\ cycle /\ cycle' = FALSE
    /\ \A w \in Words : taken - Lag <= transmitted'[w] /\ transmitted'[w] <= begun
    /\ UNCHANGED <<master, delivered, begun, announced, taken>>

Next ==
    \/ MasterWrite \/ Begin \/ Announce \/ Take \/ Transmit
    \/ \E w \in Words : Deliver(w)

Spec == Init /\ [][Next]_vars
=============================================================================
