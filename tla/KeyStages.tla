------------------------------ MODULE KeyStages ------------------------------
(***************************************************************************)
(* What a key driver with an interrupt, a tasklet and a timer promises of  *)
(* the key's level: a change of the pin is handed from one stage to the    *)
(* next until the last one tells the level.  KeyIrq and KeyNotify, whose   *)
(* stages have races and whose timer has an expiry, implement it.          *)
(***************************************************************************)

CONSTANT Levels     \* of the pin

VARIABLES
    pin,        \* the level of the pin
    told,       \* the level that the driver has told last
    moved,      \* the pin has moved
    edge,       \* an edge waits for its interrupt
    tasklet,    \* the tasklet is scheduled
    pending     \* the timer is armed, or its function has yet to look at the pin

vars == <<pin, told, moved, edge, tasklet, pending>>

Init ==
    /\ pin \in Levels
    /\ told \in Levels
    /\ moved = FALSE
    /\ edge = FALSE
    /\ tasklet = FALSE
    /\ pending = FALSE

Move ==
    /\ pin' \in Levels \ {pin}
    /\ moved' = TRUE
    /\ edge' = TRUE
    /\ UNCHANGED <<told, tasklet, pending>>

\* An interrupt may also come for nothing.
Interrupt ==
    /\ edge' = FALSE
    /\ tasklet' = TRUE
    /\ UNCHANGED <<pin, told, moved, pending>>

Tasklet ==
    /\ tasklet
    /\ tasklet' = FALSE
    /\ pending' = TRUE
    /\ UNCHANGED <<pin, told, moved, edge>>

\* The timer may have been armed again while its function ran.
Tell ==
    /\ pending
    /\ told' = pin
    /\ pending' \in BOOLEAN
    /\ UNCHANGED <<pin, moved, edge, tasklet>>

Next == Move \/ Interrupt \/ Tasklet \/ Tell

Spec == Init /\ [][Next]_vars
===============================================================================
