------------------------------- MODULE InputKey -------------------------------
(***************************************************************************)
(* What 20_input/keyinput.c reports to the input core, together with the   *)
(* loads and removals of DriverModule, whose Interrupt, Tasklet and        *)
(* TimerFires are the stages of its pipeline (their races are those of     *)
(* KeyDebounce).  The driver keeps no level of its own: the timer reports  *)
(* what it samples, and the input core keeps it.                           *)
(***************************************************************************)
EXTENDS DriverModule

VARIABLES
    button,     \* the key, "down" or "up"; its pin is low while it is down
    edge,       \* an edge of the pin whose interrupt has not been taken yet
    reported,   \* KEY_0 in the input core
    heard       \* history: the key has moved since the interrupt is requested

inputvars == <<button, edge, reported, heard>>

Moves == {"up", "down"}

\* An edge waits only for an interrupt that is requested.
InputTypeOK ==
    /\ button \in Moves
    /\ edge \in BOOLEAN
    /\ edge => name = "keyinput" /\ "irq" \in held
    /\ reported \in Moves
    /\ heard \in BOOLEAN

InitInput ==
    /\ button = "up"
    /\ edge = FALSE
    /\ reported = "up"
    /\ heard = FALSE

-----------------------------------------------------------------------------
\* An interrupt that nobody has requested is masked.
Latched == "irq" \in held

MoveKey ==
    /\ name = "keyinput"
    /\ button' = IF button = "up" THEN "down" ELSE "up"
    /\ edge' = Latched
    /\ heard' = Latched
    /\ UNCHANGED <<vars, reported>>

\* Wrong on purpose: the key's release is not reported.
ReportPress == IF button = "down" THEN "down" ELSE reported

\* input_report_key of !value.
Report == button

\* With a step of the driver's life.
InputFollows ==
    /\ edge' = (edge /\ ~Interrupt /\ "irq" \in held')
    /\ reported' = IF name = "keyinput" /\ TimerFires THEN Report ELSE reported
    /\ UNCHANGED <<button, heard>>

-----------------------------------------------------------------------------
(* Properties.                                                             *)

\* From the end of the probe to the removal, once the key has moved, what the input
\* core holds is the key's level, or an interrupt, a tasklet or a timer is on its way
\* that will report it (keyinput.c:96-110).  A key that is held when the driver comes is
\* not reported, and an interrupt during the probe may come to nothing (late).
InputTold ==
    name = "keyinput" /\ pc = "live" /\ ~late /\ heard
    /\ ~edge /\ ~tasklet /\ ~pending
    => reported = button
=============================================================================
