----------------------------- MODULE KeyMailbox -----------------------------
(***************************************************************************)
(* What the key drivers 13_irq .. 16_fasync promise to their readers: a    *)
(* mailbox with one slot.                                                  *)
(*                                                                         *)
(* The driver numbers the events it reports 1, 2, 3, ...; odd events are   *)
(* presses and even events are releases, because the driver only reports   *)
(* a change of the debounced level and the level starts released.  The     *)
(* slot holds the newest event until a reader takes it or a later sample   *)
(* overwrites or erases it.  Events can be lost, but a reader never gets   *)
(* one twice, never gets one out of order, and presses and releases        *)
(* alternate among the events reported.                                    *)
(***************************************************************************)
EXTENDS Naturals

VARIABLES
    status,     \* the slot: keydev.status of the drivers
    event,      \* number of events reported so far
    lastRead    \* the newest event handed to a reader, 0 before the first

vars == <<status, event, lastRead>>

KEY_PRESS   == "KEY_PRESS"
KEY_RELEASE == "KEY_RELEASE"
KEY_NONE    == "KEY_NONE"

\* The level starts released, so the n-th reported change is a press iff n is odd.
KindOf(n) == IF n % 2 = 1 THEN KEY_PRESS ELSE KEY_RELEASE

Init == status = KEY_NONE /\ event = 0 /\ lastRead = 0

\* A new event replaces whatever the slot holds.
Report ==
    /\ event' = event + 1
    /\ status' = KindOf(event + 1)
    /\ UNCHANGED lastRead

\* A sample that shows no change erases the slot.
Erase ==
    /\ status' = KEY_NONE
    /\ UNCHANGED <<event, lastRead>>

\* A reader takes the newest event, which nobody has read.
Take ==
    /\ status = KindOf(event)
    /\ lastRead < event
    /\ lastRead' = event
    /\ status' = KEY_NONE
    /\ UNCHANGED event

Next == Report \/ Erase \/ Take

Spec == Init /\ [][Next]_vars
=============================================================================
