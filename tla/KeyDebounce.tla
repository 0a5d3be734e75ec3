----------------------------- MODULE KeyDebounce -----------------------------
(***************************************************************************)
(* The interrupt pipeline shared by the key drivers 13_irq, 14_blockio,    *)
(* 15_noblockio and 16_fasync:                                             *)
(*                                                                         *)
(*   edge on the pin -> key_interrupt_handler -> tasklet -> 15 ms timer    *)
(*                   -> timer_function samples the pin into keydev.status  *)
(*                                                                         *)
(* This module has the pipeline's state and its steps; KeyIrq and          *)
(* KeyNotify add the readers of the four drivers and their specifications. *)
(* A jiffy is abstracted to Tick: the timer expires Debounce ticks after   *)
(* it was last armed, however long the interrupt and the tasklet waited.   *)
(***************************************************************************)
EXTENDS Naturals

CONSTANTS
    Debounce,   \* timer delay in ticks: msecs_to_jiffies(15)
    MaxEdges    \* bound of the model: edges the pin makes in a behaviour

ASSUME DebounceAssumption == Debounce \in Nat \ {0}
ASSUME MaxEdgesAssumption == MaxEdges \in Nat

KEY_PRESS   == "KEY_PRESS"
KEY_RELEASE == "KEY_RELEASE"
KEY_NONE    == "KEY_NONE"

VARIABLES
    level,      \* the pin: 0 pressed, 1 released
    edges,      \* edges so far (never more than MaxEdges)
    quiet,      \* ticks since the last edge, counted up to Debounce
    irq,        \* an edge is latched in the interrupt controller
    tasklet,    \* keydev.tasklet is scheduled (TASKLET_STATE_SCHED)
    pending,    \* keydev.timer is armed
    expires,    \* ticks left before it expires
    timerPc,    \* where timer_function is: "idle" when it is not running
    status,     \* keydev.status
    last_value, \* static int last_value of timer_function
    event,      \* history: number of changes reported so far
    lastRead    \* history: the newest event handed to a reader

pinVars      == <<level, edges, quiet>>
pipeVars     == <<irq, tasklet, pending, expires>>
mailVars     == <<status, event, lastRead>>
debounceVars == <<pinVars, pipeVars, timerPc, last_value, mailVars>>

DebounceTypeOK ==
    /\ level \in 0..1
    /\ edges \in 0..MaxEdges
    /\ quiet \in 0..Debounce
    /\ irq \in BOOLEAN
    /\ tasklet \in BOOLEAN
    /\ pending \in BOOLEAN
    /\ expires \in 0..Debounce
    /\ timerPc \in {"idle", "lock", "wake", "sigio"}
    /\ status \in {KEY_PRESS, KEY_RELEASE, KEY_NONE}
    /\ last_value \in 0..1
    /\ event \in Nat
    /\ lastRead \in Nat

\* keydev is zeroed but for .status; the pin may be at either level, and has
\* been for a while, when the driver is loaded.
DebounceInit ==
    /\ level \in 0..1
    /\ edges = 0
    /\ quiet = Debounce
    /\ irq = FALSE
    /\ tasklet = FALSE
    /\ pending = FALSE
    /\ expires = 0
    /\ timerPc = "idle"
    /\ status = KEY_NONE
    /\ last_value = 1
    /\ event = 0
    /\ lastRead = 0

-----------------------------------------------------------------------------
(* The environment: the pin and the clock.                                 *)

\* The line is requested for both edges; an edge latched before the handler
\* ran is not counted twice.
Edge ==
    /\ edges < MaxEdges
    /\ edges' = edges + 1
    /\ level' = 1 - level
    /\ quiet' = 0
    /\ irq' = TRUE
    /\ UNCHANGED <<tasklet, pending, expires, timerPc, last_value, mailVars>>

Tick ==
    /\ quiet < Debounce \/ (pending /\ expires > 0)
    /\ quiet' = IF quiet < Debounce THEN quiet + 1 ELSE quiet
    /\ expires' = IF pending /\ expires > 0 THEN expires - 1 ELSE expires
    /\ UNCHANGED <<level, edges, irq, tasklet, pending, timerPc, last_value, mailVars>>

-----------------------------------------------------------------------------
(* The driver.                                                             *)

\* Wrong on purpose: an edge is dropped while a status waits for its reader.
HandlerDropsWhileUnread ==
    /\ irq
    /\ irq' = FALSE
    /\ tasklet' = (status = KEY_NONE \/ tasklet)
    /\ UNCHANGED <<pinVars, pending, expires, timerPc, last_value, mailVars>>

\* tasklet_schedule of a tasklet that is already scheduled does nothing.
key_interrupt_handler ==
    /\ irq
    /\ irq' = FALSE
    /\ tasklet' = TRUE
    /\ UNCHANGED <<pinVars, pending, expires, timerPc, last_value, mailVars>>

\* Wrong on purpose: add_timer only when the timer is not armed yet, so that the
\* interval runs from the first edge of a bounce and not from the last.
TaskletKeepsExpiry ==
    /\ tasklet
    /\ tasklet' = FALSE
    /\ pending' = TRUE
    /\ expires' = IF pending THEN expires ELSE Debounce
    /\ UNCHANGED <<pinVars, irq, timerPc, last_value, mailVars>>

\* Wrong on purpose: the interval is added to what is left of an armed timer's,
\* mod_timer(&t, t.expires + interval), and not to jiffies.
TaskletAddsInterval ==
    /\ tasklet
    /\ tasklet' = FALSE
    /\ pending' = TRUE
    /\ expires' = Debounce + (IF pending THEN expires ELSE 0)
    /\ UNCHANGED <<pinVars, irq, timerPc, last_value, mailVars>>

\* mod_timer arms the timer, or pushes back the expiry of an armed one.  It
\* may run while timer_function does: the timer is then armed for one more run.
key_irq_tasklet ==
    /\ tasklet
    /\ tasklet' = FALSE
    /\ pending' = TRUE
    /\ expires' = Debounce
    /\ UNCHANGED <<pinVars, irq, timerPc, last_value, mailVars>>

\* The timer core disarms the timer and calls timer_function, which has yet
\* to take keydev.spinlock.  A timer never runs concurrently with itself.
TimerExpire ==
    /\ timerPc = "idle"
    /\ pending
    /\ expires = 0
    /\ pending' = FALSE
    /\ timerPc' = "lock"
    /\ UNCHANGED <<pinVars, irq, tasklet, expires, last_value, mailVars>>

\* The outcome of a sample: a change of level is an event, and anything else
\* clears the status, even one that no reader has taken.
Report(cur_value) ==
    IF cur_value # last_value
    THEN /\ status' = IF cur_value = 0 THEN KEY_PRESS ELSE KEY_RELEASE
         /\ event' = event + 1
         /\ UNCHANGED lastRead
    ELSE /\ status' = KEY_NONE
         /\ UNCHANGED <<event, lastRead>>

\* Wrong on purpose: a sample is skipped, to spare a status that nobody has read.
SampleSkipsWhileUnread(next) ==
    /\ timerPc = "lock"
    /\ IF status = KEY_NONE
       THEN Report(level) /\ last_value' = level
       ELSE UNCHANGED <<mailVars, last_value>>
    /\ timerPc' = next
    /\ UNCHANGED <<pinVars, pipeVars>>

\* The critical section of timer_function; what follows it is at label next.
TimerSample(next) ==
    /\ timerPc = "lock"
    /\ Report(level)
    /\ last_value' = level
    /\ timerPc' = next
    /\ UNCHANGED <<pinVars, pipeVars>>

\* Wrong on purpose: the read leaves the status for the next reader.
CopyKeepsStatus ==
    /\ lastRead' = IF status = KEY_NONE THEN lastRead ELSE event
    /\ UNCHANGED <<pinVars, pipeVars, timerPc, last_value, status, event>>

\* The critical section of kery_read when copy_to_user succeeds.  The status
\* handed to the reader is that of event number event, or KEY_NONE.
CopyStatus ==
    /\ status' = KEY_NONE
    /\ lastRead' = IF status = KEY_NONE THEN lastRead ELSE event
    /\ UNCHANGED <<pinVars, pipeVars, timerPc, last_value, event>>

-----------------------------------------------------------------------------
(* Properties of the pipeline that KeyIrq and KeyNotify check and prove.   *)

\* An event in keydev.status has not been read: kery_read copies and clears it
\* in one critical section, so no reader gets a press or a release twice.
UnreadIsFresh ==
    /\ lastRead <= event
    /\ status # KEY_NONE => lastRead < event

\* Presses and releases alternate: the status is the kind of the newest event,
\* whose number has the parity of the level that timer_function saw last.
EventsAlternate ==
    /\ last_value = (event + 1) % 2
    /\ status = KEY_PRESS => event % 2 = 1
    /\ status = KEY_RELEASE => event % 2 = 0 /\ event > 0

\* After the first edge, a level that the driver has not seen is on its way:
\* some stage between the interrupt line and timer_function's lock holds it.
EdgeNotForgotten ==
    edges > 0 /\ last_value # level =>
        irq \/ tasklet \/ pending \/ timerPc = "lock"

\* An armed timer whose last edge has passed the tasklet covers that edge's
\* whole debounce interval.
TimerCoversBounce ==
    pending /\ ~irq /\ ~tasklet => quiet + expires >= Debounce

\* timer_function samples a level that has been steady for the debounce
\* interval, or a later sample is already on its way.
SampleSettled ==
    timerPc = "lock" => quiet >= Debounce \/ irq \/ tasklet \/ pending

-----------------------------------------------------------------------------
(* What KeyIrq and KeyNotify implement.                                    *)

Mailbox == INSTANCE KeyMailbox

Stages == INSTANCE KeyStages WITH
    Levels <- 0..1, pin <- level, told <- last_value, moved <- edges > 0,
    edge <- irq, pending <- pending \/ timerPc = "lock"
=============================================================================
