------------------------------- MODULE LedTimer -------------------------------
(***************************************************************************)
(* The driver of 12_timer/timer.c: an LED that a kernel timer blinks.      *)
(*                                                                         *)
(* The state is in the one timerdev, whoever opens the device.  Nothing    *)
(* but the LED's GPIO keeps two files from being open at once: timer_open  *)
(* requests it, and fails when it is taken.  led_release gives it back     *)
(* before it stops the timer, and timer_function runs at any point of all  *)
(* this, on the other CPU.                                                 *)
(***************************************************************************)
EXTENDS Integers

CONSTANTS
    Procs,          \* processes that open the device, each with one file
    NoProc,         \* nobody has the GPIO
    DefaultPeriod,  \* the period that timer_open sets: 1000 ms
    Periods         \* periods that SETPERIOD_CMD is called with

ASSUME NoProcAssumption == NoProc \notin Procs
ASSUME PeriodsAssumption == DefaultPeriod \in Nat /\ Periods \subseteq Int

VARIABLES
    pc,         \* where a process is in the driver
    owner,      \* who has the GPIO requested
    timeperiod, \* timerdev.timeperiod
    pending,    \* timerdev.timer is armed
    left,       \* ticks left before it expires
    timerPc,    \* where timer_function is
    sta,        \* static int sta of timer_function
    led,        \* the GPIO's output: 1 is off
    running     \* history: the open file asked last for a running timer

timerVars == <<pending, left>>
vars == <<pc, owner, timeperiod, timerVars, timerPc, sta, led, running>>

\* "parse": in timer_open, before led_parse.  "closecmd": in an ioctl, in its
\* del_timer_sync.  "opencmd" and "setperiod": before its mod_timer.  "off", "free", "del": in led_release, before
\* gpio_set_value, gpio_free and del_timer_sync.
PC == {"closed", "parse", "user", "closecmd", "opencmd", "setperiod",
       "off", "free", "del"}

\* msecs_to_jiffies takes an unsigned int, and makes of one that is negative as
\* an int an interval of MAX_JIFFY_OFFSET, which never ends.
Never == -1

\* Wrong on purpose: a negative period is an interval like any other.
JiffiesSigned(m) == m

Jiffies(m) == IF m < 0 THEN Never ELSE m

AllPeriods == Periods \cup {DefaultPeriod, 0}

TypeOK ==
    /\ pc \in [Procs -> PC]
    /\ owner \in Procs \cup {NoProc}
    /\ timeperiod \in AllPeriods
    /\ pending \in BOOLEAN
    /\ left \in Nat \cup {Never}
    /\ timerPc \in {"idle", "toggle", "rearm"}
    /\ sta \in 0..1
    /\ led \in 0..1
    /\ running \in BOOLEAN

\* timerdev is zeroed; the pin's level is what the board left there.
Init ==
    /\ pc = [p \in Procs |-> "closed"]
    /\ owner = NoProc
    /\ timeperiod = 0
    /\ pending = FALSE
    /\ left = 0
    /\ timerPc = "idle"
    /\ sta = 1
    /\ led \in 0..1
    /\ running = FALSE

Goto(p, from, to) == pc[p] = from /\ pc' = [pc EXCEPT ![p] = to]

-----------------------------------------------------------------------------
(* The timer core's three calls.                                           *)

mod_timer(jiffies) == pending' = TRUE /\ left' = jiffies

\* Wrong on purpose: del_timer, which does not wait.
del_timer ==
    /\ pending' = FALSE
    /\ left' = 0

\* del_timer_sync waits for a timer_function on the other CPU to return, and
\* then disarms the timer, which timer_function has just armed again.
del_timer_sync ==
    /\ timerPc = "idle"
    /\ pending' = FALSE
    /\ left' = 0

Tick ==
    /\ pending
    /\ left > 0
    /\ left' = left - 1
    /\ UNCHANGED <<pc, owner, timeperiod, pending, timerPc, sta, led, running>>

-----------------------------------------------------------------------------
(* The file operations.                                                    *)

\* timer_open sets the period before it knows whether it may have the LED.
timer_open(p) ==
    /\ Goto(p, "closed", "parse")
    /\ timeperiod' = DefaultPeriod
    /\ UNCHANGED <<owner, timerVars, timerPc, sta, led, running>>

\* Wrong on purpose: the result of gpio_request is ignored.
LedParseNoCheck(p) ==
    /\ Goto(p, "parse", "user")
    /\ owner' = p
    /\ led' = 1
    /\ UNCHANGED <<timeperiod, timerVars, timerPc, sta, running>>

\* gpio_request fails with -EBUSY when another file has the GPIO, and so does
\* the open; otherwise the pin becomes an output and the LED goes off, unless
\* that fails, which led_parse ignores.  The open may fail at any time: the
\* device tree may not have what it looks for, another driver may have the GPIO.
led_parse(p) ==
    \/ /\ owner = NoProc
       /\ Goto(p, "parse", "user")
       /\ owner' = p
       /\ led' \in {1, led}
       /\ UNCHANGED <<timeperiod, timerVars, timerPc, sta, running>>
    \/ /\ Goto(p, "parse", "closed")
       /\ UNCHANGED <<owner, timeperiod, timerVars, timerPc, sta, led, running>>

\* ioctl(CLOSE_CMD), up to its del_timer_sync.
CloseCmd(p) ==
    /\ Goto(p, "user", "closecmd")
    /\ running' = FALSE
    /\ UNCHANGED <<owner, timeperiod, timerVars, timerPc, sta, led>>

\* Wrong on purpose: CLOSE_CMD waits for the timer to come to rest by itself.
CloseCmdAwaitsTimer(p) ==
    /\ Goto(p, "closecmd", "user")
    /\ ~pending /\ timerPc = "idle"
    /\ UNCHANGED <<owner, timeperiod, timerVars, timerPc, sta, led, running>>

\* ... which is over when timer_function is not running.
CloseCmdDone(p) ==
    /\ Goto(p, "closecmd", "user")
    /\ del_timer_sync
    /\ UNCHANGED <<owner, timeperiod, timerPc, sta, led, running>>

\* ioctl(OPEN_CMD) and ioctl(SETPERIOD_CMD), up to their mod_timer.
OpenCmd(p) ==
    /\ Goto(p, "user", "opencmd")
    /\ UNCHANGED <<owner, timeperiod, timerVars, timerPc, sta, led, running>>

SetPeriodCmd(p) ==
    /\ Goto(p, "user", "setperiod")
    /\ timeperiod' \in Periods
    /\ UNCHANGED <<owner, timerVars, timerPc, sta, led, running>>

\* Both read the period without the lock that SETPERIOD_CMD stores it under.
ModTimerCmd(p) ==
    /\ Goto(p, "opencmd", "user") \/ Goto(p, "setperiod", "user")
    /\ mod_timer(Jiffies(timeperiod))
    /\ running' = TRUE
    /\ UNCHANGED <<owner, timeperiod, timerPc, sta, led>>

\* led_release, on the last close of the file: the LED off, the GPIO back, and
\* only then the timer.
led_release(p) ==
    \/ /\ Goto(p, "user", "off")
       /\ running' = FALSE
       /\ UNCHANGED <<owner, timeperiod, timerVars, timerPc, sta, led>>
    \/ /\ Goto(p, "off", "free")
       /\ led' = 1
       /\ UNCHANGED <<owner, timeperiod, timerVars, timerPc, sta, running>>
    \/ /\ Goto(p, "free", "del")
       /\ owner' = NoProc
       /\ UNCHANGED <<timeperiod, timerVars, timerPc, sta, led, running>>
    \/ /\ Goto(p, "del", "closed")
       /\ del_timer_sync
       /\ UNCHANGED <<owner, timeperiod, timerPc, sta, led, running>>

-----------------------------------------------------------------------------
(* The timer's callback.                                                   *)

TimerExpire ==
    /\ timerPc = "idle"
    /\ pending
    /\ left = 0
    /\ pending' = FALSE
    /\ timerPc' = "toggle"
    /\ UNCHANGED <<pc, owner, timeperiod, left, sta, led, running>>

\* Wrong on purpose: sta is not static, so that it starts at 1 in every call.
TimerToggleAuto ==
    /\ timerPc = "toggle"
    /\ timerPc' = "rearm"
    /\ sta' = 0
    /\ led' = sta'
    /\ UNCHANGED <<pc, owner, timeperiod, timerVars, running>>

\* timer_function up to mod_timer: whoever has the GPIO, the pin is set.
TimerToggle ==
    /\ timerPc = "toggle"
    /\ timerPc' = "rearm"
    /\ sta' = 1 - sta
    /\ led' = sta'
    /\ UNCHANGED <<pc, owner, timeperiod, timerVars, running>>

\* ... and its mod_timer, with the period of the moment.
TimerRearm ==
    /\ timerPc = "rearm"
    /\ timerPc' = "idle"
    /\ mod_timer(Jiffies(timeperiod))
    /\ UNCHANGED <<pc, owner, timeperiod, sta, led, running>>

-----------------------------------------------------------------------------
ProcStep(p) ==
    \/ timer_open(p) \/ led_parse(p)
    \/ CloseCmd(p) \/ CloseCmdDone(p)
    \/ OpenCmd(p) \/ SetPeriodCmd(p) \/ ModTimerCmd(p)
    \/ led_release(p)

Next ==
    \/ Tick
    \/ TimerExpire
    \/ TimerToggle
    \/ TimerRearm
    \/ \E p \in Procs : ProcStep(p)

\* The clock ticks, an expired timer is served, and a process inside the driver
\* gets on; what a process does in user mode is its own affair.  A spinning
\* del_timer_sync sees the timer idle sooner or later, because timer_function
\* takes far less than a tick and never runs twice in one: strong fairness.
Fairness ==
    /\ WF_vars(Tick)
    /\ WF_vars(TimerExpire)
    /\ WF_vars(TimerToggle)
    /\ WF_vars(TimerRearm)
    /\ \A p \in Procs :
        /\ WF_vars(led_parse(p) \/ ModTimerCmd(p))
        /\ SF_vars(CloseCmdDone(p))
        /\ SF_vars(pc[p] # "user" /\ led_release(p))

SafeSpec == Init /\ [][Next]_vars

Spec == SafeSpec /\ Fairness

-----------------------------------------------------------------------------
(* Properties.                                                             *)

Active == pending \/ timerPc # "idle"

\* A stop of the timer is under way.
Stopping(p) == pc[p] \in {"closecmd", "off", "free", "del"}

\* The GPIO tells who has the device open: no two processes ever do.
OneOwner ==
    \A p \in Procs :
        owner = p <=> pc[p] \in {"user", "closecmd", "opencmd", "setperiod",
                                 "off", "free"}

\* The timer is dead once its user stopped it or closed the file: although
\* timer_function arms itself again, CLOSE_CMD and led_release leave neither a
\* callback running nor a timer armed behind.
StoppedIsQuiet ==
    ~running /\ (\A p \in Procs : ~Stopping(p)) => ~Active

\* A timer with an interval that ends, which nobody kills and nobody arms anew,
\* blinks the LED for ever: the callback always arms the next one, whatever the
\* files do.
Blinks ==
    <>[](/\ Active
         /\ left # Never
         /\ \A p \in Procs : pc[p] \notin {"opencmd", "setperiod"})
        => []<>(led = 0) /\ []<>(led = 1)

\* Every call returns: CLOSE_CMD and led_release wait in del_timer_sync for a
\* callback that arms the timer again and again, and get their moment.
CallsReturn == \A p \in Procs : pc[p] # "user" ~> pc[p] \in {"user", "closed"}

\* timerApp.c: OPEN_CMD starts the timer.  So it runs until its user stops it.
StartedRuns == running => Active

=============================================================================
