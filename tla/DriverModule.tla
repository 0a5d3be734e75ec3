----------------------------- MODULE DriverModule -----------------------------
(***************************************************************************)
(* The life of a driver of DriverTables: insmod (or the probe of a bus     *)
(* driver) with calls that may fail, the files opened and the interrupts   *)
(* that come meanwhile, and rmmod (or the removal of the device).          *)
(*                                                                         *)
(* The kernel's part is modelled by its contracts: a module with open      *)
(* files is not unloaded, and no file is opened once its exit function     *)
(* runs (every fops has .owner); unbinding a bus driver asks for neither.  *)
(* The three stages of the key pipeline are one step each here.            *)
(***************************************************************************)
EXTENDS DriverTables, FiniteSets

CONSTANTS
    Drivers,    \* names of the drivers that the behaviours are of
    MaxFiles    \* bound of the model: files open at the same time

\* The drivers of DriverTables.
ASSUME DriversAssumption ==
    Drivers \subseteq
        {"led", "newchrled", "dtsled", "gpioled", "leddriver", "myclass",
         "key", "timer", "keyirq", "blockio", "noblockio", "fasync", "keyinput",
         "miscbeep", "ap3216c", "icm20608", "ft5x06", "helloDev", "globalmem",
         "chardev", "sysfstest", "xbus", "xdev", "xdrv"}

ASSUME MaxFilesAssumption == MaxFiles \in Nat

VARIABLES
    name,       \* the driver of this behaviour
    pc,         \* "load", "undo" a load that failed, "live", "unload" or "gone"
    at,         \* the step of the load to do next
    todo,       \* releases that are left to do
    held,       \* what the driver has got or set up
    files,      \* number of open files
    tasklet,    \* the tasklet is scheduled
    pending,    \* the timer is armed
    failed,     \* history: the step of the load that failed, or "none"
    missing,    \* history: what the driver did not get, unnoticed
    unheld,     \* history: what it released without having it
    late        \* history: an interrupt came, or was under way, outside "live"

vars == <<name, pc, at, todo, held, files, tasklet, pending, failed, missing, unheld, late>>

Table(n) ==
    CASE n = "led" -> led             [] n = "newchrled" -> newchrled
      [] n = "dtsled" -> dtsled       [] n = "gpioled" -> gpioled
      [] n = "leddriver" -> leddriver [] n = "myclass" -> myclass
      [] n = "key" -> key             [] n = "timer" -> timer
      [] n = "keyirq" -> keyirq       [] n = "blockio" -> blockio
      [] n = "noblockio" -> noblockio [] n = "fasync" -> fasync
      [] n = "keyinput" -> keyinput   [] n = "miscbeep" -> miscbeep
      [] n = "ap3216c" -> ap3216c     [] n = "icm20608" -> icm20608
      [] n = "ft5x06" -> ft5x06       [] n = "helloDev" -> helloDev
      [] n = "globalmem" -> globalmem [] n = "chardev" -> chardev
      [] n = "sysfstest" -> sysfstest [] n = "xbus" -> xbus
      [] n = "xdev" -> xdev           [] n = "xdrv" -> xdrv

driver == Table(name)

\* What is set up and needs no release.
Settings == {"tasklet", "timer", "sema", "drvdata", "client"}

Gets == UNION {driver.load[i].gets : i \in DOMAIN driver.load}

TypeOK ==
    /\ name \in Drivers
    /\ pc \in {"load", "undo", "live", "unload", "gone"}
    /\ at \in 1..Len(driver.load) + 1
    /\ \A i \in DOMAIN todo : todo[i] \subseteq Gets
    /\ held \subseteq Gets
    /\ files \in 0..MaxFiles
    /\ tasklet \in BOOLEAN
    /\ pending \in BOOLEAN
    /\ failed \in {"none"} \cup {driver.load[i].name : i \in DOMAIN driver.load}
    /\ missing \subseteq Gets
    /\ unheld \subseteq Gets
    /\ late \in BOOLEAN

Init ==
    /\ name \in Drivers
    /\ pc = "load"
    /\ at = 1
    /\ todo = <<>>
    /\ held = {}
    /\ files = 0
    /\ tasklet = FALSE
    /\ pending = FALSE
    /\ failed = "none"
    /\ missing = {}
    /\ unheld = {}
    /\ late = FALSE

-----------------------------------------------------------------------------
(* Loading.                                                                *)

step == driver.load[at]

Loading == pc = "load" /\ at <= Len(driver.load)

\* A step that uses what the driver did not get is the last one: it kills insmod (or
\* the probe) in the middle of the load, which neither goes on nor is undone.
StepDone ==
    /\ Loading
    /\ step.kind # "drop"
    /\ step.kind = "misc" => "misc" \in held
    /\ held' = held \cup step.gets
    /\ at' = at + 1
    /\ UNCHANGED <<name, pc, todo, files, tasklet, pending, failed, missing, unheld, late>>

StepUnnoticed ==
    /\ Loading
    /\ step.kind = "ignored"
    /\ missing' = missing \cup step.gets
    /\ at' = at + 1
    /\ UNCHANGED <<name, pc, todo, held, files, tasklet, pending, failed, unheld, late>>

StepFailed ==
    /\ Loading
    /\ step.kind = "must"
    /\ failed' = step.name
    /\ todo' = step.undo
    /\ pc' = "undo"
    /\ UNCHANGED <<name, at, held, files, tasklet, pending, missing, unheld, late>>

\* A release of what is not held is noted; del_timer_sync leaves the timer set up
\* and stops it.
Release(r) ==
    /\ unheld' = unheld \cup (r \ held)
    /\ held' = held \ (r \ Settings)
    /\ pending' = (pending /\ "timer" \notin r)

StepDrops ==
    /\ Loading
    /\ step.kind = "drop"
    /\ Release(step.gets)
    /\ at' = at + 1
    /\ UNCHANGED <<name, pc, todo, files, tasklet, failed, missing, late>>

Loaded ==
    /\ pc = "load"
    /\ at > Len(driver.load)
    /\ pc' = "live"
    /\ UNCHANGED <<name, at, todo, held, files, tasklet, pending, failed, missing, unheld, late>>

-----------------------------------------------------------------------------
(* Unloading.                                                              *)

\* rmmod of a module in use fails; a device goes whoever uses it.
Unload ==
    /\ pc = "live"
    /\ driver.bus \/ files = 0
    /\ pc' = "unload"
    /\ todo' = driver.unload
    /\ late' = (late \/ tasklet)
    /\ UNCHANGED <<name, at, held, files, tasklet, pending, failed, missing, unheld>>

Undo ==
    /\ pc \in {"undo", "unload"}
    /\ todo # <<>>
    /\ Release(Head(todo))
    /\ todo' = Tail(todo)
    /\ UNCHANGED <<name, pc, at, files, tasklet, failed, missing, late>>

\* The driver core's part, after the driver's.
StillManaged(i) == driver.managed[i] \subseteq held

UndoManaged ==
    /\ pc \in {"undo", "unload"}
    /\ todo = <<>>
    /\ \E i \in DOMAIN driver.managed :
          /\ StillManaged(i)
          /\ \A j \in 1..i - 1 : ~StillManaged(j)
          /\ Release(driver.managed[i])
    /\ UNCHANGED <<name, pc, at, todo, files, tasklet, failed, missing, late>>

Gone ==
    /\ pc \in {"undo", "unload"}
    /\ todo = <<>>
    /\ \A i \in DOMAIN driver.managed : ~StillManaged(i)
    /\ pc' = "gone"
    /\ UNCHANGED <<name, at, todo, held, files, tasklet, pending, failed, missing, unheld, late>>

-----------------------------------------------------------------------------
(* The users, and the interrupt.                                           *)

CanOpen == driver.node \in held /\ (driver.bus \/ pc \in {"load", "undo", "live"})

Open ==
    /\ CanOpen
    /\ files < MaxFiles
    /\ files' = files + 1
    /\ UNCHANGED <<name, pc, at, todo, held, tasklet, pending, failed, missing, unheld, late>>

Close ==
    /\ files > 0
    /\ files' = files - 1
    /\ UNCHANGED <<name, pc, at, todo, held, tasklet, pending, failed, missing, unheld, late>>

CanInterrupt == driver.handler # {} /\ "irq" \in held

\* A handler with a thread of its own sets nothing off.
Interrupt ==
    /\ CanInterrupt
    /\ tasklet' = ~driver.thread
    /\ late' = (late \/ pc # "live")
    /\ UNCHANGED <<name, pc, at, todo, held, files, pending, failed, missing, unheld>>

Tasklet ==
    /\ tasklet
    /\ tasklet' = FALSE
    /\ pending' = TRUE
    /\ UNCHANGED <<name, pc, at, todo, held, files, failed, missing, unheld, late>>

TimerFires ==
    /\ pending
    /\ pending' = FALSE
    /\ UNCHANGED <<name, pc, at, todo, held, files, tasklet, failed, missing, unheld, late>>

-----------------------------------------------------------------------------
Next ==
    \/ StepDone \/ StepUnnoticed \/ StepFailed \/ StepDrops \/ Loaded
    \/ Unload \/ Undo \/ UndoManaged \/ Gone
    \/ Open \/ Close
    \/ Interrupt \/ Tasklet \/ TimerFires

Spec == Init /\ [][Next]_vars

-----------------------------------------------------------------------------
(* Properties.                                                             *)

\* What a driver n whose step f failed is known to keep for ever: key_gpio_init its GPIO when
\* gpio_direction_input fails, keyinput an input device that it could not
\* register, leddriver the registers mapped before a missing one, and sysfstest
\* its kset when it gets no kobject.
Kept(n, f) ==
    CASE n = "sysfstest" /\ f = "kobj" -> {"kset"}
      [] f = "direction" -> {"gpio"}
      [] n = "keyinput" /\ f = "register" -> {"input"}
      [] n = "leddriver" /\ f \in Map -> Map
      [] OTHER -> {}

\* On every other path through an init function, its goto ladder and the exit
\* function, all that was got is given back, whichever call fails.
NothingLeft == pc = "gone" => held \subseteq Kept(name, failed) \cup Settings

\* What is known to be released twice: the GPIO of miscbeep, by the probe that
\* succeeded and by remove.
Again(n) == IF n = "miscbeep" THEN {"gpio"} ELSE {}

\* ... and nothing else is released that the driver does not have, unless it had
\* not noticed that it did not get it.
ReleasedOnce == unheld \subseteq missing \cup Settings \cup Again(name)

\* The drivers that are known to be entered before their load has set up all that
\* their functions use.
Early == {"timer", "helloDev", "ap3216c", "icm20608"}

KnownEarly == pc = "load" /\ name \in Early

\* leddriver is unbound while its files are open, and the probe of miscbeep gives
\* the GPIO back when it succeeds.
KnownLost ==
    \/ name = "leddriver" /\ pc \in {"unload", "gone"}
    \/ name = "miscbeep"

\* Any other file finds all that its operations use, from the first open until the
\* last close, and an attribute all that its functions use as long as it is there.
\* What the driver did not notice that it did not get is left out, and so are the
\* files opened during a load that fails.
EntryReady ==
    /\ failed = "none" /\ (CanOpen \/ files > 0)
       => driver.needs \subseteq held \cup missing \/ KnownEarly \/ KnownLost
    /\ driver.attr \in held
       => driver.shows \subseteq held \cup missing \/ KnownEarly

\* Until the driver goes, and while it does, whatever an interrupt sets off finds
\* what it uses.  Known exceptions: an interrupt that comes outside "live" (every
\* driver here requests it before its load is done), and the thread of ft5x06, whose
\* input device the driver core gives back before the interrupt.
HandlersReady ==
    /\ pc \in {"live", "unload"} /\ ~late
    /\ CanInterrupt \/ tasklet \/ pending
    /\ ~(driver.thread /\ pc = "unload")
    => driver.handler \subseteq held

\* A driver that is gone leaves nothing scheduled that would call it, unless an
\* interrupt came during its load or its removal, or the tasklet of one was waiting
\* when the removal began: the timer is stopped before the interrupt is freed, and
\* nobody kills the tasklet.
QuietUnlessLate == pc = "gone" /\ ~late => ~tasklet /\ ~pending
=============================================================================
