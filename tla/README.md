# A verification project for LearningKernel

The repository is a collection of Linux drivers, written one after the other to
learn a part of the kernel each: most are for an STM32MP157 board
(`src/openedv/linux/stm32mp157/`), the others are plain character devices
(`src/drivers/`). Every driver is a module of its own. This directory has TLA+
models of them, the TLC runs that check the models on small instances, and
proofs, checked by TLAPS, that hold for every instance.

File names below leave out `src/` and `openedv/linux/stm32mp157/`.

## 1. Inventory

### The key drivers: 13_irq, 14_blockio, 15_noblockio, 16_fasync

Each is the one before it with something added.

* State: one global `keydev` with the GPIO, the interrupt, a tasklet, a timer, a
  spinlock and `status` (`KEY_PRESS`, `KEY_RELEASE`, `KEY_NONE`), and a static
  `last_value` in `timer_function`. 14 adds the wait queue `r_wait`, 16 the list
  `async`.
* Operations: `key_interrupt_handler` schedules `key_irq_tasklet`, which arms or
  pushes back the timer (15 ms); `timer_function` samples the pin and stores the
  change in `status`, or `KEY_NONE` when there is none. `kery_read` copies `status`
  to the user and clears it. 14 waits for a status first, 15 only without
  `O_NONBLOCK` and adds `key_poll`, 16 adds `key_fasync`; `timer_function` wakes the
  queue (14..16) and sends SIGIO (16).
* Interaction: interrupt, softirq and the processes of the readers share `keydev`,
  two CPUs at once; only the sample and the copy are under the lock.
* Hard: edges that come at any stage of the pipeline; a timer armed again while its
  function runs; a status that changes between a check and its use; wake-ups and
  signals; unloading with a press under way.
* Correct: no level of the key is forgotten; a sample is of a settled pin; an event
  is read at most once and in order; nobody sleeps through an event; what
  is asked for a SIGIO gets it.

### 12_timer

* State: one global `timerdev` with `timeperiod`, the timer, and the LED's GPIO.
* Operations: `timer_open` (sets the period, requests the GPIO), `CLOSE_CMD`,
  `OPEN_CMD`, `SETPERIOD_CMD`, `led_release`, and `timer_function`, which toggles the
  LED and arms the timer again.
* Hard: a timer that arms itself against calls that stop it; the GPIO as the only
  thing that keeps two processes apart; the shared period.
* Correct: one owner; a stopped timer is quiet; a started one blinks; calls return.

### helloDev

* State: `val` and a semaphore. Operations: read and write of `/dev/hello`, show and
  store of the attribute `val`; copying from and to the user may fault midway, the
  wait for the semaphore may be interrupted.
* Correct: the semaphore is never lost; every read returns one whole value; calls
  return.

### Loading and unloading, in all drivers

* State: regions, cdevs, classes, devices, GPIOs, interrupts, mappings, timers.
* Operations: an init or probe function whose calls may fail, with a ladder of
  `goto` labels; an exit or remove function; meanwhile, files that are opened
  and interrupts that come.
* Correct: what is got is given back, once; a driver is entered only while it is
  set up; nothing is scheduled when it is gone.

### 02_led, 03_newchrled, 04_dtsled, 17_platform

* State: the registers of one GPIO port, mapped by each driver for itself; the LED is
  pin PI0.
* Operations: a load (or probe) maps the registers, configures the pin by reading and writing
  back whole registers, leaves a first level on it and then registers the device; write
  switches the LED; an unload (or remove) unmaps.
* Hard: the same registers are written by other drivers' loads and by the kernel's GPIO code, with
  no lock in common; a load that fails has changed them, and may have been opened before it fails;
  the device of 17_platform goes under its users.
* Correct: no write is lost; the user of a device finds the pin configured;
  the load turns the LED off, as it says.

### globalMem and chrdev

* State: a buffer, and the position of each file.
* Operations: read, write, llseek, and pread and pwrite, which bring a position of their own; the
  clearing of chrdev's buffer by a load that has already registered the device.
* Hard: the kernel hands the driver a copy of the position, and threads that share a file
  overlap; a seek that loads the position three times; faults after some bytes; offsets of 64 bits in variables of 32.
* Correct: no call leaves the buffer; a position is where it was asked to be; calls are whole.

### 21_iic (ap3216c) and 22_spi (icm20608)

* State: the bus client, and the sensor's registers.
* Operations: ioctl (light, proximity, infrared) and attributes of ap3216c; read (seven
  channels) and the attribute `temp` of icm20608; each is one or two transfers that may fail.
* Hard: the sensor measures between two transfers; half of an answer may fail; numbers with a
  sign in variables without.
* Correct: an answer that reports no error was measured while it was asked for; one that could not
  be had is not reported as one.

### 11_key and 20_input

* State: 11_key has a GPIO, per open, and `keyvalue`; 20_input the interrupt, tasklet and timer
  of 13_irq and an input device.
* Operations: open, read (which spins while the key is down) and release of 11_key; 20_input
  reports every sample to the input core.
* Correct: a read of 11_key returns what was found during it; what the input core
  holds is the key's level, or news of it is on its way.

### The rest

| component | state | operations | what makes it correct |
|---|---|---|---|
| 05_gpioled, 19_miscbeep | a GPIO | write | the GPIO is held while it is used |
| 23_multitouch (ft5x06) | a bus client, an input device | an interrupt thread that reports touches | it reports to a device that is there |
| myclass | registers of three LEDs, mapped at open | open, write, release | mappings outlive their users |
| xbus (xbus, xdev, xdrv) | a bus with a device and a driver | match by name | |
| sysfstest | an attribute with a buffer | show, store | |
| hello | none | prints | |
| applications | none | loops over one system call | |

PROJECT.json lists each with what is modelled of it, and the places where these
drivers are hard to test, line by line ("hazards").

## 2. Modules

| module | what it is |
|---|---|
| `KeyDebounce` | the pipeline of the four key drivers: pin, interrupt, tasklet, timer, status |
| `KeyMailbox` | what the key drivers promise to their readers: a mailbox with one slot |
| `KeyStages` | what 13_irq .. 16_fasync promise of the key's level: a change is handed from stage to stage until it is told |
| `KeyIrq` | 13_irq: the pipeline and a read that does not wait; implements `KeyMailbox` and `KeyStages` |
| `KeyNotify` | 14, 15 and 16, by the constant `Variant`: waiting, poll, SIGIO; implements `KeyIrq` |
| `LedTimer` | 12_timer |
| `Register`, `HelloDev` | the atomic register, and helloDev, which implements it |
| `CharFile` | globalMem and chrdev: positions, copies and seeks of threads that share files |
| `LedPort` | 02_led, 03_newchrled, 04_dtsled and 17_platform on one port, with the kernel's GPIO code |
| `DriverTables`, `DriverModule` | the load and unload sequences of 24 modules, and the life that each of them leads |
| `SensorUse` | the users of 21_iic and 22_spi, on top of `DriverModule` |
| `PolledKey` | the users of 11_key, on top of `DriverModule` |
| `InputKey` | what 20_input reports, on top of `DriverModule` |
| `DriverUse` | the life of every driver with all these users |
| `DriverInv` | what a well-formed table is, and the inductive invariants of the life and its users |
| `MC*` | symmetry, and values that a .cfg cannot write |
| `*Proofs` | the theorems |

### How the models correspond to the code

**KeyDebounce.** Each function of the pipeline is one action, because each does one
thing that others can see: `key_interrupt_handler`, `key_irq_tasklet`, and the
critical section of `timer_function` (`TimerSample`). What `timer_function` does before
it (from the timer's expiry to the lock) and after it (wake up, SIGIO) are
values of `timerPc`, so that the tasklet can arm the timer again in between. The
enumeration of `status` is kept by name; `event` and `lastRead` are history variables
that number the changes. The pin (`Edge`), the clock (`Tick`) and the timer core
(`TimerExpire`) are external; a tick is a jiffy, and `Debounce` is the 15 ms. The pin is
taken to be an input that the key drives, which is what `gpio_get_value` presumes. (The
device tree's trigger type may override the two edges that the driver asks for; they are
both edges here.)

**KeyIrq.** `kery_read` is one action: it is one critical section, and either copies and
clears or, on -EFAULT, does neither.

**KeyNotify.** A process has one file. `ReadStart` is `kery_read` up to the wait (or the
test for `O_NONBLOCK`), `WaitCheck` one evaluation of the condition of
`wait_event_interruptible`, `ReadCopy` the critical section. `key_poll` has the step of
`poll_wait`, the test, and the caller's sleep. The kernel's contracts: a process that has
put itself on the queue misses no wake-up (`TimerWake` moves sleepers back to their check); a
pending signal ends a sleep; `fcntl(F_SETFL)` sets `O_NONBLOCK` and calls `key_fasync`
when FASYNC changes; the last close takes the file off the list before `key_release`.

**LedTimer.** `timer_open` and `led_parse` are two steps, as are each `mod_timer` and what
precedes it, `CLOSE_CMD` up to its wait for the timer and what ends the wait (`CloseCmd`,
`CloseCmdDone`), and `led_release` is three: every point at which the timer or another
process can come between is a value of `pc`. `del_timer_sync` waits until `timer_function`
is not running and then disarms, in one step; that is its contract. `Jiffies` is
`msecs_to_jiffies`, in whose eyes a negative `int` is an interval that never ends. A gpio
that cannot be made an output (the return value is only logged) is left out. `led_parse` may fail whoever
has the GPIO: so it does when the device tree lacks a node, or another driver has the pin.

**HelloDev.** `copy_to_user` and `copy_from_user` move a byte a step; a fault ends them at
any byte, and `copy_from_user` then clears the rest, as the kernel's does. The
semaphore hands itself over to the first waiter; `ahead` is the order of the waiters,
as a relation so that processes remain symmetric. `settled` is a history variable: `val`
when its last writer had finished with it. In `Register` a call is made, has its one moment, and
returns; a write that faults leaves the first bytes of its own value, and zeros, and nothing else
(`FailedWrite`), so a call that leaves another mixture is not one of `Register`.

**CharFile.** `vfs_read` and `vfs_write` load the position, hand the driver a pointer to the
copy, and store it afterwards; `ReadStart`/`WriteStart`, the bytes, and `Return` are these
steps, and `llseek` has a start and a return too. A file may be shared, so the calls of
two threads overlap. `PreadStart` and `PwriteStart` bring any position, and `PReturn` stores none.
`Clamp`, `MaxBytes` and `Granted` are the heads of the four functions, `Target` the two llseeks, in
the widths of their types: `unsigned int` and `loff_t` wrap at `UIntMod` and `LoffMod`. The seek from
the position of globalMem is `SeekCheck`, `SeekCheckAgain` and `SeekAdd`, one for each of its loads, and
its store. (Each load and store of a position is taken to be in one piece, which a 32-bit build does
not promise.) What chrdev copies outside its buffer is read as any byte; what it overwrites there
is not modelled. `Source` has the read of chrdev, which copies from the start of
its buffer wherever the position is. A fault ends a copy at any byte; globalMem then
returns an error and leaves the position, chrdev counts what went through. `ClearByte` is
the loop in chrdev's `init_device`, which runs when the device is already there. `asked` and
`vague` are history variables: where the calls that returned have put a position, and which files had
calls that overlapped. Positions count in elements of memory.

**LedPort.** A register is a pair: what it says of PI0 and what it says of one other pin.
`ReadWord` and `WriteWord` are the `readl` and `writel` of one register in a load, `PinRead` and
`PinWrite` those of the kernel's GPIO code, which has a lock of its own. `CloseLed` is the
write to the set and reset register that ends the configuration. `Registered` makes the device: for 02_led
and 17_platform that is all, 03_newchrled and 04_dtsled add a cdev, which can be opened, and only then
make class and node (`NodeMade`), or fail to (`NodeFails`, `RegisterFails`). `Unmap` and `Unregister` are
the two halves of the exit function. A write whose `copy_from_user` faults goes on with the zeros that are in the buffer then,
turns the LED off and returns its count (`Write`). 02_led and
17_platform share a major number, and 17_platform's files survive its remove. `last`, `done`,
`asked`, `stale` and `raced` are history variables. A load may run again after an unload.

**DriverTables, DriverModule.** A table has the calls of one driver that get, set up or
release something, in order, with the ladder that each failing call takes and the
releases of the exit function. Register writes and logging are left out, and so are
calls that only look something up, save where their failure ends the load (`parse`).
`DriverModule` runs one table: each call succeeds, fails (`StepFailed`), or fails without
being noticed (`StepUnnoticed`); files are opened as soon as the node is there, interrupts come as
soon as they are requested, and set off the tasklet and the timer. Where a probe goes on with the device that
`misc_register` did not make (`OnMisc`, ap3216c.c:229 and icm20608.c:258) the step is not taken: it is an access to
memory that is not there, and the probe does not come back. A module
with open files is not unloaded; a device is unbound regardless. What the devm_ calls got
goes after the driver's own releases (`StillManaged`, `UndoManaged`). `ioremap` is taken to
succeed (no driver looks), and `MapAll` is the six of them. A reader of
`DriverTables` can put the table next to the function it models.

**SensorUse.** A user of the file and one of the attributes ask (`Ask`); the light sensor's
answers take two transfers (`ReadLow`, `ReadHigh`), the motion sensor's one (`Burst`), and each
transfer may fail. `Measure` comes at any time. The registers are put together as the drivers do
(`Decode`, `readdata`, `read_temp_data`), with the flags that share a register with the bits of a
value. `Unset` stands for a variable that nothing was stored into. What is asked before the
driver has its client is left out: `EntryReady` names it.

**PolledKey.** `KeyOpens` and `KeyCloses` go with `Open` and `Close` of `DriverModule`: the open
requests the GPIO, so there is one file at a time, which threads may share. A read looks, spins,
stores into `keyvalue` and reads it back: `FindsUp`, `FindsDown`, `FindsLetGo`, `Take`. The spin
cannot be interrupted, and ends when the key is let go.

**InputKey.** `Report` goes with `TimerFires` of `DriverModule`, and an edge waits (`edge`) until
`Interrupt` takes it. The input core keeps the level. Each stage is one step here, where `KeyDebounce`
has an expiry, and a timer function that may run while the tasklet arms the timer again.

**KeyStages.** The stages without the expiry: pin, edge, tasklet, timer, level told. For `KeyDebounce` the level
told is `last_value`, and the timer's stage lasts until `timer_function` has the lock
(`pending <- pending \/ timerPc = "lock"`), so `Tell` may leave it armed.

## 3. Runs

| run | question | bounds |
|---|---|---|
| `key_irq` | does 13_irq keep up with the key and serve an event once? (`EdgeNotForgotten`, `SampleSettled`, `LevelAgreement`, `ImplementsMailbox`) | 4 edges: a press, a release, a bounce of each; an interval of 2 ticks, so that an edge can fall inside it |
| `key_noblockio` | can a reader or poller of 15_noblockio sleep through an event, does the last change wake all of them? (`NoLostWakeup`, `SleeperWoken`) | 2 processes, 2 edges: one may take the event that the other was woken for |
| `key_fasync` | does SIGIO come? Is 16_fasync still 13_irq? (`SigioSent`, `ImplementsKeyIrq`) | 1 process with everything the driver offers |
| `led_timer` | can two processes have the LED, or a stopped timer run? Does a timer that is left alone blink, do calls return? (`OneOwner`, `StoppedIsQuiet`, `Blinks`, `CallsReturn`) | 2 processes; periods that are negative, 0, 1 and 2 |
| `hello` | is a read ever torn, what is left of a write that faults? Is the semaphore lost, does a process wait for ever? (`ImplementsRegister`, `SemaphoreHeld`, `CallsReturn`) | 3 processes: a holder and two in line; 2 bytes, so that a read could be torn, and 2 values to write |
| `char_file` | does a call leave the buffer, is a position where it was asked to be, is a call atomic when nothing writes next to it? (`PositionInside`, `CopyInside`, `PositionAsAsked`, `Whole`) | 2 threads on 1 file, 2 bytes of 2 values; offsets that are negative, at the edge, and past what the types hold (a modulus of 5 for 2^32, of 12 for 2^64); pread and pwrite inside the buffer and past its end |
| `led_port` | is a write to a shared register lost, can a device be opened, or stay open, before its pin is ready? (`PortAsAsked`, `PinReady`) | 2 drivers (one that can be opened while it loads, one that is bound to a device), 2 registers, 1 other pin, 1 file each |
| `driver_life` | is anything kept or released twice, is a driver entered half set up, does an interrupt find what it uses, is anything scheduled in a driver that is gone? (`NothingLeft`, `ReleasedOnce`, `EntryReady`, `HandlersReady`, `QuietUnlessLate`) Do the sensors and the keys answer with what there was? (`AnswersTrue`, `KeyAnswers`, `InputTold`) | all 24 modules, every call failing, 2 open files; 2 measurements whose halves differ, one below zero as a temperature; 2 threads on the polled key |

A driver that is gone stays so: `driver_life` does not check for deadlock.
A process of 14_blockio does what one of 15_noblockio does that never sets `O_NONBLOCK` nor
polls, so `key_noblockio` has its behaviours among its own.

The bounds are small because the properties are about pairs of actors: a third process or
a fifth edge meets the same few states of the pipeline. The proofs below do
away with the bounds for the safety properties.

The properties of `driver_life` name what is known to go wrong (`Kept`, `Again`, `Early`,
`KnownEarly`, `KnownLost`, `late`), and the run shows that there is nothing else:

* the GPIO stays with a key driver whose `gpio_direction_input` fails, the input device with
  20_input when it cannot be registered, the mapped registers with 17_platform when a resource is
  missing, and the kset with sysfstest when it gets no kobject (`Kept`; with the kobject it goes,
  for the kobject is given it without a reference of its own, and its last put drops it);
* the probe of 19_miscbeep runs into its error label when it succeeds and gives the GPIO back,
  and remove gives it back again (`Again`, `KnownLost`);
* 12_timer, helloDev, 21_iic and 22_spi can be opened before they are set up (`Early`), and
  17_platform is unbound under its users (`KnownLost`); a driver that did not notice a failed call, as
  05_gpioled does not for its GPIO, goes on without;
* every driver with an interrupt requests it before its load is done, 13_irq to 16_fasync and 20_input stop
  the timer before they free it and never kill the tasklet: an interrupt outside
  the driver's life (`late`) may run a tasklet that is not set up, or leave the timer of a
  driver that is gone armed. The thread of 23_multitouch outlives its input device on the way out;
* `AnswersTrue` says nothing of a value whose halves are of two measurements, which the drivers cannot
  tell, of a temperature below zero, which comes out 65536 too high, and of a read of 22_spi that brings nothing and
  returns 0 all the same (that is the run `sensor_read`). `KeyAnswers` accepts what an overlapping read has found.

`char_file` and `led_port` have exceptions of the same kind, each named in the comment of its
property: calls on a file that overlap undo each other's move, and a seek of globalMem from the position may
then store a sum that it has not checked, outside the buffer (global_mem.c:158); a pread or pwrite past the end of chrdev
is not bounded (chardev.c:81, 106); globalMem takes an offset of
2^32 + n for n, chrdev a sum past 2^63 for the start of the buffer; chrdev reads from the start of
the buffer always, and a write that comes during its load may be erased; a register that a
load and the GPIO code both hold loses the first write.

### What the repository says and the code does not do

| run | says | does |
|---|---|---|
| `key_blockio_read` | 14_blockio/README.md:8, the read blocks | a read can come back with `KEY_NONE` |
| `led_timer_started` | timerApp.c:23, the command starts the timer | the previous user's close stops it |
| `sensor_read` | icm20608.c:185, a read that fails returns a negative number | it returns 0 |
| `led_port_closed` | newchrled.c:171 and dtsled.c:198, "close led" | the load turns the LED on, and sets the other pins |

Seen while modelling and not worth a run: a failed open of 12_timer resets the period that
another process has set (timer.c:107); `CLOSE_CMD`, which timerApp.c:61 calls turning the LED
off, leaves it as it is; a write to helloDev that faults leaves part of its value and
zeros in the register (`FailedWrite` of `Register`); a bounce that outlasts the debounce
interval makes 13_irq forget an event that nobody has read, which the mailbox permits
(`Erase`); a write to the LED whose buffer cannot be read turns it off and succeeds
(led.c:128-139, where `copy_from_user` is compared with 0 the wrong way round).

## 4. Fairness

* Interrupts, tasklets, expired timers and the clock are weakly fair: hardware and the
  kernel serve them. Edges, opens, reads, commands, signals and timeouts are not
  fair: they need not come.
* A process inside a driver goes on (weak fairness); in user mode it need not.
* The ends of `CLOSE_CMD` and of `led_release` are strongly fair: `del_timer_sync` needs a moment at which
  `timer_function` is not running, and with a period of 0 such moments come and go for ever.
  The function is over in far less than the tick after which it may run again, so the
  loop in `del_timer_sync` finds one.
* helloDev needs only weak fairness: the wait list is served in order.
* Liveness of the key drivers is about the last change of the pin (`LastEdgeUnseen`): a
  press that is let go before its sample leaves no trace, and is not owed to anyone.

## 5. Proofs

TLAPS proves these for every value of the constants, from the named assumptions in the modules
(`Debounce` and `N` positive, `NoProc` no process, `0` a byte, periods integers):

* **KeyDebounceProofs, KeyIrqProofs.** The inductive invariant of the pipeline is the types,
  `UnreadIsFresh`, `EventsAlternate`, `EdgeNotForgotten`, `TimerCoversBounce` and
  `SampleSettled`. `EdgeNotForgotten` is inductive by itself. `SampleSettled` is not: that the pin was quiet
  for the interval when the timer expires follows only from
  `TimerCoversBounce`, which says that the quiet time and the time left cover the interval.
  The refinement of `KeyMailbox` needs that a status has the
  parity of its event (`EventsAlternate`) and has not been read (`UnreadIsFresh`); that of
  `KeyStages` only the types. What each step of the pipeline is to the two (`AsPromised`) is proved once, for all
  four drivers.
* **KeyNotifyProofs.** `NoLostWakeup` with the types is inductive: a status appears only in `TimerReport`,
  which leaves `timerPc` at `"wake"`, and only a process that saw `KEY_NONE` goes to sleep. The
  safety part of each driver implements that of 13_irq. That the pipeline loses nothing (`PipelineSafe`), and
  that each driver is the mailbox and follows the stages whatever its processes do, is also proved
  of each directly (`MailboxRefinement`, `StagesRefinement`).
* **LedTimerProofs.** `OneOwner` is inductive with the types. `StoppedIsQuiet` is inductive with
  both: only the owner starts the timer, and `running` is reset before a release and
  by `CLOSE_CMD`, whose `del_timer_sync` leaves neither callback nor timer.
* **HelloDevProofs.** The semaphore's invariant (who is inside, who is in line, in what order)
  gives mutual exclusion. For the register, more parts: outside a write,
  `val` is `settled`; a reader in the middle of its copy has a prefix of `val`, a writer
  has stored a prefix of its value. A finished copy is then whole, and each step is one of
  `Register` or changes nothing of it.
* **CharFileProofs.** `CopyInside` follows from `CallInside`: what a call loaded
  and clamped fits the buffer, and stays so whatever happens to the position meanwhile, because the copy and
  the store use the loaded one. `Stays` keeps chrdev's positions, which every llseek bounds. Those of globalMem stay
  inside only while calls do not overlap: at a file that is not vague there is at
  most one call, and the position it loaded is the file's (`Lonely`), so that the sum which a seek
  stores is the one that it has checked; one that fits its types has found the position that was
  meant (`Sought`). That gives `PositionInside` and `PositionAsAsked`. `Whole` needs `AloneInv`: while
  a transfer is alone nobody else writes, so that what it has written
  stands in the buffer up to its fault, and what it has read is what the buffer holds; a step of
  another thread that could break this is a write, which ends being alone when it starts.
  From `SizeAssumption`: the buffer is smaller than what `unsigned int` holds, which is at most half of `loff_t`.
* **LedPortProofs.** `PortAsAsked` is not inductive: that a write puts back what the register holds follows
  from `Fresh`, which says that a word that is not stale is what the register holds, of the
  pins that are not its holder's. `Progress` (a load has written the
  registers before the one it is at, and all of them once it can be opened or has been) gives `PinReady`. For
  any of the four drivers, sequence of registers and number of files.
* **DriverProofs.** The theorems about `DriverModule` and all its users, in four parts.

  *The tables.* `WellFormed` (in `DriverInv`) says of a table alone what a review of a `goto` ladder
  looks for: whichever step fails, its ladder and the devm_ list give back all that the
  steps before it got, nothing else, and nothing twice (`GivesBack`, `Apart`); the same of the exit
  function (`Unloads`); what a file, an attribute or a handler uses is got before the node, the
  attribute or the interrupt (`FileReady`, `AttrReady`, `Quiet`) and given back after it (`Ordered`).
  `Kept`, `Again` and `Early` are the exceptions, the same that the properties name.
  `TablesWellFormed` proves it of each of the 24, driver by driver.

  *The life.* From `WellFormed` alone, and so without asking which driver it is, `LifeInv` is
  inductive. The properties are not: that nothing is left when all releases are done follows only if,
  all along, what is held is among what is still to be given back (`HeldInv`, and
  `todo` stays what the ladder said); that nothing is given back twice, if what is to be
  given back is held, with no overlap in what remains (`OwnInv`). `EntryReady` needs that a file is open during a
  load only when what it uses came before the node, and none at an unload (`FileInv`), and that the attribute goes
  before what its functions use (`AttrInv`). `HandlersReady` and `QuietUnlessLate` need that, as long
  as the interrupt or the timer is still to be given back, so is, and later, what the handler uses
  (`HandlerInv`). The result holds for any number of open files; the one assumption on `Drivers` is that
  it names some of the 24 (`DriversAssumption`).

  *The sensors.* `UseInv` keeps, of a request, that the present measurement is one it has
  seen, that its low bits are those of a measurement it has seen (`LowMeasured`), and that what it answers is
  so put together (`True`). The lemmas before it are the arithmetic: masks and shifts give the value's bits
  back, the bytes of a channel its number, and the range of each, from which `UseTypeOK` follows. For any
  set of 16-bit measurements.

  *The keys.* `KeyAnswers` needs that what a thread is about to take out of `keyvalue` was found while its read was
  under way (`KeyInv`): a store adds the value to what every read has seen. `InputTold` needs
  its own statement from the probe on (`InputInv`), for an edge may come before "live".
  For any set of threads on the key.

  The users add to the life and change nothing of it (`UseIsLife`, `AllIsUse`: a behaviour of `SpecAll` is one of
  `SpecUse`, which is one of `Spec`), so that `TogetherSafe` has all the invariants of `driver_life` of
  the whole.

Every safety property that a passing run checks is proved. That the key drivers follow `KeyStages`, and that those of
`KeyNotify` are the mailbox, is proved only, and so are the types of `LedPort`. Only model-checked: what needs fairness
(`LevelAgreement`, `SleeperWoken`, `SigioSent`, `Blinks`, `CallsReturn`, the liveness part of `ImplementsKeyIrq`),
which is out of the prover's reach. That each table is the function's it is named after is neither
checked nor proved: it is read, next to the source.

## 6. Not modelled

* Several threads that share one file of 12_timer; two opens of the same file description
  behave as one process.
* `copy_to_user` under a spinlock may sleep; the kernel's complaint is not a state.
* In 14..16 `gpio_direction_output` is called on the key's pin; whether the key can then
  still drive it is up to the board. The models take the pin as an input.
* The /proc functions of helloDev, which nobody registers.
* The writes of 05_gpioled and 19_miscbeep: each sets a pin that nothing else in the driver looks at.
* The ioctl of globalMem, which clears the memory: it is installed as `compat_ioctl` with the prototype of
  the old `ioctl` entry, so its arguments are not what it takes them for.
* The chip set-up of 21_iic and 22_spi: the registers that it writes are not read by anything here.
* The report of 23_multitouch: when a finger is let go, and whether that is said twice, is the panel's protocol, and
  the slots are the input core's; neither is in the repository.
* The file operations of myclass: every open hands a physical address to `iowrite32` (myclass.c:53) in place of
  the mapping, and does not come back.
* xbus: the match compares two constant names. sysfstest: the attribute formats a string.
* A kernel in which `ioremap` fails.
* A write of more bytes than the buffer of `led_write` holds, and a call through registers that are no longer mapped: neither
  need come back, and what they do to the kernel is not a state here. What is written outside chrdev's buffer likewise.
* After a group that sysfstest could not create it sends an event of the kobject that it has put
  (sysfstest.c:48-50): the load may end there, and its table goes on as if it did not.
* hello, which has no state, and the applications: their calls are among the actions.

## 7. Plan

Done: the key drivers, 12_timer, helloDev, `CharFile`, `LedPort`, the life of every driver and its users,
the stages of the key, and the proofs of their safety properties.

Left, in this order:

1. 12_timer with threads that share one file.
2. The pipeline of `KeyDebounce` composed with `DriverModule`, so that edges during a load and a removal
   meet the fine-grained stages and not one step each.
