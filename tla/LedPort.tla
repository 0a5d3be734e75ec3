------------------------------- MODULE LedPort --------------------------------
(***************************************************************************)
(* The four drivers that drive the LED on pin PI0 through the registers of *)
(* its port: 02_led, 03_newchrled, 04_dtsled and 17_platform's leddriver.  *)
(* Their loads configure the pin by reading and writing back whole         *)
(* registers, which the other pins of the port are in too, under no lock;  *)
(* the kernel's GPIO code does the same for its pins, under a lock that    *)
(* these drivers do not know of.  Every load also leaves a first level on  *)
(* the pin, and only then finds out whether it can register its device.    *)
(*                                                                         *)
(* The clock register only sets bits, and BSRR is written without regard   *)
(* to what it reads (it reads as 0): one write of either is one step, and  *)
(* no other write is lost.  The missing resources of leddriver are steps   *)
(* of its table in DriverTables.  A call through registers that are no     *)
(* longer mapped does not come back, nor need a write of more bytes than   *)
(* led_write's buffer holds: neither has a step.                           *)
(***************************************************************************)
EXTENDS Naturals, Sequences

CONSTANTS
    Drivers,    \* a subset of {"led", "newchrled", "dtsled", "leddriver"}
    Words,      \* the registers in the order of the loads: MODER, ..., PUPDR
    None,       \* no word
    MaxFiles    \* bound of the model: open files of a driver

ASSUME PortAssumption ==
    /\ Drivers \subseteq {"led", "newchrled", "dtsled", "leddriver"}
    /\ Words \in Seq(STRING) /\ Words # <<>>
    /\ None \notin [led : BOOLEAN, other : BOOLEAN]
    /\ None \notin [word : STRING, val : [led : BOOLEAN, other : BOOLEAN]]
    /\ MaxFiles \in Nat

VARIABLES
    conf,       \* what a register holds: for PI0, and for another pin
    lamp,       \* the LED, which is on while PI0 is low
    pc,         \* where a driver is in its life
    at,         \* the register that its load configures
    val,        \* the word it has read there, or None
    files,      \* open files of a driver
    pin,        \* the GPIO code: the register and the word it has read, or None
    last,       \* history: what has set the LED last
    done,       \* history: the registers that a load has written
    asked,      \* history: what the GPIO code has asked of the other pin
    stale,      \* history: who holds a word that was written since
    raced       \* history: registers in which that lost a write

life == <<pc, at, val, files>>
history == <<done, asked, stale, raced>>
vars == <<conf, lamp, life, pin, last, history>>

Register == {Words[i] : i \in DOMAIN Words}
Level == {"low", "high"}
Word == [led : BOOLEAN, other : BOOLEAN]

\* newchrled and dtsled add a cdev, which can be opened, before they make their
\* class and their node; "fail" is after a failure there.
Life == {"out", "setup", "close", "register", "cdev", "live", "fail", "leave"}

TypeOK ==
    /\ conf \in [Register -> Word]
    /\ lamp \in {"on", "off"}
    /\ pc \in [Drivers -> Life]
    /\ at \in [Drivers -> DOMAIN Words]
    /\ val \in [Drivers -> Word \cup {None}]
    /\ files \in [Drivers -> 0..MaxFiles]
    /\ pin \in [word : Register, val : Word] \cup {None}
    /\ last \in {"nobody", "load", "write"}
    /\ done \in SUBSET Register
    /\ asked \in [Register -> BOOLEAN]
    /\ stale \in SUBSET (Drivers \cup {"gpio"})
    /\ raced \in SUBSET Register

Init ==
    /\ conf = [w \in Register |-> [led |-> FALSE, other |-> FALSE]]
    /\ lamp \in {"on", "off"}
    /\ pc = [d \in Drivers |-> "out"]
    /\ at = [d \in Drivers |-> 1]
    /\ val = [d \in Drivers |-> None]
    /\ files = [d \in Drivers |-> 0]
    /\ pin = None
    /\ last = "nobody"
    /\ done = {}
    /\ asked = [w \in Register |-> FALSE]
    /\ stale = {}
    /\ raced = {}

-----------------------------------------------------------------------------
(* The load.                                                               *)

\* Wrong on purpose: no register is configured.
LoadForgets(d) ==
    /\ pc[d] = "out"
    /\ pc' = [pc EXCEPT ![d] = "close"]
    /\ UNCHANGED <<conf, lamp, at, val, files, pin, last, history>>

\* led_remap and the clock.  A probe runs again when its device comes back, be
\* the files of the last time still open.
Load(d) ==
    /\ pc[d] = "out"
    /\ pc' = [pc EXCEPT ![d] = "setup"]
    /\ at' = [at EXCEPT ![d] = 1]
    /\ UNCHANGED <<conf, lamp, val, files, pin, last, history>>

ReadWord(d) ==
    /\ pc[d] = "setup"
    /\ val[d] = None
    /\ val' = [val EXCEPT ![d] = conf[Words[at[d]]]]
    /\ UNCHANGED <<conf, lamp, pc, at, files, pin, last, history>>

\* Wrong on purpose: the write puts a fixed word there, whatever was read.
WholeWord(v) == [led |-> TRUE, other |-> FALSE]

\* The pin's bits are cleared and set, the others are those that were read.
Configured(v) == [v EXCEPT !.led = TRUE]

WriteWord(d) ==
    LET w == Words[at[d]] IN
    /\ pc[d] = "setup"
    /\ val[d] # None
    /\ conf' = [conf EXCEPT ![w] = Configured(val[d])]
    /\ val' = [val EXCEPT ![d] = None]
    /\ IF at[d] < Len(Words)
       THEN at' = [at EXCEPT ![d] = @ + 1] /\ UNCHANGED pc
       ELSE pc' = [pc EXCEPT ![d] = "close"] /\ UNCHANGED at
    /\ done' = done \cup {w}
    /\ raced' = IF d \in stale THEN raced \cup {w} ELSE raced
    /\ stale' = (stale \ {d}) \cup (IF pin # None /\ pin.word = w THEN {"gpio"} ELSE {})
    /\ UNCHANGED <<lamp, files, pin, last, asked>>

\* "close led" of newchrled and dtsled writes ~(1 << 0): it resets PI0, which turns
\* the LED on.
Inverted == {"newchrled", "dtsled"}

CloseLed(d) ==
    /\ pc[d] = "close"
    /\ pc' = [pc EXCEPT ![d] = "register"]
    /\ lamp' = IF d \in Inverted THEN "on" ELSE "off"
    /\ last' = "load"
    /\ UNCHANGED <<conf, at, val, files, pin, history>>

\* led and leddriver ask for the same major number.
SharesMajor == {"led", "leddriver"}

Taken(d) == d \in SharesMajor /\ \E e \in SharesMajor \cap Drivers : pc[e] \in {"live", "leave"}

OwnCdev == {"newchrled", "dtsled"}

Registered(d) ==
    /\ pc[d] = "register"
    /\ ~Taken(d)
    /\ pc' = [pc EXCEPT ![d] = IF d \in OwnCdev THEN "cdev" ELSE "live"]
    /\ UNCHANGED <<conf, lamp, at, val, files, pin, last, history>>

NodeMade(d) ==
    /\ pc[d] = "cdev"
    /\ pc' = [pc EXCEPT ![d] = "live"]
    /\ UNCHANGED <<conf, lamp, at, val, files, pin, last, history>>

\* class_create or device_create fails: the cdev is deleted.
NodeFails(d) ==
    /\ pc[d] = "cdev"
    /\ pc' = [pc EXCEPT ![d] = "fail"]
    /\ UNCHANGED <<conf, lamp, at, val, files, pin, last, history>>

\* Any registration may fail: the registers are unmapped, the pin and the LED stay
\* as the load has made them.  A module that fails to load is freed whether its
\* device has been opened or not, and a call on such a file has nowhere to go.
RegisterFails(d) ==
    /\ pc[d] \in {"register", "fail"}
    /\ pc' = [pc EXCEPT ![d] = "out"]
    /\ files' = [files EXCEPT ![d] = IF d = "leddriver" THEN @ ELSE 0]
    /\ UNCHANGED <<conf, lamp, at, val, pin, last, history>>

-----------------------------------------------------------------------------
(* The unload: the registers are unmapped, then the device goes.  rmmod    *)
(* fails while a file is open, and none is opened once it runs; the        *)
(* removal of leddriver's device asks for neither.                         *)

Unmap(d) ==
    /\ pc[d] = "live"
    /\ files[d] = 0 \/ d = "leddriver"
    /\ pc' = [pc EXCEPT ![d] = "leave"]
    /\ UNCHANGED <<conf, lamp, at, val, files, pin, last, history>>

Unregister(d) ==
    /\ pc[d] = "leave"
    /\ pc' = [pc EXCEPT ![d] = "out"]
    /\ UNCHANGED <<conf, lamp, at, val, files, pin, last, history>>

-----------------------------------------------------------------------------
(* The users.                                                              *)

Openable(d) == pc[d] \in {"cdev", "live"} \/ (pc[d] = "leave" /\ d = "leddriver")

Open(d) ==
    /\ Openable(d)
    /\ files[d] < MaxFiles
    /\ files' = [files EXCEPT ![d] = @ + 1]
    /\ UNCHANGED <<conf, lamp, pc, at, val, pin, last, history>>

\* led_remap comes before anything else, led_unmap last or, of an unload, first.
Mapped(d) == pc[d] \notin {"out", "leave"}

\* led_switch: 1 resets the pin, 0 sets it, anything else does nothing and has no
\* step.
Switch(sta) == IF sta = 1 THEN "on" ELSE "off"

\* copy_from_user never returns less than 0: a copy that faults goes on with the
\* zeros that it has filled in, which say 0, and the write returns its count.
Write(d, sta, faulted) ==
    /\ files[d] > 0
    /\ Mapped(d)
    /\ lamp' = Switch(IF faulted THEN 0 ELSE sta)
    /\ last' = "write"
    /\ UNCHANGED <<conf, life, pin, history>>

Close(d) ==
    /\ files[d] > 0
    /\ files' = [files EXCEPT ![d] = @ - 1]
    /\ UNCHANGED <<conf, lamp, pc, at, val, pin, last, history>>

-----------------------------------------------------------------------------
(* The GPIO code of the kernel, for the other pin.                         *)

PinRead(w) ==
    /\ pin = None
    /\ pin' = [word |-> w, val |-> conf[w]]
    /\ UNCHANGED <<conf, lamp, life, last, history>>

Holding(w) == {d \in Drivers : val[d] # None /\ Words[at[d]] = w}

PinWrite(v) ==
    /\ pin # None
    /\ conf' = [conf EXCEPT ![pin.word] = [pin.val EXCEPT !.other = v]]
    /\ asked' = [asked EXCEPT ![pin.word] = v]
    /\ raced' = IF "gpio" \in stale THEN raced \cup {pin.word} ELSE raced
    /\ stale' = (stale \ {"gpio"}) \cup Holding(pin.word)
    /\ pin' = None
    /\ UNCHANGED <<lamp, life, last, done>>

-----------------------------------------------------------------------------
Next ==
    \/ \E d \in Drivers :
         \/ Load(d) \/ ReadWord(d) \/ WriteWord(d) \/ CloseLed(d)
         \/ Registered(d) \/ NodeMade(d) \/ NodeFails(d) \/ RegisterFails(d)
         \/ Unmap(d) \/ Unregister(d) \/ Open(d) \/ Close(d)
         \/ \E sta \in {0, 1}, faulted \in BOOLEAN : Write(d, sta, faulted)
    \/ \E w \in Register : PinRead(w)
    \/ \E v \in BOOLEAN : PinWrite(v)

Spec == Init /\ [][Next]_vars

-----------------------------------------------------------------------------
(* Properties.                                                             *)

\* Loads of several drivers at the same time and the GPIO code change the same
\* registers.  A register holds for every pin what was asked for it last, unless a
\* load and the GPIO code had both read it before either wrote it (led.c:187-215);
\* two loads may overlap as they like.
PortAsAsked ==
    \A w \in Register \ raced :
        /\ conf[w].other = asked[w]
        /\ w \in done => conf[w].led

\* Whoever can open a device, be its load not over yet, or has it open, be its load
\* failed or its device gone since, finds the pin configured in every register, with
\* the same exception: no load undoes what another has set up, and none registers
\* before it has configured the pin.
PinReady ==
    \A d \in Drivers :
        Openable(d) \/ files[d] > 0 => \A w \in Register \ raced : conf[w].led

\* newchrled.c:171 and dtsled.c:198, "close led", led.c:209: a load turns the LED
\* off.
LoadClosesLed == last = "load" => lamp = "off"
=============================================================================
