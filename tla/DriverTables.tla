----------------------------- MODULE DriverTables -----------------------------
(***************************************************************************)
(* How every driver of the repository loads and unloads: the sequence of   *)
(* calls of its init or probe function, what each gets, the releases that  *)
(* its goto ladder makes when the call fails, and the sequence of releases *)
(* of its exit or remove function.  Only calls that get, release or set up *)
(* something are listed; what a driver writes to its device is left out.   *)
(*                                                                         *)
(* A step of a load is one of                                              *)
(*    Must     a call whose failure ends the load through the ladder;      *)
(*    Ignored  a call whose result the driver does not look at;            *)
(*    Sure     a call without a result, or an assignment;                  *)
(*    Drop     a release;                                                  *)
(*    OnMisc   an assignment to the device that misc_register made, which  *)
(*             does not return if there is none.                           *)
(* A release is a set, for the functions that give back several things at  *)
(* once.                                                                   *)
(***************************************************************************)
EXTENDS Naturals, Sequences

Must(name, gets, undo) == [name |-> name, kind |-> "must", gets |-> gets, undo |-> undo]
Ignored(name)          == [name |-> name, kind |-> "ignored", gets |-> {name}, undo |-> <<>>]
Sure(name)             == [name |-> name, kind |-> "sure", gets |-> {name}, undo |-> <<>>]
Drop(name)             == [name |-> name, kind |-> "drop", gets |-> {name}, undo |-> <<>>]
OnMisc(name)           == [name |-> name, kind |-> "misc", gets |-> {name}, undo |-> <<>>]

\* Wrong on purpose: the label of cdev_add's failure is the next one down.
ChrdevForgetsRegion(base) ==
    << Must("region", {"region"}, base),
       Must("cdev",   {"cdev"},   base),
       Must("class",  {"class"},  << {"cdev"}, {"region"} >> \o base),
       Must("device", {"device"}, << {"class"}, {"cdev"}, {"region"} >> \o base) >>

\* Wrong on purpose: the label of class_create's failure is one too high.
ChrdevUndoesClass(base) ==
    << Must("region", {"region"}, base),
       Must("cdev",   {"cdev"},   << {"region"} >> \o base),
       Must("class",  {"class"},  << {"class"}, {"cdev"}, {"region"} >> \o base),
       Must("device", {"device"}, << {"class"}, {"cdev"}, {"region"} >> \o base) >>

\* The four calls that most drivers share, and their ladder: destroy_class,
\* del_cdev, del_unregister, and the releases that base stands for.
Chrdev(base) ==
    << Must("region", {"region"}, base),
       Must("cdev",   {"cdev"},   << {"region"} >> \o base),
       Must("class",  {"class"},  << {"cdev"}, {"region"} >> \o base),
       Must("device", {"device"}, << {"class"}, {"cdev"}, {"region"} >> \o base) >>

\* ... and the order in which their exit functions give them back.
ChrdevExit == << {"cdev"}, {"region"}, {"device"}, {"class"} >>

\* bus: load and unload are the probe and remove functions of a bus driver, which
\* can be unbound while files are open.  node: while this is held a file can be
\* opened ("none": there are no files).  needs: what the operations on files use.
\* attr: while this is held an attribute in sysfs can be read and written ("none":
\* there is none, or it uses nothing); its removal waits for its users.  shows: what
\* the functions of the attribute use.  handler: what the interrupt handler and all
\* that it sets off use; an interrupt can come while "irq" is held, and schedules
\* the tasklet that arms the timer, unless it has a thread of its own.  managed:
\* what the driver core gives back, in this order, after remove or a failed probe
\* (the devm_ calls).
Driver(load, unload) ==
    [load |-> load, unload |-> unload, bus |-> FALSE, node |-> "cdev", needs |-> {},
     attr |-> "none", shows |-> {}, handler |-> {}, thread |-> FALSE,
     managed |-> <<>>]

-----------------------------------------------------------------------------
(* The LED drivers.  "map" is the six ioremaps of led_remap.               *)

Map == {"rcc", "moder", "otyper", "ospeedr", "pupdr", "bsrr"}

MapAll == [Sure("map") EXCEPT !.gets = Map]

led == [Driver(<< MapAll, Must("chrdev", {"chrdev"}, << Map >>) >>, << Map, {"chrdev"} >>)
        EXCEPT !.node = "chrdev", !.needs = Map]

newchrled == [Driver(<< MapAll >> \o Chrdev(<< Map >>), << Map >> \o ChrdevExit)
              EXCEPT !.needs = Map]

dtsled == [Driver(<< MapAll >> \o Chrdev(<< Map >>), << Map >> \o ChrdevExit)
           EXCEPT !.needs = Map]

gpioled == [Driver(<< Ignored("gpio") >> \o Chrdev(<< {"gpio"} >>), ChrdevExit \o << {"gpio"} >>)
            EXCEPT !.needs = {"gpio"}]

MapOrder == << "rcc", "moder", "otyper", "ospeedr", "pupdr", "bsrr" >>

\* Any resource of the platform device may be missing.
leddriver ==
    [Driver([i \in 1..6 |-> Must(MapOrder[i], {MapOrder[i]}, <<>>)]
                \o << Must("chrdev", {"chrdev"}, << Map >>) >>,
            << Map, {"chrdev"} >>)
     EXCEPT !.bus = TRUE, !.node = "chrdev", !.needs = Map]

\* One class, and three devices of it.
myclass ==
    [Driver(<< Ignored("region"), Ignored("class"),
               Ignored("cdev"), Ignored("device"),
               Ignored("cdev1"), Ignored("device1"),
               Ignored("cdev2"), Ignored("device2") >>,
            << {"device"}, {"cdev"}, {"device1"}, {"cdev1"}, {"device2"}, {"cdev2"},
               {"region"}, {"class"} >>)
     EXCEPT !.node = "cdev"]

-----------------------------------------------------------------------------
(* The key drivers.  key_gpio_init gives the GPIO back when request_irq    *)
(* fails, and keeps it when gpio_direction_input does.                     *)

key == Driver(Chrdev(<<>>), ChrdevExit)

timer == [Driver(Chrdev(<<>>) \o << Sure("timer") >>, << {"timer"} >> \o ChrdevExit)
          EXCEPT !.needs = {"timer"}]

key_gpio_init ==
    << Must("parse",     {},       <<>>),
       Must("gpio",      {"gpio"}, <<>>),
       Must("direction", {},       <<>>),
       Must("irq",       {"irq"},  << {"gpio"} >>) >>

\* Wrong on purpose: mykey_exit forgets the timer.
KeyirqKeepsTimer ==
    [Driver(key_gpio_init \o << Sure("tasklet") >>
                \o Chrdev(<< {"irq"}, {"gpio"} >>) \o << Sure("timer") >>,
            ChrdevExit \o << {"irq"}, {"gpio"} >>)
     EXCEPT !.handler = {"tasklet", "timer", "gpio"}]

keyirq ==
    [Driver(key_gpio_init \o << Sure("tasklet") >>
                \o Chrdev(<< {"irq"}, {"gpio"} >>) \o << Sure("timer") >>,
            << {"timer"} >> \o ChrdevExit \o << {"irq"}, {"gpio"} >>)
     EXCEPT !.handler = {"tasklet", "timer", "gpio"}]

blockio   == keyirq
noblockio == keyirq
fasync    == keyirq

\* Wrong on purpose: the input device goes before the interrupt that reports to it.
KeyinputFreesInputFirst ==
    [Driver(key_gpio_init \o
               << Sure("tasklet"), Sure("timer"),
                  Must("alloc",    {"input"}, << {"irq"}, {"gpio"}, {"timer"} >>),
                  Must("register", {"event"}, << {"irq"}, {"gpio"}, {"timer"} >>) >>,
            << {"timer"}, {"event", "input"}, {"irq"}, {"gpio"} >>)
     EXCEPT !.bus = TRUE, !.node = "event",
            !.handler = {"tasklet", "timer", "gpio", "input"}]

keyinput ==
    [Driver(key_gpio_init \o
               << Sure("tasklet"), Sure("timer"),
                  Must("alloc",    {"input"}, << {"irq"}, {"gpio"}, {"timer"} >>),
                  Must("register", {"event"}, << {"irq"}, {"gpio"}, {"timer"} >>) >>,
            << {"timer"}, {"irq"}, {"gpio"}, {"event", "input"} >>)
     EXCEPT !.bus = TRUE, !.node = "event",
            !.handler = {"tasklet", "timer", "gpio", "input"}]

-----------------------------------------------------------------------------
(* Drivers of other devices.                                               *)

\* The probe has no return between misc_register and the label free_gpio.
miscbeep ==
    [Driver(<< Must("gpio", {"gpio"}, <<>>), Ignored("misc"), Drop("gpio") >>,
            << {"gpio"}, {"misc"} >>)
     EXCEPT !.bus = TRUE, !.node = "misc", !.needs = {"gpio"}]

ap3216c ==
    [Driver(<< Must("init", {}, <<>>), Ignored("misc"), Sure("client"), OnMisc("drvdata") >>,
            << {"misc"} >>)
     EXCEPT !.bus = TRUE, !.node = "misc", !.needs = {"client"},
            !.attr = "misc", !.shows = {"client", "drvdata"}]

icm20608 ==
    [Driver(<< Ignored("misc"), Sure("client"), OnMisc("drvdata") >>, << {"misc"} >>)
     EXCEPT !.bus = TRUE, !.node = "misc", !.needs = {"client"},
            !.attr = "misc", !.shows = {"client", "drvdata"}]

\* What the devm_ calls got goes back last one first: the input device before the
\* interrupt whose handler reports to it.
ft5x06 ==
    [Driver(<< Must("mem",      {"mem"},   <<>>),
               Must("reset",    {"reset"}, <<>>),
               Must("gpio",     {"gpio"},  <<>>),
               Must("irq",      {"irq"},   <<>>),
               Must("alloc",    {"input"}, <<>>),
               Must("slots",    {},        <<>>),
               Must("register", {"event"}, <<>>) >>,
            << {"event"} >>)
     EXCEPT !.bus = TRUE, !.node = "event",
            !.handler = {"mem", "input"}, !.thread = TRUE,
            !.managed = << {"input"}, {"irq"}, {"gpio"}, {"reset"}, {"mem"} >>]

\* Wrong on purpose: the memory goes before the attribute whose functions use it.
HelloDevFreesFirst ==
    [Driver(<< Must("region", {"region"}, <<>>),
               Must("mem",    {"mem"},    << {"region"} >>),
               Must("cdev",   {"cdev"},   << {"mem"}, {"region"} >>),
               Sure("sema"),
               Must("class",  {"class"},  << {"cdev"}, {"mem"}, {"region"} >>),
               Must("device", {"device"}, << {"class"}, {"cdev"}, {"mem"}, {"region"} >>),
               Must("attr",   {"attr"},   << {"device"}, {"class"}, {"cdev"}, {"mem"}, {"region"} >>),
               Sure("drvdata") >>,
            << {"mem"}, {"device", "attr"}, {"class"}, {"cdev"}, {"region"} >>)
     EXCEPT !.needs = {"mem", "sema"}, !.attr = "attr", !.shows = {"mem", "sema", "drvdata"}]

helloDev ==
    [Driver(<< Must("region", {"region"}, <<>>),
               Must("mem",    {"mem"},    << {"region"} >>),
               Must("cdev",   {"cdev"},   << {"mem"}, {"region"} >>),
               Sure("sema"),
               Must("class",  {"class"},  << {"cdev"}, {"mem"}, {"region"} >>),
               Must("device", {"device"}, << {"class"}, {"cdev"}, {"mem"}, {"region"} >>),
               Must("attr",   {"attr"},   << {"device"}, {"class"}, {"cdev"}, {"mem"}, {"region"} >>),
               Sure("drvdata") >>,
            << {"device", "attr"}, {"class"}, {"cdev"}, {"mem"}, {"region"} >>)
     EXCEPT !.needs = {"mem", "sema"}, !.attr = "attr", !.shows = {"mem", "sema", "drvdata"}]

globalmem ==
    [Driver(<< Must("region", {"region"}, <<>>),
               Must("mem",    {"mem"},    << {"region"} >>),
               Ignored("cdev") >>,
            << {"cdev"}, {"mem"}, {"region"} >>)
     EXCEPT !.needs = {"mem"}]

chardev == [Driver(<< Must("chrdev", {"chrdev"}, <<>>) >>, << {"chrdev"} >>)
            EXCEPT !.node = "chrdev"]

\* The kobject is told of its kset with no reference taken, so the last put of the
\* kobject gives back the one that kset_create_and_add took.  (After a group that
\* failed that put is followed by an event of the same kobject: the load may end
\* there.)
sysfstest ==
    [Driver(<< Must("kset",  {"kset"},  <<>>),
               Must("kobj",  {"kobj"},  <<>>),
               Must("group", {"group"}, << {"kobj", "kset"} >>) >>,
            << {"group"}, {"kobj", "kset"} >>)
     EXCEPT !.node = "none"]

xbus == [Driver(<< Ignored("bus"), Ignored("attr") >>, << {"attr"}, {"bus"} >>)
         EXCEPT !.node = "none"]

xdev == [Driver(<< Ignored("device"), Ignored("attr") >>, << {"attr"}, {"device"} >>)
         EXCEPT !.node = "none"]

xdrv == [Driver(<< Ignored("driver"), Ignored("attr") >>, << {"attr"}, {"driver"} >>)
         EXCEPT !.node = "none"]
=============================================================================
