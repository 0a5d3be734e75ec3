---------------------------- MODULE DriverProofs ----------------------------
(***************************************************************************)
(* Theorems about the drivers of DriverTables and their users, for every   *)
(* set of drivers, of measurements and of threads and any bound on the     *)
(* files: first of the tables; then of the life of a driver, which needs   *)
(* of its table only that it is well formed; then of the users of the      *)
(* sensors and of the keys; and then of all together.                      *)
(***************************************************************************)
EXTENDS DriverInv, TLAPS

-----------------------------------------------------------------------------
(* The tables.                                                             *)

LEMMA FallsBack == \A n, d, i, f, q : Falls(n, d, i, f, q) => Ladder(n, d, i)
  BY DEF Falls, Ladder

LEMMA LedFormed == WellFormed("led", led)
<1>. USE DEF led, Driver, Must, MapAll, Map, Sure, Before, Got, Again, Listed, Apart, Kept,
   Settings, Early, Ordered, Doubtful
<1>1. Len(led.load) = 2 /\ DOMAIN led.load = 1..2
  OBVIOUS
<1>2. Shape("led", led)
  BY <1>1 DEF Shape
<1>3. Falls("led", led, 2, "chrdev", << Map >>)
  BY <1>1 DEF Falls, GivesBack
<1>4. Ladder("led", led, 1)
  BY <1>1 DEF Ladder
<1>5. \A i \in DOMAIN led.load : Ladder("led", led, i)
  BY <1>1, <1>3, <1>4, FallsBack
<1>6. Unloads("led", led)
  BY <1>1 DEF Unloads, GivesBack
<1>7. FileReady("led", led)
  BY <1>1 DEF FileReady
<1>8. AttrReady("led", led)
  BY <1>1 DEF AttrReady
<1>9. Quiet("led", led)
  BY <1>1 DEF Quiet
<1>. QED BY <1>2, <1>5, <1>6, <1>7, <1>8, <1>9 DEF WellFormed

LEMMA NewchrledFormed ==
    ASSUME NEW n \in {"newchrled", "dtsled"}
    PROVE  WellFormed(n, newchrled)
<1>. USE DEF newchrled, Driver, Must, Chrdev, ChrdevExit, MapAll, Map, Sure, Before, Got,
   Again, Listed, Apart, Kept, Settings, Early, Ordered, Doubtful
<1>1. Len(newchrled.load) = 5 /\ DOMAIN newchrled.load = 1..5
  OBVIOUS
<1>2. Shape(n, newchrled)
  BY <1>1 DEF Shape
<1>3. Falls(n, newchrled, 2, "region", << Map >>)
  BY <1>1 DEF Falls, GivesBack
<1>4. Falls(n, newchrled, 3, "cdev", << {"region"} >> \o << Map >>)
  BY <1>1 DEF Falls, GivesBack
<1>5. Falls(n, newchrled, 4, "class", << {"cdev"}, {"region"} >> \o << Map >>)
  BY <1>1, SMTT(20) DEF Falls, GivesBack
<1>6. Falls(n, newchrled, 5, "device", << {"class"}, {"cdev"}, {"region"} >> \o << Map >>)
  <2> DEFINE q == << {"class"}, {"cdev"}, {"region"} >> \o << Map >>
  <2>1. newchrled.load[5].name = "device" /\ newchrled.load[5].undo = q
    BY <1>1
  <2>2. Before(newchrled, 5) = Map \cup {"region", "cdev", "class"}
    BY <1>1
  <2>3. q \in Seq(SUBSET Before(newchrled, 5))
    BY <2>2
  <2>4. Before(newchrled, 5) \subseteq Listed(q) \cup Settings
    BY <2>2
  <2>5. Apart(n, q)
    OBVIOUS
  <2>. HIDE DEF newchrled, Driver, Must, Chrdev, MapAll, Map, Before, Listed, Apart, Kept,
     Settings
  <2>. QED BY <2>1, <2>3, <2>4, <2>5 DEF Falls, GivesBack
<1>7. Ladder(n, newchrled, 1)
  BY <1>1, SMTT(20) DEF Ladder
<1>8. \A i \in DOMAIN newchrled.load : Ladder(n, newchrled, i)
  <2>. HIDE DEF newchrled, Driver, Must, Chrdev, ChrdevExit, MapAll, Map, Before, Listed
  <2>. QED BY <1>1, <1>3, <1>4, <1>5, <1>6, <1>7, FallsBack
<1>9. Unloads(n, newchrled)
  <2> DEFINE q == << Map >> \o ChrdevExit
  <2>1. newchrled.unload = q
    BY DEF newchrled, Driver
  <2>2. Before(newchrled, 6) = Map \cup {"region", "cdev", "class", "device"}
    BY <1>1 DEF Before, newchrled, Driver, Must, Chrdev, MapAll, Map, Sure
  <2>3. q \in Seq(SUBSET Before(newchrled, 6))
    BY <2>2 DEF ChrdevExit
  <2>4. Before(newchrled, 6) \subseteq Listed(q) \cup Settings
    BY <2>2 DEF Listed, Settings, ChrdevExit
  <2>5. Apart(n, q)
    BY DEF Apart, ChrdevExit, Map
  <2>. HIDE DEF q, newchrled, Driver, Must, Chrdev, ChrdevExit, MapAll, Map, Before, Listed,
     Apart, Kept, Settings
  <2>. QED BY <1>1, <2>1, <2>3, <2>4, <2>5 DEF Unloads, GivesBack
<1>10. FileReady(n, newchrled)
  BY <1>1 DEF FileReady
<1>11. AttrReady(n, newchrled)
  BY <1>1 DEF AttrReady
<1>12. Quiet(n, newchrled)
  BY <1>1 DEF Quiet
<1>. QED BY <1>2, <1>8, <1>9, <1>10, <1>11, <1>12 DEF WellFormed

LEMMA GpioledFormed == WellFormed("gpioled", gpioled)
<1>. USE DEF gpioled, Driver, Must, Ignored, Chrdev, ChrdevExit, Before, Got, Again, Listed,
   Apart, Kept, Settings, Early, Ordered, Doubtful
<1>1. Len(gpioled.load) = 5 /\ DOMAIN gpioled.load = 1..5
  OBVIOUS
<1>2. Shape("gpioled", gpioled)
  BY <1>1 DEF Shape
<1>3. Falls("gpioled", gpioled, 2, "region", << {"gpio"} >>)
  BY <1>1 DEF Falls, GivesBack
<1>4. Falls("gpioled", gpioled, 3, "cdev", << {"region"} >> \o << {"gpio"} >>)
  BY <1>1 DEF Falls, GivesBack
<1>5. Falls("gpioled", gpioled, 4, "class", << {"cdev"}, {"region"} >> \o << {"gpio"} >>)
  BY <1>1 DEF Falls, GivesBack
<1>6. Falls("gpioled", gpioled, 5, "device",
            << {"class"}, {"cdev"}, {"region"} >> \o << {"gpio"} >>)
  BY <1>1 DEF Falls, GivesBack
<1>7. Ladder("gpioled", gpioled, 1)
  BY <1>1 DEF Ladder
<1>8. \A i \in DOMAIN gpioled.load : Ladder("gpioled", gpioled, i)
  BY <1>1, <1>3, <1>4, <1>5, <1>6, <1>7, FallsBack
<1>9. Unloads("gpioled", gpioled)
  BY <1>1 DEF Unloads, GivesBack
<1>10. FileReady("gpioled", gpioled)
  BY <1>1 DEF FileReady
<1>11. AttrReady("gpioled", gpioled)
  BY <1>1 DEF AttrReady
<1>12. Quiet("gpioled", gpioled)
  BY <1>1 DEF Quiet
<1>. QED BY <1>2, <1>8, <1>9, <1>10, <1>11, <1>12 DEF WellFormed

LEMMA LeddriverFormed == WellFormed("leddriver", leddriver)
<1>. USE DEF leddriver, Driver, Must, MapOrder, Map, Before, Got, Again, Listed, Apart,
   Kept, Settings, Early, Ordered, Doubtful
<1>1. Len(leddriver.load) = 7 /\ DOMAIN leddriver.load = 1..7
  OBVIOUS
<1>2. Shape("leddriver", leddriver)
  BY <1>1 DEF Shape
<1>3. Falls("leddriver", leddriver, 1, "rcc", <<>>)
  BY <1>1 DEF Falls, GivesBack
<1>4. Falls("leddriver", leddriver, 2, "moder", <<>>)
  BY <1>1 DEF Falls, GivesBack
<1>5. Falls("leddriver", leddriver, 3, "otyper", <<>>)
  BY <1>1 DEF Falls, GivesBack
<1>6. Falls("leddriver", leddriver, 4, "ospeedr", <<>>)
  BY <1>1 DEF Falls, GivesBack
<1>7. Falls("leddriver", leddriver, 5, "pupdr", <<>>)
  BY <1>1 DEF Falls, GivesBack
<1>8. Falls("leddriver", leddriver, 6, "bsrr", <<>>)
  BY <1>1 DEF Falls, GivesBack
<1>9. Falls("leddriver", leddriver, 7, "chrdev", << Map >>)
  BY <1>1 DEF Falls, GivesBack
<1>10. \A i \in DOMAIN leddriver.load : Ladder("leddriver", leddriver, i)
  BY <1>1, <1>3, <1>4, <1>5, <1>6, <1>7, <1>8, <1>9, FallsBack
<1>11. Unloads("leddriver", leddriver)
  BY <1>1 DEF Unloads, GivesBack
<1>12. FileReady("leddriver", leddriver)
  BY <1>1 DEF FileReady
<1>13. AttrReady("leddriver", leddriver)
  BY <1>1 DEF AttrReady
<1>14. Quiet("leddriver", leddriver)
  BY <1>1 DEF Quiet
<1>. QED BY <1>2, <1>10, <1>11, <1>12, <1>13, <1>14 DEF WellFormed

LEMMA MyclassFormed == WellFormed("myclass", myclass)
<1>. USE DEF myclass, Driver, Ignored, Before, Got, Again, Listed, Apart, Kept, Settings,
   Early, Ordered, Doubtful
<1>1. Len(myclass.load) = 8 /\ DOMAIN myclass.load = 1..8
  OBVIOUS
<1>2. Shape("myclass", myclass)
  BY <1>1 DEF Shape
<1>3. /\ Ladder("myclass", myclass, 1)
      /\ Ladder("myclass", myclass, 2)
      /\ Ladder("myclass", myclass, 3)
      /\ Ladder("myclass", myclass, 4)
      /\ Ladder("myclass", myclass, 5)
      /\ Ladder("myclass", myclass, 6)
      /\ Ladder("myclass", myclass, 7)
      /\ Ladder("myclass", myclass, 8)
  BY <1>1 DEF Ladder
<1>4. \A i \in DOMAIN myclass.load : Ladder("myclass", myclass, i)
  BY <1>1, <1>3
<1>5. Unloads("myclass", myclass)
  BY <1>1, SMTT(20) DEF Unloads, GivesBack
<1>6. FileReady("myclass", myclass)
  BY <1>1 DEF FileReady
<1>7. AttrReady("myclass", myclass)
  BY <1>1 DEF AttrReady
<1>8. Quiet("myclass", myclass)
  BY <1>1 DEF Quiet
<1>. QED BY <1>2, <1>4, <1>5, <1>6, <1>7, <1>8 DEF WellFormed

LEMMA KeyFormed == WellFormed("key", key)
<1>. USE DEF key, Driver, Must, Chrdev, ChrdevExit, Before, Got, Again, Listed, Apart, Kept,
   Settings, Early, Ordered, Doubtful
<1>1. Len(key.load) = 4 /\ DOMAIN key.load = 1..4
  OBVIOUS
<1>2. Shape("key", key)
  BY <1>1 DEF Shape
<1>3. Falls("key", key, 1, "region", <<>>)
  BY <1>1 DEF Falls, GivesBack
<1>4. Falls("key", key, 2, "cdev", << {"region"} >> \o <<>>)
  BY <1>1 DEF Falls, GivesBack
<1>5. Falls("key", key, 3, "class", << {"cdev"}, {"region"} >> \o <<>>)
  BY <1>1 DEF Falls, GivesBack
<1>6. Falls("key", key, 4, "device", << {"class"}, {"cdev"}, {"region"} >> \o <<>>)
  BY <1>1 DEF Falls, GivesBack
<1>7. \A i \in DOMAIN key.load : Ladder("key", key, i)
  BY <1>1, <1>3, <1>4, <1>5, <1>6, FallsBack
<1>8. Unloads("key", key)
  BY <1>1 DEF Unloads, GivesBack
<1>9. FileReady("key", key)
  BY <1>1 DEF FileReady
<1>10. AttrReady("key", key)
  BY <1>1 DEF AttrReady
<1>11. Quiet("key", key)
  BY <1>1 DEF Quiet
<1>. QED BY <1>2, <1>7, <1>8, <1>9, <1>10, <1>11 DEF WellFormed

LEMMA TimerFormed == WellFormed("timer", timer)
<1>. USE DEF timer, Driver, Must, Sure, Chrdev, ChrdevExit, Before, Got, Again, Listed,
   Apart, Kept, Settings, Early, Ordered, Doubtful
<1>1. Len(timer.load) = 5 /\ DOMAIN timer.load = 1..5
  OBVIOUS
<1>2. Shape("timer", timer)
  BY <1>1 DEF Shape
<1>3. Falls("timer", timer, 1, "region", <<>>)
  BY <1>1 DEF Falls, GivesBack
<1>4. Falls("timer", timer, 2, "cdev", << {"region"} >> \o <<>>)
  BY <1>1 DEF Falls, GivesBack
<1>5. Falls("timer", timer, 3, "class", << {"cdev"}, {"region"} >> \o <<>>)
  BY <1>1 DEF Falls, GivesBack
<1>6. Falls("timer", timer, 4, "device", << {"class"}, {"cdev"}, {"region"} >> \o <<>>)
  BY <1>1 DEF Falls, GivesBack
<1>7. Ladder("timer", timer, 5)
  BY <1>1 DEF Ladder
<1>8. \A i \in DOMAIN timer.load : Ladder("timer", timer, i)
  BY <1>1, <1>3, <1>4, <1>5, <1>6, <1>7, FallsBack
<1>9. Unloads("timer", timer)
  BY <1>1 DEF Unloads, GivesBack
<1>10. FileReady("timer", timer)
  BY <1>1 DEF FileReady
<1>11. AttrReady("timer", timer)
  BY <1>1 DEF AttrReady
<1>12. Quiet("timer", timer)
  BY <1>1 DEF Quiet
<1>. QED BY <1>2, <1>8, <1>9, <1>10, <1>11, <1>12 DEF WellFormed

LEMMA KeyirqFormed ==
    ASSUME NEW n \in {"keyirq", "blockio", "noblockio", "fasync"}
    PROVE  WellFormed(n, keyirq)
<1>. USE DEF keyirq, Driver, Must, Sure, Chrdev, ChrdevExit, key_gpio_init, Before, Got,
   Again, Listed, Apart, Kept, Settings, Early, Ordered
<1>1. Len(keyirq.load) = 10 /\ DOMAIN keyirq.load = 1..10
  OBVIOUS
<1>2. Shape(n, keyirq)
  BY <1>1, SMTT(20) DEF Shape
<1>3. Falls(n, keyirq, 1, "parse", <<>>)
  BY <1>1 DEF Falls, GivesBack
<1>4. Falls(n, keyirq, 2, "gpio", <<>>)
  BY <1>1 DEF Falls, GivesBack
<1>5. Falls(n, keyirq, 3, "direction", <<>>)
  BY <1>1 DEF Falls, GivesBack
<1>6. Falls(n, keyirq, 4, "irq", << {"gpio"} >>)
  BY <1>1 DEF Falls, GivesBack
<1>7. Falls(n, keyirq, 6, "region", << {"irq"}, {"gpio"} >>)
  BY <1>1 DEF Falls, GivesBack
<1>8. Falls(n, keyirq, 7, "cdev", << {"region"} >> \o << {"irq"}, {"gpio"} >>)
  <2>1. keyirq.load[7].name = "cdev"
        /\ keyirq.load[7].undo = << {"region"} >> \o << {"irq"}, {"gpio"} >>
    BY <1>1, SMTT(20)
  <2>2. GivesBack(n, keyirq, 7, "cdev", << {"region"} >> \o << {"irq"}, {"gpio"} >>)
    BY <1>1, SMTT(20) DEF GivesBack
  <2>. QED BY <2>1, <2>2 DEF Falls
<1>9. Falls(n, keyirq, 8, "class", << {"cdev"}, {"region"} >> \o << {"irq"}, {"gpio"} >>)
  BY <1>1, SMTT(20) DEF Falls, GivesBack
<1>10. Falls(n, keyirq, 9, "device", << {"class"}, {"cdev"}, {"region"} >> \o << {"irq"},
   {"gpio"} >>)
  BY <1>1, SMTT(20) DEF Falls, GivesBack
<1>11. Ladder(n, keyirq, 5) /\ Ladder(n, keyirq, 10)
  BY <1>1 DEF Ladder
<1>12. \A i \in DOMAIN keyirq.load : Ladder(n, keyirq, i)
  <2>. HIDE DEF keyirq, Driver, Must, Sure, Chrdev, ChrdevExit, key_gpio_init, Before, Got, Listed,
     Apart, Kept, Settings
  <2>. QED BY <1>1, <1>3, <1>4, <1>5, <1>6, <1>7, <1>8, <1>9, <1>10, <1>11, FallsBack
<1>13. Unloads(n, keyirq)
  <2> DEFINE q == << {"timer"} >> \o ChrdevExit \o << {"irq"}, {"gpio"} >>
  <2>1. keyirq.unload = q
    BY DEF keyirq, Driver
  <2>2. Before(keyirq, 11) = {"gpio", "irq", "tasklet", "region", "cdev", "class", "device",
     "timer"}
    BY <1>1 DEF Before, keyirq, Driver, Must, Sure, Chrdev, key_gpio_init
  <2>3. q \in Seq(SUBSET Before(keyirq, 11))
    BY <2>2 DEF ChrdevExit
  <2>4. Before(keyirq, 11) \subseteq Listed(q) \cup Settings
    BY <2>2 DEF Listed, Settings, ChrdevExit
  <2>5. Apart(n, q)
    BY DEF Apart, ChrdevExit
  <2>. HIDE DEF q, keyirq, Driver, Must, Sure, Chrdev, ChrdevExit, key_gpio_init, Before,
     Got, Listed, Apart, Kept, Settings
  <2>. QED BY <1>1, <2>1, <2>3, <2>4, <2>5 DEF Unloads, GivesBack
<1>14. FileReady(n, keyirq)
  BY <1>1 DEF FileReady
<1>15. AttrReady(n, keyirq)
  BY <1>1, SMTT(20) DEF AttrReady
<1>16. Quiet(n, keyirq)
  <2> DEFINE q == << {"timer"} >> \o ChrdevExit \o << {"irq"}, {"gpio"} >>
             used == {"tasklet", "timer", "gpio"}
  <2>1. keyirq.unload = q /\ keyirq.handler = used
    BY DEF keyirq, Driver
  <2>2. used \subseteq Got(keyirq)
    BY <1>1 DEF Got, Before, keyirq, Driver, Must, Sure, Chrdev, key_gpio_init
  <2>3. Doubtful(keyirq) = {} /\ Again(n) = {}
    BY <1>1 DEF Doubtful, Again, keyirq, Driver, Must, Sure, Chrdev, key_gpio_init
  <2>4. Ordered(q, "timer", used)
    BY DEF Ordered, ChrdevExit
  <2>5. Ordered(q, "irq", used)
    <3>1. 6 \in DOMAIN q /\ "irq" \in q[6]
      BY DEF ChrdevExit
    <3>2. \A k \in 1..6 - 1 : q[k] \cap used \subseteq Settings
      BY DEF Settings, ChrdevExit
    <3>. QED BY <3>1, <3>2 DEF Ordered
  <2>. HIDE DEF q, used, Ordered, Early, Again, keyirq, Driver, Must, Sure, Chrdev, ChrdevExit,
     key_gpio_init, Before, Got, Listed, Apart, Kept, Settings
  <2>. QED BY <2>1, <2>2, <2>3, <2>4, <2>5 DEF Quiet
<1>. QED BY <1>2, <1>12, <1>13, <1>14, <1>15, <1>16 DEF WellFormed

LEMMA KeyinputFormed == WellFormed("keyinput", keyinput)
<1>. USE DEF keyinput, Driver, Must, Sure, key_gpio_init, Before, Got, Again, Listed, Apart,
   Kept, Settings, Early, Ordered, Doubtful
<1>1. Len(keyinput.load) = 8 /\ DOMAIN keyinput.load = 1..8
  OBVIOUS
<1>2. Shape("keyinput", keyinput)
  BY <1>1 DEF Shape
<1>3. Falls("keyinput", keyinput, 1, "parse", <<>>)
  BY <1>1 DEF Falls, GivesBack
<1>4. Falls("keyinput", keyinput, 2, "gpio", <<>>)
  BY <1>1 DEF Falls, GivesBack
<1>5. Falls("keyinput", keyinput, 3, "direction", <<>>)
  BY <1>1 DEF Falls, GivesBack
<1>6. Falls("keyinput", keyinput, 4, "irq", << {"gpio"} >>)
  BY <1>1 DEF Falls, GivesBack
<1>7. Falls("keyinput", keyinput, 7, "alloc", << {"irq"}, {"gpio"}, {"timer"} >>)
  BY <1>1 DEF Falls, GivesBack
<1>8. Falls("keyinput", keyinput, 8, "register", << {"irq"}, {"gpio"}, {"timer"} >>)
  BY <1>1 DEF Falls, GivesBack
<1>9. Ladder("keyinput", keyinput, 5) /\ Ladder("keyinput", keyinput, 6)
  BY <1>1 DEF Ladder
<1>10. \A i \in DOMAIN keyinput.load : Ladder("keyinput", keyinput, i)
  BY <1>1, <1>3, <1>4, <1>5, <1>6, <1>7, <1>8, <1>9, FallsBack
<1>11. Unloads("keyinput", keyinput)
  BY <1>1 DEF Unloads, GivesBack
<1>12. FileReady("keyinput", keyinput)
  BY <1>1 DEF FileReady
<1>13. AttrReady("keyinput", keyinput)
  BY <1>1, SMTT(20) DEF AttrReady
<1>14. Quiet("keyinput", keyinput)
  BY <1>1, SMTT(20) DEF Quiet
<1>. QED BY <1>2, <1>10, <1>11, <1>12, <1>13, <1>14 DEF WellFormed

LEMMA MiscbeepFormed == WellFormed("miscbeep", miscbeep)
<1>. USE DEF miscbeep, Driver, Must, Ignored, Drop, Before, Got, Again, Listed, Apart, Kept,
   Settings, Early, Ordered, Doubtful
<1>1. Len(miscbeep.load) = 3 /\ DOMAIN miscbeep.load = 1..3
  OBVIOUS
<1>2. Shape("miscbeep", miscbeep)
  BY <1>1 DEF Shape
<1>3. Falls("miscbeep", miscbeep, 1, "gpio", <<>>)
  BY <1>1 DEF Falls, GivesBack
<1>4. Ladder("miscbeep", miscbeep, 2) /\ Ladder("miscbeep", miscbeep, 3)
  BY <1>1 DEF Ladder
<1>5. \A i \in DOMAIN miscbeep.load : Ladder("miscbeep", miscbeep, i)
  BY <1>1, <1>3, <1>4, FallsBack
<1>6. Unloads("miscbeep", miscbeep)
  BY <1>1 DEF Unloads, GivesBack
<1>7. FileReady("miscbeep", miscbeep)
  BY <1>1 DEF FileReady
<1>8. AttrReady("miscbeep", miscbeep)
  BY <1>1 DEF AttrReady
<1>9. Quiet("miscbeep", miscbeep)
  BY <1>1 DEF Quiet
<1>. QED BY <1>2, <1>5, <1>6, <1>7, <1>8, <1>9 DEF WellFormed

LEMMA Ap3216cFormed == WellFormed("ap3216c", ap3216c)
<1>. USE DEF ap3216c, Driver, Must, Ignored, Sure, OnMisc, Before, Got, Again, Listed, Apart, Kept,
   Settings, Early, Ordered, Doubtful
<1>1. Len(ap3216c.load) = 4 /\ DOMAIN ap3216c.load = 1..4
  OBVIOUS
<1>2. Shape("ap3216c", ap3216c)
  BY <1>1 DEF Shape
<1>3. Falls("ap3216c", ap3216c, 1, "init", <<>>)
  BY <1>1 DEF Falls, GivesBack
<1>4. /\ Ladder("ap3216c", ap3216c, 2)
      /\ Ladder("ap3216c", ap3216c, 3)
      /\ Ladder("ap3216c", ap3216c, 4)
  BY <1>1 DEF Ladder
<1>5. \A i \in DOMAIN ap3216c.load : Ladder("ap3216c", ap3216c, i)
  BY <1>1, <1>3, <1>4, FallsBack
<1>6. Unloads("ap3216c", ap3216c)
  BY <1>1 DEF Unloads, GivesBack
<1>7. FileReady("ap3216c", ap3216c)
  BY <1>1 DEF FileReady
<1>8. AttrReady("ap3216c", ap3216c)
  BY <1>1 DEF AttrReady
<1>9. Quiet("ap3216c", ap3216c)
  BY <1>1 DEF Quiet
<1>. QED BY <1>2, <1>5, <1>6, <1>7, <1>8, <1>9 DEF WellFormed

LEMMA Icm20608Formed == WellFormed("icm20608", icm20608)
<1>. USE DEF icm20608, Driver, Ignored, Sure, OnMisc, Before, Got, Again, Listed, Apart, Kept,
   Settings, Early, Ordered, Doubtful
<1>1. Len(icm20608.load) = 3 /\ DOMAIN icm20608.load = 1..3
  OBVIOUS
<1>2. Shape("icm20608", icm20608)
  BY <1>1 DEF Shape
<1>3. /\ Ladder("icm20608", icm20608, 1)
      /\ Ladder("icm20608", icm20608, 2)
      /\ Ladder("icm20608", icm20608, 3)
  BY <1>1 DEF Ladder
<1>4. \A i \in DOMAIN icm20608.load : Ladder("icm20608", icm20608, i)
  BY <1>1, <1>3
<1>5. Unloads("icm20608", icm20608)
  BY <1>1 DEF Unloads, GivesBack
<1>6. FileReady("icm20608", icm20608)
  BY <1>1 DEF FileReady
<1>7. AttrReady("icm20608", icm20608)
  BY <1>1 DEF AttrReady
<1>8. Quiet("icm20608", icm20608)
  BY <1>1 DEF Quiet
<1>. QED BY <1>2, <1>4, <1>5, <1>6, <1>7, <1>8 DEF WellFormed

LEMMA Ft5x06Formed == WellFormed("ft5x06", ft5x06)
<1>. USE DEF ft5x06, Driver, Must, Before, Listed, Apart, Kept, Again, Settings, Got, Early,
   Ordered, Doubtful
<1>1. Len(ft5x06.load) = 7 /\ DOMAIN ft5x06.load = 1..7
  OBVIOUS
<1>2. Shape("ft5x06", ft5x06)
  <2> DEFINE q == << {"input"}, {"irq"}, {"gpio"}, {"reset"}, {"mem"} >>
             got == {"mem", "reset", "gpio", "irq", "input", "event"}
  <2>1. Got(ft5x06) = got
    BY <1>1
  <2>2. ft5x06.managed = q
    OBVIOUS
  <2>3. \A k \in DOMAIN q : \E x \in got : q[k] = {x}
    OBVIOUS
  <2>4. \A k \in DOMAIN ft5x06.managed : \E x \in Got(ft5x06) : ft5x06.managed[k] = {x}
    <3>. HIDE DEF q, got, Got, ft5x06
    <3>. QED BY <2>1, <2>2, <2>3
  <2>. QED BY <1>1, <2>4 DEF Shape
<1>3. Falls("ft5x06", ft5x06, 1, "mem", <<>>)
  BY <1>1 DEF Falls, GivesBack
<1>4. Falls("ft5x06", ft5x06, 2, "reset", <<>>)
  BY <1>1 DEF Falls, GivesBack
<1>5. Falls("ft5x06", ft5x06, 3, "gpio", <<>>)
  BY <1>1 DEF Falls, GivesBack
<1>6. Falls("ft5x06", ft5x06, 4, "irq", <<>>)
  BY <1>1 DEF Falls, GivesBack
<1>7. Falls("ft5x06", ft5x06, 5, "alloc", <<>>)
  BY <1>1 DEF Falls, GivesBack
<1>8. Falls("ft5x06", ft5x06, 6, "slots", <<>>)
  BY <1>1 DEF Falls, GivesBack
<1>9. Falls("ft5x06", ft5x06, 7, "register", <<>>)
  BY <1>1 DEF Falls, GivesBack
<1>10. \A i \in DOMAIN ft5x06.load : Ladder("ft5x06", ft5x06, i)
  BY <1>1, <1>3, <1>4, <1>5, <1>6, <1>7, <1>8, <1>9, FallsBack
<1>11. Unloads("ft5x06", ft5x06)
  BY <1>1 DEF Unloads, GivesBack
<1>12. FileReady("ft5x06", ft5x06)
  BY <1>1 DEF FileReady
<1>13. AttrReady("ft5x06", ft5x06)
  BY <1>1 DEF AttrReady
<1>14. Quiet("ft5x06", ft5x06)
  BY <1>1 DEF Quiet
<1>. QED BY <1>2, <1>10, <1>11, <1>12, <1>13, <1>14 DEF WellFormed

LEMMA HelloDevFormed == WellFormed("helloDev", helloDev)
<1>. USE DEF helloDev, Driver, Must, Sure, Before, Got, Again, Listed, Apart, Kept,
   Settings, Early, Ordered, Doubtful
<1>1. Len(helloDev.load) = 8 /\ DOMAIN helloDev.load = 1..8
  OBVIOUS
<1>2. Shape("helloDev", helloDev)
  BY <1>1 DEF Shape
<1>3. Falls("helloDev", helloDev, 1, "region", <<>>)
  BY <1>1 DEF Falls, GivesBack
<1>4. Falls("helloDev", helloDev, 2, "mem", << {"region"} >>)
  BY <1>1 DEF Falls, GivesBack
<1>5. Falls("helloDev", helloDev, 3, "cdev", << {"mem"}, {"region"} >>)
  BY <1>1 DEF Falls, GivesBack
<1>6. Falls("helloDev", helloDev, 5, "class", << {"cdev"}, {"mem"}, {"region"} >>)
  BY <1>1 DEF Falls, GivesBack
<1>7. Falls("helloDev", helloDev, 6, "device", << {"class"}, {"cdev"}, {"mem"}, {"region"} >>)
  BY <1>1 DEF Falls, GivesBack
<1>8. Falls("helloDev", helloDev, 7, "attr", << {"device"}, {"class"}, {"cdev"}, {"mem"},
   {"region"} >>)
  BY <1>1, SMTT(20) DEF Falls, GivesBack
<1>9. Ladder("helloDev", helloDev, 4) /\ Ladder("helloDev", helloDev, 8)
  BY <1>1 DEF Ladder
<1>10. \A i \in DOMAIN helloDev.load : Ladder("helloDev", helloDev, i)
  BY <1>1, <1>3, <1>4, <1>5, <1>6, <1>7, <1>8, <1>9, FallsBack
<1>11. Unloads("helloDev", helloDev)
  <2> DEFINE q == << {"device", "attr"}, {"class"}, {"cdev"}, {"mem"}, {"region"} >>
  <2>1. helloDev.unload = q
    BY DEF helloDev, Driver
  <2>2. Before(helloDev, 9) = {"region", "mem", "cdev", "sema", "class", "device", "attr",
     "drvdata"}
    BY <1>1 DEF Before, helloDev, Driver, Must, Sure
  <2>3. q \in Seq(SUBSET Before(helloDev, 9))
    BY <2>2
  <2>4. Before(helloDev, 9) \subseteq Listed(q) \cup Settings
    BY <2>2 DEF Listed, Settings
  <2>5. Apart("helloDev", q)
    BY DEF Apart
  <2>. HIDE DEF q, helloDev, Driver, Must, Sure, Before, Listed, Apart, Kept, Settings
  <2>. QED BY <1>1, <2>1, <2>3, <2>4, <2>5 DEF Unloads, GivesBack
<1>12. FileReady("helloDev", helloDev)
  BY <1>1 DEF FileReady
<1>13. AttrReady("helloDev", helloDev)
  BY <1>1 DEF AttrReady
<1>14. Quiet("helloDev", helloDev)
  BY <1>1 DEF Quiet
<1>. QED BY <1>2, <1>10, <1>11, <1>12, <1>13, <1>14 DEF WellFormed

LEMMA GlobalmemFormed == WellFormed("globalmem", globalmem)
<1>. USE DEF globalmem, Driver, Must, Ignored, Before, Got, Again, Listed, Apart, Kept,
   Settings, Early, Ordered, Doubtful
<1>1. Len(globalmem.load) = 3 /\ DOMAIN globalmem.load = 1..3
  OBVIOUS
<1>2. Shape("globalmem", globalmem)
  BY <1>1 DEF Shape
<1>3. Falls("globalmem", globalmem, 1, "region", <<>>)
  BY <1>1 DEF Falls, GivesBack
<1>4. Falls("globalmem", globalmem, 2, "mem", << {"region"} >>)
  BY <1>1 DEF Falls, GivesBack
<1>5. Ladder("globalmem", globalmem, 3)
  BY <1>1 DEF Ladder
<1>6. \A i \in DOMAIN globalmem.load : Ladder("globalmem", globalmem, i)
  BY <1>1, <1>3, <1>4, <1>5, FallsBack
<1>7. Unloads("globalmem", globalmem)
  BY <1>1 DEF Unloads, GivesBack
<1>8. FileReady("globalmem", globalmem)
  BY <1>1 DEF FileReady
<1>9. AttrReady("globalmem", globalmem)
  BY <1>1 DEF AttrReady
<1>10. Quiet("globalmem", globalmem)
  BY <1>1 DEF Quiet
<1>. QED BY <1>2, <1>6, <1>7, <1>8, <1>9, <1>10 DEF WellFormed

LEMMA ChardevFormed == WellFormed("chardev", chardev)
<1>. USE DEF chardev, Driver, Must, Before, Got, Again, Listed, Apart, Kept, Settings,
   Early, Ordered, Doubtful
<1>1. Len(chardev.load) = 1 /\ DOMAIN chardev.load = 1..1
  OBVIOUS
<1>2. Shape("chardev", chardev)
  BY <1>1 DEF Shape
<1>3. Falls("chardev", chardev, 1, "chrdev", <<>>)
  BY <1>1 DEF Falls, GivesBack
<1>4. \A i \in DOMAIN chardev.load : Ladder("chardev", chardev, i)
  BY <1>1, <1>3, FallsBack
<1>5. Unloads("chardev", chardev)
  BY <1>1 DEF Unloads, GivesBack
<1>6. FileReady("chardev", chardev)
  BY <1>1 DEF FileReady
<1>7. AttrReady("chardev", chardev)
  BY <1>1 DEF AttrReady
<1>8. Quiet("chardev", chardev)
  BY <1>1 DEF Quiet
<1>. QED BY <1>2, <1>4, <1>5, <1>6, <1>7, <1>8 DEF WellFormed

LEMMA SysfstestFormed == WellFormed("sysfstest", sysfstest)
<1>. USE DEF sysfstest, Driver, Must, Before, Got, Again, Listed, Apart, Kept, Settings,
   Early, Ordered, Doubtful
<1>1. Len(sysfstest.load) = 3 /\ DOMAIN sysfstest.load = 1..3
  OBVIOUS
<1>2. Shape("sysfstest", sysfstest)
  BY <1>1 DEF Shape
<1>3. Falls("sysfstest", sysfstest, 1, "kset", <<>>)
  BY <1>1 DEF Falls, GivesBack
<1>4. Falls("sysfstest", sysfstest, 2, "kobj", <<>>)
  BY <1>1 DEF Falls, GivesBack
<1>5. Falls("sysfstest", sysfstest, 3, "group", << {"kobj", "kset"} >>)
  BY <1>1 DEF Falls, GivesBack
<1>6. \A i \in DOMAIN sysfstest.load : Ladder("sysfstest", sysfstest, i)
  BY <1>1, <1>3, <1>4, <1>5, FallsBack
<1>7. Unloads("sysfstest", sysfstest)
  BY <1>1 DEF Unloads, GivesBack
<1>8. FileReady("sysfstest", sysfstest)
  BY <1>1 DEF FileReady
<1>9. AttrReady("sysfstest", sysfstest)
  BY <1>1 DEF AttrReady
<1>10. Quiet("sysfstest", sysfstest)
  BY <1>1 DEF Quiet
<1>. QED BY <1>2, <1>6, <1>7, <1>8, <1>9, <1>10 DEF WellFormed

LEMMA XbusFormed == WellFormed("xbus", xbus)
<1>. USE DEF xbus, Driver, Ignored, Before, Got, Again, Listed, Apart, Kept, Settings,
   Early, Ordered, Doubtful
<1>1. Len(xbus.load) = 2 /\ DOMAIN xbus.load = 1..2
  OBVIOUS
<1>2. Shape("xbus", xbus)
  BY <1>1 DEF Shape
<1>3. Ladder("xbus", xbus, 1) /\ Ladder("xbus", xbus, 2)
  BY <1>1 DEF Ladder
<1>4. \A i \in DOMAIN xbus.load : Ladder("xbus", xbus, i)
  BY <1>1, <1>3
<1>5. Unloads("xbus", xbus)
  BY <1>1 DEF Unloads, GivesBack
<1>6. FileReady("xbus", xbus)
  BY <1>1 DEF FileReady
<1>7. AttrReady("xbus", xbus)
  BY <1>1 DEF AttrReady
<1>8. Quiet("xbus", xbus)
  BY <1>1 DEF Quiet
<1>. QED BY <1>2, <1>4, <1>5, <1>6, <1>7, <1>8 DEF WellFormed

LEMMA XdevFormed == WellFormed("xdev", xdev)
<1>. USE DEF xdev, Driver, Ignored, Before, Got, Again, Listed, Apart, Kept, Settings,
   Early, Ordered, Doubtful
<1>1. Len(xdev.load) = 2 /\ DOMAIN xdev.load = 1..2
  OBVIOUS
<1>2. Shape("xdev", xdev)
  BY <1>1 DEF Shape
<1>3. Ladder("xdev", xdev, 1) /\ Ladder("xdev", xdev, 2)
  BY <1>1 DEF Ladder
<1>4. \A i \in DOMAIN xdev.load : Ladder("xdev", xdev, i)
  BY <1>1, <1>3
<1>5. Unloads("xdev", xdev)
  BY <1>1 DEF Unloads, GivesBack
<1>6. FileReady("xdev", xdev)
  BY <1>1 DEF FileReady
<1>7. AttrReady("xdev", xdev)
  BY <1>1 DEF AttrReady
<1>8. Quiet("xdev", xdev)
  BY <1>1 DEF Quiet
<1>. QED BY <1>2, <1>4, <1>5, <1>6, <1>7, <1>8 DEF WellFormed

LEMMA XdrvFormed == WellFormed("xdrv", xdrv)
<1>. USE DEF xdrv, Driver, Ignored, Before, Got, Again, Listed, Apart, Kept, Settings,
   Early, Ordered, Doubtful
<1>1. Len(xdrv.load) = 2 /\ DOMAIN xdrv.load = 1..2
  OBVIOUS
<1>2. Shape("xdrv", xdrv)
  BY <1>1 DEF Shape
<1>3. Ladder("xdrv", xdrv, 1) /\ Ladder("xdrv", xdrv, 2)
  BY <1>1 DEF Ladder
<1>4. \A i \in DOMAIN xdrv.load : Ladder("xdrv", xdrv, i)
  BY <1>1, <1>3
<1>5. Unloads("xdrv", xdrv)
  BY <1>1 DEF Unloads, GivesBack
<1>6. FileReady("xdrv", xdrv)
  BY <1>1 DEF FileReady
<1>7. AttrReady("xdrv", xdrv)
  BY <1>1 DEF AttrReady
<1>8. Quiet("xdrv", xdrv)
  BY <1>1 DEF Quiet
<1>. QED BY <1>2, <1>4, <1>5, <1>6, <1>7, <1>8 DEF WellFormed

\* Every table is well formed: whichever step of a load fails, its ladder gives back
\* what the steps before it got (what Kept lists apart), that only, and once; so does
\* the exit function; files, attributes, interrupts and timers come after what their
\* functions use, and go before it.
THEOREM TablesWellFormed == \A n \in Drivers : WellFormed(n, Table(n))
<1>1. dtsled = newchrled
  BY DEF dtsled, newchrled
<1>2. blockio = keyirq /\ noblockio = keyirq /\ fasync = keyirq
  BY DEF blockio, noblockio, fasync
<1>. QED
  BY <1>1, <1>2, DriversAssumption, LedFormed, NewchrledFormed, GpioledFormed, LeddriverFormed,
     MyclassFormed, KeyFormed, TimerFormed, KeyirqFormed, KeyinputFormed, MiscbeepFormed,
     Ap3216cFormed, Icm20608Formed, Ft5x06Formed, HelloDevFormed, GlobalmemFormed,
     ChardevFormed, SysfstestFormed, XbusFormed, XdevFormed, XdrvFormed
  DEF Table

LEMMA Formed == name \in Drivers => WellFormed(name, driver)
  BY TablesWellFormed DEF driver

-----------------------------------------------------------------------------
(* Lemmas about releases.                                                  *)

LEMMA BeforeNext ==
    ASSUME NEW d, NEW i \in Nat \ {0}
    PROVE  Before(d, i + 1) = Before(d, i) \cup d.load[i].gets
  BY DEF Before

LEMMA BeforeGrows ==
    ASSUME NEW d, NEW i \in Int, NEW j \in Int, i <= j
    PROVE  Before(d, i) \subseteq Before(d, j)
  BY DEF Before

LEMMA Popped ==
    ASSUME NEW S, NEW q \in Seq(SUBSET S), q # <<>>
    PROVE  /\ Tail(q) \in Seq(SUBSET S)
           /\ Head(q) \subseteq S
           /\ Listed(q) = Head(q) \cup Listed(Tail(q))
<1>1. /\ Len(q) \in Nat /\ Len(q) > 0
      /\ DOMAIN q = 1..Len(q)
      /\ Head(q) = q[1]
      /\ Tail(q) \in Seq(SUBSET S)
      /\ DOMAIN Tail(q) = 1..Len(q) - 1
      /\ \A k \in 1..Len(q) - 1 : Tail(q)[k] = q[k + 1]
  OBVIOUS
<1>2. ASSUME NEW x, x \in Listed(q) PROVE x \in Head(q) \cup Listed(Tail(q))
  <2>1. PICK k \in 1..Len(q) : x \in q[k]
    BY <1>1, <1>2 DEF Listed
  <2>2. CASE k = 1
    BY <1>1, <2>1, <2>2
  <2>3. CASE k # 1
    <3>1. k - 1 \in 1..Len(q) - 1 /\ (k - 1) + 1 = k
      BY <1>1, <2>3
    <3>2. x \in Tail(q)[k - 1]
      BY <1>1, <2>1, <3>1
    <3>. QED BY <1>1, <3>1, <3>2 DEF Listed
  <2>. QED BY <2>2, <2>3
<1>3. ASSUME NEW x, x \in Listed(Tail(q)) PROVE x \in Listed(q)
  <2>1. PICK k \in 1..Len(q) - 1 : x \in Tail(q)[k]
    BY <1>1, <1>3 DEF Listed
  <2>2. k + 1 \in 1..Len(q) /\ x \in q[k + 1]
    BY <1>1, <2>1
  <2>. QED BY <1>1, <2>2 DEF Listed
<1>4. Head(q) \subseteq Listed(q) /\ Head(q) \in SUBSET S
  BY <1>1 DEF Listed
<1>. QED BY <1>1, <1>2, <1>3, <1>4

LEMMA PoppedApart ==
    ASSUME NEW S, NEW q \in Seq(SUBSET S), q # <<>>, NEW n, Apart(n, q)
    PROVE  /\ Apart(n, Tail(q))
           /\ Head(q) \cap Listed(Tail(q)) \subseteq Settings \cup Again(n)
<1>1. /\ Len(q) \in Nat /\ Len(q) > 0
      /\ DOMAIN q = 1..Len(q)
      /\ Head(q) = q[1]
      /\ DOMAIN Tail(q) = 1..Len(q) - 1
      /\ \A k \in 1..Len(q) - 1 : Tail(q)[k] = q[k + 1]
  OBVIOUS
<1>2. ASSUME NEW k \in 1..Len(q) - 1, NEW l \in 1..Len(q) - 1, k # l
      PROVE  Tail(q)[k] \cap Tail(q)[l] \subseteq Settings \cup Again(n)
  <2>1. k + 1 \in 1..Len(q) /\ l + 1 \in 1..Len(q) /\ k + 1 # l + 1
    BY <1>1, <1>2
  <2>2. q[k + 1] \cap q[l + 1] \subseteq Settings \cup Again(n)
    BY <1>1, <2>1 DEF Apart
  <2>. QED BY <1>1, <2>2
<1>3. ASSUME NEW k \in 1..Len(q) - 1
      PROVE  q[1] \cap Tail(q)[k] \subseteq Settings \cup Again(n)
  <2>1. 1 \in 1..Len(q) /\ k + 1 \in 1..Len(q) /\ 1 # k + 1
    BY <1>1
  <2>2. q[1] \cap q[k + 1] \subseteq Settings \cup Again(n)
    BY <1>1, <2>1 DEF Apart
  <2>. QED BY <1>1, <2>2
<1>4. Apart(n, Tail(q))
  BY <1>1, <1>2 DEF Apart
<1>5. Listed(Tail(q)) = UNION {Tail(q)[k] : k \in 1..Len(q) - 1}
  BY <1>1 DEF Listed
<1>. QED BY <1>1, <1>3, <1>4, <1>5

LEMMA PoppedOrdered ==
    ASSUME NEW S, NEW q \in Seq(SUBSET S), q # <<>>, NEW x, NEW used,
           Ordered(q, x, used), x \notin Head(q)
    PROVE  Ordered(Tail(q), x, used) /\ Head(q) \cap used \subseteq Settings
<1>1. /\ Len(q) \in Nat /\ Len(q) > 0
      /\ DOMAIN q = 1..Len(q)
      /\ Head(q) = q[1]
      /\ DOMAIN Tail(q) = 1..Len(q) - 1
      /\ \A k \in 1..Len(q) - 1 : Tail(q)[k] = q[k + 1]
  OBVIOUS
<1>2. PICK p \in 1..Len(q) : x \in q[p] /\ \A k \in 1..p - 1 : q[k] \cap used \subseteq Settings
  BY <1>1 DEF Ordered
<1>3. p # 1
  BY <1>1, <1>2
<1>4. p - 1 \in 1..Len(q) - 1 /\ (p - 1) + 1 = p /\ 1 \in 1..p - 1
  BY <1>1, <1>3
<1>5. x \in Tail(q)[p - 1] /\ q[1] \cap used \subseteq Settings
  BY <1>1, <1>2, <1>4
<1>6. ASSUME NEW k \in 1..(p - 1) - 1 PROVE Tail(q)[k] \cap used \subseteq Settings
  <2>1. k \in 1..Len(q) - 1 /\ k + 1 \in 1..p - 1
    BY <1>1, <1>4
  <2>. QED BY <1>1, <1>2, <2>1
<1>. QED BY <1>1, <1>4, <1>5, <1>6 DEF Ordered

LEMMA NoneListed == Listed(<<>>) = {} /\ \A x, used : ~Ordered(<<>>, x, used)
  BY DEF Listed, Ordered

-----------------------------------------------------------------------------
(* The invariant is kept.                                                  *)

LEMMA InitLife == ASSUME WellFormed(name, driver) PROVE Init => LifeInv
<1> SUFFICES ASSUME Init PROVE LifeInv
  OBVIOUS
<1>1. TypeInv
  <2>1. 0 \in 0..MaxFiles /\ 1 \in 1..Len(driver.load) + 1
    BY MaxFilesAssumption DEF WellFormed, Shape
  <2>2. todo = <<>> /\ DOMAIN todo = {}
    BY DEF Init
  <2>3. TypeOK
    BY <2>1, <2>2 DEF Init, TypeOK
  <2>4. todo \in Seq(SUBSET Got(driver))
    BY <2>2
  <2>. QED BY <2>3, <2>4 DEF TypeInv
<1>2. Before(driver, 1) = {}
  BY DEF Before
<1>. QED BY <1>1, <1>2 DEF Init, LifeInv, PhaseInv, HeldInv, OwnInv, FileInv, AttrInv, HandlerInv,
               NothingLeft, ReleasedOnce

LEMMA SameDriver == name' = name => driver' = driver
  BY DEF driver

LEMMA GetsIsGot == ASSUME WellFormed(name, driver) PROVE Gets = Got(driver)
  BY DEF WellFormed, Shape, Gets, Got, Before

LEMMA KeepsAt ==
    ASSUME WellFormed(name, driver), TypeOK, Loading
    PROVE  /\ at \in 1..Len(driver.load) /\ at \in Nat \ {0} /\ at + 1 \in 1..Len(driver.load) + 1
           /\ Before(driver, at + 1) = Before(driver, at) \cup step.gets
           /\ Before(driver, at + 1) \subseteq Got(driver)
           /\ step.gets \subseteq Got(driver)
           /\ at \in DOMAIN driver.load
<1>1. at \in 1..Len(driver.load) /\ at \in Nat \ {0} /\ at + 1 \in 1..Len(driver.load) + 1
  BY DEF WellFormed, Shape, TypeOK, Loading
<1>2. Before(driver, at + 1) = Before(driver, at) \cup step.gets
  BY <1>1, BeforeNext DEF step
<1>3. Before(driver, at + 1) \subseteq Got(driver)
  BY <1>1, BeforeGrows DEF Got, WellFormed, Shape
<1>. QED BY <1>1, <1>2, <1>3 DEF WellFormed, Shape

\* While a driver loads, what files or the attribute use is there when they are.
LEMMA FoundReady ==
    ASSUME WellFormed(name, driver), TypeOK, HeldInv, pc = "load"
    PROVE  /\ driver.node \in held => driver.needs \subseteq Before(driver, at) \/ name \in Early
           /\ driver.attr \in held => driver.shows \subseteq Before(driver, at) \/ name \in Early
<1>1. /\ at \in 1..Len(driver.load) + 1 /\ Len(driver.load) \in Nat
      /\ held \subseteq Before(driver, at)
  BY DEF TypeOK, HeldInv, WellFormed, Shape
<1>2. ASSUME NEW x, x \in held
      PROVE  \E j \in DOMAIN driver.load :
                x \in driver.load[j].gets /\ Before(driver, j) \subseteq Before(driver, at)
  <2>1. PICK j \in 1..at - 1 : x \in driver.load[j].gets
    BY <1>1, <1>2 DEF Before
  <2>2. j \in DOMAIN driver.load
    BY <1>1, <2>1 DEF WellFormed, Shape
  <2>3. Before(driver, j) \subseteq Before(driver, at)
    BY <1>1, <2>1, BeforeGrows
  <2>. QED BY <2>1, <2>2, <2>3
<1>3. ASSUME driver.node \in held
      PROVE  driver.needs \subseteq Before(driver, at) \/ name \in Early
  <2>1. PICK j \in DOMAIN driver.load :
           driver.node \in driver.load[j].gets /\ Before(driver, j) \subseteq Before(driver, at)
    BY <1>2, <1>3
  <2>. QED BY <2>1 DEF WellFormed, FileReady
<1>4. ASSUME driver.attr \in held
      PROVE  driver.shows \subseteq Before(driver, at) \/ name \in Early
  <2>1. PICK j \in DOMAIN driver.load :
           driver.attr \in driver.load[j].gets /\ Before(driver, j) \subseteq Before(driver, at)
    BY <1>2, <1>4
  <2>. QED BY <2>1 DEF WellFormed, AttrReady
<1>. QED BY <1>3, <1>4

LEMMA StepDoneLife == ASSUME LifeInv, WellFormed(name, driver), StepDone PROVE LifeInv'
<1>1. driver' = driver
  BY SameDriver DEF StepDone
<1>. DEFINE B == Before(driver, at)
<1>2. /\ at + 1 \in 1..Len(driver.load) + 1
      /\ Before(driver, at + 1) = B \cup step.gets
      /\ step.gets \subseteq Got(driver)
  BY KeepsAt DEF LifeInv, TypeInv, StepDone
<1>. HIDE DEF B
<1>3. /\ pc = "load" /\ failed = "none" /\ pc' = "load"
      /\ held' = held \cup step.gets /\ at' = at + 1
      /\ UNCHANGED <<name, pc, todo, files, tasklet, pending, failed, missing, unheld, late>>
  BY DEF LifeInv, PhaseInv, StepDone, Loading
<1>4. TypeInv'
  BY <1>1, <1>2, <1>3, GetsIsGot DEF LifeInv, TypeInv, TypeOK, Gets
<1>5. PhaseInv'
  BY <1>1, <1>3 DEF LifeInv, PhaseInv
<1>6. HeldInv'
  BY <1>1, <1>2, <1>3 DEF LifeInv, HeldInv, NothingLeft, B
<1>7. OwnInv'
  BY <1>1, <1>2, <1>3 DEF LifeInv, OwnInv, ReleasedOnce, B
<1>8. FileInv'
  BY <1>1, <1>2, <1>3 DEF LifeInv, FileInv, B
<1>9. AttrInv' /\ HandlerInv'
  BY <1>1, <1>3 DEF LifeInv, AttrInv, HandlerInv
<1>. QED BY <1>4, <1>5, <1>6, <1>7, <1>8, <1>9 DEF LifeInv

LEMMA StepUnnoticedLife == ASSUME LifeInv, WellFormed(name, driver), StepUnnoticed PROVE LifeInv'
<1>1. driver' = driver
  BY SameDriver DEF StepUnnoticed
<1>. DEFINE B == Before(driver, at)
<1>2. /\ at + 1 \in 1..Len(driver.load) + 1
      /\ Before(driver, at + 1) = B \cup step.gets
      /\ step.gets \subseteq Got(driver)
      /\ step.gets \subseteq Doubtful(driver)
  BY KeepsAt DEF LifeInv, TypeInv, StepUnnoticed, Doubtful, step
<1>. HIDE DEF B
<1>3. /\ pc = "load" /\ failed = "none" /\ pc' = "load"
      /\ missing' = missing \cup step.gets /\ at' = at + 1
      /\ UNCHANGED <<name, pc, todo, held, files, tasklet, pending, failed, unheld, late>>
  BY DEF LifeInv, PhaseInv, StepUnnoticed, Loading
<1>4. TypeInv'
  BY <1>1, <1>2, <1>3, GetsIsGot DEF LifeInv, TypeInv, TypeOK, Gets
<1>5. PhaseInv'
  BY <1>1, <1>3 DEF LifeInv, PhaseInv
<1>6. HeldInv'
  BY <1>1, <1>2, <1>3 DEF LifeInv, HeldInv, NothingLeft, B
<1>7. OwnInv'
  BY <1>1, <1>2, <1>3 DEF LifeInv, OwnInv, ReleasedOnce, B
<1>8. FileInv'
  BY <1>1, <1>2, <1>3 DEF LifeInv, FileInv, B
<1>9. AttrInv' /\ HandlerInv'
  BY <1>1, <1>3 DEF LifeInv, AttrInv, HandlerInv
<1>. QED BY <1>4, <1>5, <1>6, <1>7, <1>8, <1>9 DEF LifeInv

LEMMA StepFailedLife == ASSUME LifeInv, WellFormed(name, driver), StepFailed PROVE LifeInv'
<1>1. driver' = driver
  BY SameDriver DEF StepFailed
<1>. DEFINE B == Before(driver, at)
<1>2. /\ B \subseteq Got(driver) /\ at \in DOMAIN driver.load
      /\ step.name # "none"
      /\ GivesBack(name, driver, at, step.name, step.undo)
      /\ driver.attr \notin B
  BY KeepsAt DEF LifeInv, TypeInv, StepFailed, step, WellFormed, Shape, Ladder, AttrReady
<1>3. /\ step.undo \in Seq(SUBSET Got(driver))
      /\ Listed(step.undo) \subseteq B
      /\ \A i \in DOMAIN step.undo : step.undo[i] \subseteq Got(driver)
  BY <1>2 DEF GivesBack, Listed
<1>4. /\ B \subseteq Listed(step.undo) \cup Listed(driver.managed) \cup Kept(name, step.name)
                   \cup Settings
      /\ Apart(name, step.undo)
  BY <1>2 DEF GivesBack
<1>. HIDE DEF B
<1>5. /\ pc = "load" /\ failed = "none" /\ pc' = "undo"
      /\ failed' = step.name /\ todo' = step.undo
      /\ UNCHANGED <<name, at, held, files, tasklet, pending, missing, unheld, late>>
  BY DEF LifeInv, PhaseInv, StepFailed, Loading
<1>6. TypeInv'
  BY <1>1, <1>2, <1>3, <1>5, GetsIsGot DEF LifeInv, TypeInv, TypeOK, Gets, step
<1>7. PhaseInv'
  BY <1>1, <1>2, <1>5 DEF LifeInv, PhaseInv
<1>8. HeldInv'
  BY <1>1, <1>4, <1>5 DEF LifeInv, HeldInv, NothingLeft, B
<1>9. OwnInv'
  BY <1>1, <1>2, <1>3, <1>4, <1>5 DEF LifeInv, OwnInv, ReleasedOnce, B
<1>10. FileInv'
  BY <1>1, <1>5 DEF LifeInv, FileInv
<1>11. AttrInv'
  BY <1>1, <1>2, <1>5 DEF LifeInv, AttrInv, HeldInv, B
<1>12. HandlerInv'
  BY <1>1, <1>5 DEF LifeInv, HandlerInv
<1>. QED BY <1>6, <1>7, <1>8, <1>9, <1>10, <1>11, <1>12 DEF LifeInv

LEMMA StepDropsLife == ASSUME LifeInv, WellFormed(name, driver), StepDrops PROVE LifeInv'
<1>1. driver' = driver
  BY SameDriver DEF StepDrops
<1>. DEFINE B == Before(driver, at)
<1>2. /\ at + 1 \in 1..Len(driver.load) + 1
      /\ step.gets \subseteq B \cap Again(name)
      /\ Before(driver, at + 1) = B
      /\ step.gets \subseteq Got(driver)
  BY KeepsAt DEF LifeInv, TypeInv, StepDrops, WellFormed, Shape, step
<1>. HIDE DEF B
<1>3. /\ pc = "load" /\ failed = "none" /\ pc' = "load"
      /\ held' = held \ (step.gets \ Settings) /\ at' = at + 1
      /\ unheld' = unheld \cup (step.gets \ held)
      /\ pending' \in BOOLEAN /\ (pending' => pending)
      /\ UNCHANGED <<name, pc, todo, files, tasklet, failed, missing, late>>
  BY DEF LifeInv, PhaseInv, StepDrops, Loading, Release, TypeInv, TypeOK
<1>4. TypeInv'
  BY <1>1, <1>2, <1>3, GetsIsGot DEF LifeInv, TypeInv, TypeOK, Gets
<1>5. PhaseInv'
  BY <1>1, <1>3 DEF LifeInv, PhaseInv
<1>6. HeldInv'
  BY <1>1, <1>2, <1>3 DEF LifeInv, HeldInv, NothingLeft, B
<1>7. OwnInv'
  BY <1>1, <1>2, <1>3 DEF LifeInv, OwnInv, ReleasedOnce, B
<1>8. FileInv'
  BY <1>1, <1>2, <1>3 DEF LifeInv, FileInv, B
<1>9. AttrInv' /\ HandlerInv'
  BY <1>1, <1>3 DEF LifeInv, AttrInv, HandlerInv
<1>. QED BY <1>4, <1>5, <1>6, <1>7, <1>8, <1>9 DEF LifeInv

LEMMA LoadedLife == ASSUME LifeInv, WellFormed(name, driver), Loaded PROVE LifeInv'
<1>1. driver' = driver
  BY SameDriver DEF Loaded
<1>2. /\ pc = "load" /\ failed = "none" /\ pc' = "live"
      /\ UNCHANGED <<name, at, todo, held, files, tasklet, pending, failed, missing, unheld, late>>
  BY DEF LifeInv, PhaseInv, Loaded
<1>3. at = Len(driver.load) + 1
  BY DEF Loaded, LifeInv, TypeInv, TypeOK, WellFormed, Shape
<1>4. TypeInv' /\ PhaseInv'
  BY <1>1, <1>2, <1>3, GetsIsGot DEF LifeInv, TypeInv, TypeOK, PhaseInv, Gets
<1>5. HeldInv' /\ OwnInv'
  BY <1>1, <1>2 DEF LifeInv, HeldInv, NothingLeft, OwnInv, ReleasedOnce
<1>6. FileInv' /\ AttrInv' /\ HandlerInv'
  BY <1>1, <1>2 DEF LifeInv, FileInv, AttrInv, HandlerInv
<1>. QED BY <1>4, <1>5, <1>6 DEF LifeInv

LEMMA UnloadLife == ASSUME LifeInv, WellFormed(name, driver), Unload PROVE LifeInv'
<1>1. driver' = driver
  BY SameDriver DEF Unload
<1>2. /\ pc = "live" /\ failed = "none" /\ pc' = "unload"
      /\ driver.bus \/ files = 0
      /\ todo' = driver.unload /\ late' = (late \/ tasklet)
      /\ UNCHANGED <<name, at, held, files, tasklet, pending, failed, missing, unheld>>
  BY DEF LifeInv, PhaseInv, Unload
<1>3. at = Len(driver.load) + 1 /\ Before(driver, at) = Got(driver)
  BY <1>2 DEF LifeInv, PhaseInv, Got
<1>4. /\ driver.unload \in Seq(SUBSET Got(driver))
      /\ Got(driver) \subseteq Listed(driver.unload) \cup Listed(driver.managed)
                                 \cup Kept(name, "none") \cup Settings
      /\ Apart(name, driver.unload)
  BY DEF WellFormed, Unloads, GivesBack, Got
<1>5. /\ Listed(driver.unload) \subseteq Got(driver)
      /\ \A i \in DOMAIN driver.unload : driver.unload[i] \subseteq Got(driver)
  BY <1>4 DEF Listed
<1>6. Got(driver) \subseteq held \cup missing \cup Again(name) /\ held \subseteq Got(driver)
  BY <1>2, <1>3 DEF LifeInv, OwnInv, HeldInv
<1>7. TypeInv'
  BY <1>1, <1>2, <1>4, <1>5, GetsIsGot DEF LifeInv, TypeInv, TypeOK, Gets
<1>8. PhaseInv'
  BY <1>1, <1>2, <1>3 DEF LifeInv, PhaseInv
<1>9. HeldInv'
  BY <1>1, <1>2, <1>4, <1>6 DEF HeldInv, NothingLeft
<1>10. OwnInv'
  BY <1>1, <1>2, <1>4, <1>5, <1>6 DEF LifeInv, OwnInv, ReleasedOnce
<1>11. FileInv'
  BY <1>1, <1>2 DEF LifeInv, FileInv
<1>12. AttrInv'
  <2>1. /\ driver.shows \subseteq held \cup missing
        /\ driver.shows \subseteq Settings \/ Ordered(driver.unload, driver.attr, driver.shows)
    BY <1>6 DEF WellFormed, AttrReady
  <2>. QED BY <1>1, <1>2, <2>1 DEF AttrInv
<1>13. HandlerInv'
  <2>1. ASSUME driver.handler # {} PROVE driver.handler \subseteq held
    BY <1>6, <2>1 DEF LifeInv, OwnInv, WellFormed, Quiet
  <2>2. ASSUME driver.handler # {}, ~driver.thread
        PROVE  /\ Ordered(driver.unload, "irq", driver.handler)
               /\ Ordered(driver.unload, "timer", driver.handler)
    BY <2>2 DEF WellFormed, Quiet
  <2>. QED BY <1>1, <1>2, <2>1, <2>2 DEF LifeInv, HandlerInv, Safe
<1>. QED BY <1>7, <1>8, <1>9, <1>10, <1>11, <1>12, <1>13 DEF LifeInv

LEMMA UndoLife == ASSUME LifeInv, WellFormed(name, driver), Undo PROVE LifeInv'
<1>1. driver' = driver
  BY SameDriver DEF Undo
<1> DEFINE r == Head(todo)
           q == Tail(todo)
<1>2. /\ pc \in {"undo", "unload"} /\ todo # <<>>
      /\ todo' = q
      /\ unheld' = unheld \cup (r \ held)
      /\ held' = held \ (r \ Settings)
      /\ pending' = (pending /\ "timer" \notin r)
      /\ UNCHANGED <<name, pc, at, files, tasklet, failed, missing, late>>
  BY DEF Undo, Release
<1>3. todo \in Seq(SUBSET Got(driver))
  BY DEF LifeInv, TypeInv
<1>4. /\ q \in Seq(SUBSET Got(driver))
      /\ r \subseteq Got(driver)
      /\ Listed(todo) = r \cup Listed(q)
  BY <1>2, <1>3, Popped
<1>5. \A i \in DOMAIN q : q[i] \subseteq Got(driver)
  BY <1>4
<1>6. Apart(name, q) /\ r \cap Listed(q) \subseteq Settings \cup Again(name)
  BY <1>2, <1>3, PoppedApart DEF LifeInv, OwnInv
<1>7. ASSUME NEW x, NEW used, Ordered(todo, x, used), x \notin r
      PROVE  Ordered(q, x, used) /\ r \cap used \subseteq Settings
  BY <1>2, <1>3, <1>7, PoppedOrdered
<1>. HIDE DEF r, q
<1>8. TypeInv'
  BY <1>1, <1>2, <1>4, <1>5, GetsIsGot DEF LifeInv, TypeInv, TypeOK, Gets
<1>9. PhaseInv'
  BY <1>1, <1>2 DEF LifeInv, PhaseInv
<1>10. HeldInv'
  BY <1>1, <1>2, <1>4 DEF LifeInv, HeldInv, NothingLeft
<1>11. OwnInv'
  BY <1>1, <1>2, <1>4, <1>6 DEF LifeInv, OwnInv, ReleasedOnce
<1>12. FileInv'
  BY <1>1, <1>2 DEF LifeInv, FileInv
<1>13. AttrInv'
  <2>1. driver.attr \notin Settings
    BY DEF WellFormed, AttrReady
  <2>2. CASE driver.shows \subseteq Settings
    BY <1>1, <1>2, <2>1, <2>2 DEF LifeInv, AttrInv
  <2>3. CASE Ordered(todo, driver.attr, driver.shows) /\ driver.attr \notin r
    BY <1>1, <1>2, <1>7, <2>1, <2>3 DEF LifeInv, AttrInv
  <2>. QED BY <1>1, <1>2, <2>1, <2>2, <2>3 DEF LifeInv, AttrInv
<1>14. HandlerInv'
  <2>1. ASSUME Safe("irq"), "irq" \in held' PROVE Safe("irq")'
    BY <1>1, <1>2, <1>7, <2>1 DEF Safe, Settings
  <2>2. ASSUME Safe("timer"), pending' PROVE Safe("timer")'
    BY <1>1, <1>2, <1>7, <2>2 DEF Safe
  <2>3. "irq" \in held' => "irq" \in held
    BY <1>2
  <2>. QED BY <1>1, <1>2, <2>1, <2>2, <2>3 DEF LifeInv, HandlerInv
<1>. QED BY <1>8, <1>9, <1>10, <1>11, <1>12, <1>13, <1>14 DEF LifeInv

LEMMA UndoManagedLife == ASSUME LifeInv, WellFormed(name, driver), UndoManaged PROVE LifeInv'
<1>1. driver' = driver
  BY SameDriver DEF UndoManaged
<1>2. PICK i \in DOMAIN driver.managed :
        /\ driver.managed[i] \subseteq held
        /\ Release(driver.managed[i])
  BY DEF UndoManaged, StillManaged
<1> DEFINE r == driver.managed[i]
<1>3. /\ pc \in {"undo", "unload"} /\ todo = <<>>
      /\ r \subseteq held /\ unheld' = unheld
      /\ held' = held \ (r \ Settings)
      /\ pending' \in BOOLEAN /\ (pending' => pending)
      /\ UNCHANGED <<name, pc, at, todo, files, tasklet, failed, missing, late>>
  BY <1>2 DEF UndoManaged, Release, LifeInv, TypeInv, TypeOK
<1>. HIDE DEF r
<1>4. TypeInv'
  BY <1>1, <1>3, GetsIsGot DEF LifeInv, TypeInv, TypeOK, Gets
<1>5. PhaseInv'
  BY <1>1, <1>3 DEF LifeInv, PhaseInv
<1>6. HeldInv'
  BY <1>1, <1>3 DEF LifeInv, HeldInv, NothingLeft
<1>7. OwnInv'
  BY <1>1, <1>3, NoneListed DEF LifeInv, OwnInv, ReleasedOnce
<1>8. FileInv'
  BY <1>1, <1>3 DEF LifeInv, FileInv
<1>9. AttrInv'
  BY <1>1, <1>3, NoneListed DEF LifeInv, AttrInv
<1>10. HandlerInv'
  BY <1>1, <1>3, NoneListed DEF LifeInv, HandlerInv, Safe
<1>. QED BY <1>4, <1>5, <1>6, <1>7, <1>8, <1>9, <1>10 DEF LifeInv

LEMMA GoneLife == ASSUME LifeInv, WellFormed(name, driver), Gone PROVE LifeInv'
<1>1. driver' = driver
  BY SameDriver DEF Gone
<1>2. /\ pc \in {"undo", "unload"} /\ todo = <<>> /\ pc' = "gone"
      /\ \A i \in DOMAIN driver.managed : ~(driver.managed[i] \subseteq held)
      /\ UNCHANGED <<name, at, todo, held, files, tasklet, pending, failed, missing, unheld, late>>
  BY DEF Gone, StillManaged
<1>3. TypeInv'
  BY <1>1, <1>2, GetsIsGot DEF LifeInv, TypeInv, TypeOK, Gets
<1>4. PhaseInv'
  BY <1>1, <1>2 DEF LifeInv, PhaseInv
<1>5. HeldInv'
  <2>1. held \cap Listed(driver.managed) = {}
    BY <1>2 DEF WellFormed, Shape, Listed
  <2>. QED BY <1>1, <1>2, <2>1, NoneListed DEF LifeInv, HeldInv, NothingLeft
<1>6. OwnInv'
  BY <1>1, <1>2 DEF LifeInv, OwnInv, ReleasedOnce
<1>7. FileInv' /\ AttrInv'
  BY <1>1, <1>2 DEF LifeInv, PhaseInv, FileInv, AttrInv
<1>8. HandlerInv'
  BY <1>1, <1>2, NoneListed DEF LifeInv, HandlerInv, Safe
<1>. QED BY <1>3, <1>4, <1>5, <1>6, <1>7, <1>8 DEF LifeInv

LEMMA OpenLife == ASSUME LifeInv, WellFormed(name, driver), Open PROVE LifeInv'
<1>1. driver' = driver
  BY SameDriver DEF Open
<1>2. /\ CanOpen /\ files < MaxFiles /\ files' = files + 1
      /\ UNCHANGED <<name, pc, at, todo, held, tasklet, pending, failed, missing, unheld, late>>
  BY DEF Open
<1>3. TypeInv'
  BY <1>1, <1>2, GetsIsGot, MaxFilesAssumption DEF LifeInv, TypeInv, TypeOK, Gets
<1>4. PhaseInv' /\ HeldInv' /\ OwnInv'
  BY <1>1, <1>2 DEF LifeInv, PhaseInv, HeldInv, OwnInv, NothingLeft, ReleasedOnce
<1>5. FileInv'
  <2>1. ASSUME pc = "load" PROVE driver.needs \subseteq Before(driver, at) \/ name \in Early
    BY <1>2, <2>1, FoundReady DEF CanOpen, LifeInv, TypeInv
  <2>. QED BY <1>1, <1>2, <2>1 DEF FileInv, CanOpen
<1>6. AttrInv' /\ HandlerInv'
  BY <1>1, <1>2 DEF LifeInv, AttrInv, HandlerInv, Safe
<1>. QED BY <1>3, <1>4, <1>5, <1>6 DEF LifeInv

LEMMA CloseLife == ASSUME LifeInv, WellFormed(name, driver), Close PROVE LifeInv'
<1>1. driver' = driver
  BY SameDriver DEF Close
<1>2. /\ files > 0 /\ files' = files - 1
      /\ UNCHANGED <<name, pc, at, todo, held, tasklet, pending, failed, missing, unheld, late>>
  BY DEF Close
<1>3. TypeInv'
  BY <1>1, <1>2, GetsIsGot, MaxFilesAssumption DEF LifeInv, TypeInv, TypeOK, Gets
<1>4. PhaseInv' /\ HeldInv' /\ OwnInv'
  BY <1>1, <1>2 DEF LifeInv, PhaseInv, HeldInv, OwnInv, NothingLeft, ReleasedOnce
<1>5. FileInv'
  BY <1>1, <1>2 DEF LifeInv, FileInv
<1>6. AttrInv' /\ HandlerInv'
  BY <1>1, <1>2 DEF LifeInv, AttrInv, HandlerInv, Safe
<1>. QED BY <1>3, <1>4, <1>5, <1>6 DEF LifeInv

\* What an interrupt and what follows it leave alone.
LEMMA RestKept ==
    ASSUME LifeInv, WellFormed(name, driver), driver' = driver,
           UNCHANGED <<name, pc, at, todo, held, files, failed, missing, unheld>>,
           tasklet' \in BOOLEAN, pending' \in BOOLEAN, late' \in BOOLEAN
    PROVE  TypeInv' /\ PhaseInv' /\ HeldInv' /\ OwnInv' /\ FileInv' /\ AttrInv'
<1>1. TypeInv'
  BY GetsIsGot DEF LifeInv, TypeInv, TypeOK, Gets
<1>2. PhaseInv' /\ HeldInv' /\ OwnInv'
  BY DEF LifeInv, PhaseInv, HeldInv, OwnInv, NothingLeft, ReleasedOnce
<1>3. FileInv' /\ AttrInv'
  BY DEF LifeInv, FileInv, AttrInv
<1>. QED BY <1>1, <1>2, <1>3

LEMMA InterruptLife == ASSUME LifeInv, WellFormed(name, driver), Interrupt PROVE LifeInv'
<1>1. driver' = driver
  BY SameDriver DEF Interrupt
<1>2. /\ driver.handler # {} /\ tasklet' = ~driver.thread /\ late' = (late \/ pc # "live")
      /\ UNCHANGED <<name, pc, at, todo, held, files, pending, failed, missing, unheld>>
  BY DEF Interrupt, CanInterrupt
<1>3. tasklet' \in BOOLEAN /\ pending' \in BOOLEAN /\ late' \in BOOLEAN
  BY <1>2 DEF LifeInv, TypeInv, TypeOK
<1>4. HandlerInv'
  BY <1>1, <1>2 DEF LifeInv, HandlerInv, Safe
<1>. QED BY <1>1, <1>2, <1>3, <1>4, RestKept DEF LifeInv

LEMMA TaskletLife == ASSUME LifeInv, WellFormed(name, driver), Tasklet PROVE LifeInv'
<1>1. driver' = driver
  BY SameDriver DEF Tasklet
<1>2. /\ tasklet /\ tasklet' = FALSE /\ pending' = TRUE
      /\ UNCHANGED <<name, pc, at, todo, held, files, failed, missing, unheld, late>>
  BY DEF Tasklet
<1>3. tasklet' \in BOOLEAN /\ pending' \in BOOLEAN /\ late' \in BOOLEAN
  BY <1>2 DEF LifeInv, TypeInv, TypeOK
<1>4. HandlerInv'
  BY <1>1, <1>2 DEF LifeInv, HandlerInv, Safe
<1>. QED BY <1>1, <1>2, <1>3, <1>4, RestKept DEF LifeInv

LEMMA TimerFiresLife == ASSUME LifeInv, WellFormed(name, driver), TimerFires PROVE LifeInv'
<1>1. driver' = driver
  BY SameDriver DEF TimerFires
<1>2. /\ pending /\ pending' = FALSE
      /\ UNCHANGED <<name, pc, at, todo, held, files, tasklet, failed, missing, unheld, late>>
  BY DEF TimerFires
<1>3. tasklet' \in BOOLEAN /\ pending' \in BOOLEAN /\ late' \in BOOLEAN
  BY <1>2 DEF LifeInv, TypeInv, TypeOK
<1>4. HandlerInv'
  BY <1>1, <1>2 DEF LifeInv, HandlerInv, Safe
<1>. QED BY <1>1, <1>2, <1>3, <1>4, RestKept DEF LifeInv

LEMMA NextLife == ASSUME LifeInv, WellFormed(name, driver), [Next]_vars PROVE LifeInv'
<1>1. CASE UNCHANGED vars
  <2>1. driver' = driver
    BY <1>1, SameDriver DEF vars
  <2>2. HandlerInv'
    BY <1>1, <2>1 DEF vars, LifeInv, HandlerInv, Safe
  <2>3. tasklet' \in BOOLEAN /\ pending' \in BOOLEAN /\ late' \in BOOLEAN
    BY <1>1 DEF vars, LifeInv, TypeInv, TypeOK
  <2>. QED BY <1>1, <2>1, <2>2, <2>3, RestKept DEF vars, LifeInv
<1>. QED BY <1>1, StepDoneLife, StepUnnoticedLife, StepFailedLife, StepDropsLife, LoadedLife,
            UnloadLife, UndoLife, UndoManagedLife, GoneLife, OpenLife, CloseLife,
            InterruptLife, TaskletLife, TimerFiresLife DEF Next

-----------------------------------------------------------------------------
(* What the invariant says.                                                *)

LEMMA LifeReady == ASSUME LifeInv, WellFormed(name, driver) PROVE EntryReady
<1>1. failed = "none" /\ pc # "load" =>
        at = Len(driver.load) + 1 /\ Before(driver, at) = Got(driver)
  BY DEF LifeInv, PhaseInv, Got
<1>2. pc \in {"load", "live"} => Before(driver, at) \subseteq held \cup missing \cup Again(name)
  BY DEF LifeInv, OwnInv
<1>3. ASSUME failed = "none", CanOpen \/ files > 0
      PROVE  driver.needs \subseteq held \cup missing \/ KnownEarly \/ KnownLost
  <2>1. CASE pc = "load"
    <3>1. driver.needs \subseteq Before(driver, at) \/ name \in Early
      BY <1>3, <2>1, FoundReady DEF LifeInv, TypeInv, FileInv, CanOpen
    <3>. QED BY <1>2, <2>1, <3>1 DEF Again, KnownEarly, KnownLost
  <2>2. CASE pc = "live"
    <3>1. driver.needs \subseteq Before(driver, at)
      BY <1>1, <1>3, <2>2 DEF WellFormed, FileReady
    <3>. QED BY <1>2, <2>2, <3>1 DEF Again, KnownLost
  <2>3. CASE pc \in {"unload", "gone"}
    <3>1. driver.bus
      BY <1>3, <2>3 DEF CanOpen, LifeInv, FileInv
    <3>2. driver.needs \subseteq Settings \/ KnownLost
      BY <2>3, <3>1 DEF WellFormed, FileReady, KnownLost
    <3>3. driver.needs \subseteq Before(driver, at)
      BY <1>1, <1>3, <2>3 DEF WellFormed, FileReady
    <3>4. Before(driver, at) \cap Settings \subseteq held \cup missing
      BY <1>3 DEF LifeInv, OwnInv
    <3>. QED BY <3>2, <3>3, <3>4
  <2>. QED BY <1>3, <2>1, <2>2, <2>3 DEF LifeInv, TypeInv, TypeOK, PhaseInv
<1>4. ASSUME driver.attr \in held
      PROVE  driver.shows \subseteq held \cup missing \/ KnownEarly
  <2>1. driver.shows \cap Again(name) = {} /\ driver.shows \subseteq Got(driver)
    BY DEF WellFormed, AttrReady
  <2>2. CASE pc = "load"
    <3>1. driver.shows \subseteq Before(driver, at) \/ name \in Early
      BY <1>4, <2>2, FoundReady DEF LifeInv, TypeInv
    <3>. QED BY <1>2, <2>1, <2>2, <3>1 DEF KnownEarly
  <2>3. CASE pc = "live"
    BY <1>1, <1>2, <2>1, <2>3 DEF LifeInv, PhaseInv
  <2>4. CASE pc \in {"undo", "unload", "gone"}
    BY <1>4, <2>4 DEF LifeInv, PhaseInv, AttrInv
  <2>. QED BY <2>2, <2>3, <2>4 DEF LifeInv, TypeInv, TypeOK
<1>. QED BY <1>3, <1>4 DEF EntryReady

LEMMA LifeHandlers == ASSUME LifeInv, WellFormed(name, driver) PROVE HandlersReady
<1> SUFFICES ASSUME pc \in {"live", "unload"}, ~late, CanInterrupt \/ tasklet \/ pending,
                    ~(driver.thread /\ pc = "unload")
             PROVE  driver.handler \subseteq held
  BY DEF HandlersReady
<1>1. driver.handler # {}
  BY DEF CanInterrupt, LifeInv, HandlerInv
<1>2. CASE pc = "live"
  <2>1. Before(driver, at) = Got(driver)
    BY <1>2 DEF LifeInv, PhaseInv, Got
  <2>2. /\ Got(driver) \subseteq held \cup missing \cup Again(name)
        /\ missing \subseteq Doubtful(driver)
    BY <1>2, <2>1 DEF LifeInv, OwnInv
  <2>. QED BY <1>1, <2>2 DEF WellFormed, Quiet
<1>3. CASE pc = "unload"
  BY <1>1, <1>3 DEF LifeInv, HandlerInv, CanInterrupt, Safe
<1>. QED BY <1>2, <1>3

LEMMA LifeQuiet == LifeInv => QuietUnlessLate
  BY DEF LifeInv, HandlerInv, QuietUnlessLate

-----------------------------------------------------------------------------
(* The theorems.                                                           *)

LEMMA LifeInvHolds == Spec => []LifeInv
<1>1. Init => LifeInv
  BY Formed, InitLife DEF Init
<1>2. LifeInv /\ [Next]_vars => LifeInv'
  BY Formed, NextLife DEF LifeInv, TypeInv, TypeOK
<1>. QED BY <1>1, <1>2, PTL DEF Spec

\* TypeOK: nothing is released, held or missing but what the driver's own load gets,
\* and no more files are open than there may be.
THEOREM LifeTypeCorrect == Spec => []TypeOK
<1>1. LifeInv => TypeOK
  BY DEF LifeInv, TypeInv
<1>. QED BY <1>1, LifeInvHolds, PTL

\* NothingLeft: whichever call of an init or probe function fails, and after rmmod, a
\* driver that is gone keeps nothing but what Kept lists.
THEOREM NothingIsLeft == Spec => []NothingLeft
<1>1. LifeInv => NothingLeft
  BY DEF LifeInv, HeldInv
<1>. QED BY <1>1, LifeInvHolds, PTL

\* ReleasedOnce: nothing is given back that the driver does not have, but what Again
\* lists and what it had not noticed that it did not get.
THEOREM NothingReleasedTwice == Spec => []ReleasedOnce
<1>1. LifeInv => ReleasedOnce
  BY DEF LifeInv, OwnInv
<1>. QED BY <1>1, LifeInvHolds, PTL

\* EntryReady: while a file can be opened or is open, and an attribute is there, what
\* their functions use is there too (with the exceptions that EntryReady names).
THEOREM EntriesAreReady == Spec => []EntryReady
<1>1. LifeInv => EntryReady
  BY Formed, LifeReady DEF LifeInv, TypeInv, TypeOK
<1>. QED BY <1>1, LifeInvHolds, PTL

\* HandlersReady: an interrupt, a tasklet or a timer of a driver that is loaded, or
\* being unloaded, finds what its functions use.
THEOREM HandlersAreReady == Spec => []HandlersReady
<1>1. LifeInv => HandlersReady
  BY Formed, LifeHandlers DEF LifeInv, TypeInv, TypeOK
<1>. QED BY <1>1, LifeInvHolds, PTL

\* QuietUnlessLate: a driver that is gone leaves no tasklet or timer that would call
\* it, unless an interrupt came, or was waiting, outside "live".
THEOREM GoneIsQuiet == Spec => []QuietUnlessLate
<1>1. LifeInv => QuietUnlessLate
  BY LifeQuiet, Zenon
<1>. QED BY <1>1, LifeInvHolds, PTL

-----------------------------------------------------------------------------
(* Every step of the drivers with their users is one of the drivers, or    *)
(* leaves them alone.                                                      *)

LEMMA UseStepKeeps == UseStep => UNCHANGED vars
<1>1. Measure \/ AskOther => UNCHANGED vars
  BY Zenon DEF Measure, AskOther
<1>2. \A u \in Users : Ask(u) => UNCHANGED vars
  BY Zenon DEF Ask
<1>3. \A u \in Users : ReadLow(u) \/ ReadHigh(u) \/ ReadFails(u) => UNCHANGED vars
  BY Zenon DEF ReadLow, ReadHigh, ReadFails
<1>4. \A u \in Users : Burst(u) \/ BurstFails(u) \/ Return(u) => UNCHANGED vars
  BY Zenon DEF Burst, BurstFails, Return
<1>. QED BY <1>1, <1>2, <1>3, <1>4, Zenon DEF UseStep

LEMMA KeyStepKeeps == KeyStep => UNCHANGED vars
  BY Zenon DEF KeyStep, PressOrLetGo, KeyRead, FindsUp, FindsDown, FindsLetGo, Store, Take,
     KeyReturn

LEMMA UseNext == [NextUse]_usevars => [Next]_vars
  BY UseStepKeeps DEF NextUse, LifeUse, usevars

LEMMA AllNext == [NextAll]_<<usevars, keyvars, inputvars>> => [NextUse]_usevars
  BY KeyStepKeeps DEF NextAll, NextUse, MoveKey, usevars

\* The drivers with the users of the sensors are the drivers of DriverModule.
LEMMA UseIsLife == SpecUse => Spec
<1>1. InitUse => Init
  BY DEF InitUse
<1>. QED BY <1>1, UseNext, PTL DEF SpecUse, Spec

\* The drivers with all their users are those with the users of the sensors.
LEMMA AllIsUse == SpecAll => SpecUse
<1>1. InitAll => InitUse
  BY DEF InitAll
<1>. QED BY <1>1, AllNext, PTL DEF SpecAll, SpecUse

-----------------------------------------------------------------------------
(* The registers and the arithmetic of the drivers.                        *)

\* What 16 bits hold, a byte, and the 10 bits of "ir" and "ps".
Word(u) == u \in Int /\ 0 <= u /\ u <= 65535
Octet(u) == u \in Int /\ 0 <= u /\ u <= 255
Ten(u)  == u \in Int /\ 0 <= u /\ u <= 1023

LEMMA UpTo ==
    ASSUME NEW top \in Int, NEW S, S = 0..top, NEW u
    PROVE  u \in S <=> u \in Int /\ 0 <= u /\ u <= top
  OBVIOUS

LEMMA WordsAreWords == ASSUME NEW u PROVE u \in Words <=> Word(u)
<1>1. PICK top : top = 65535
  OBVIOUS
<1>2. Words = 0..top /\ top \in Int
  BY <1>1, SMT DEF Words
<1>3. u \in Words <=> u \in Int /\ 0 <= u /\ u <= top
  BY <1>2, UpTo
<1>. QED BY <1>1, <1>3 DEF Word

LEMMA OctetInRange == ASSUME NEW u, Octet(u) PROVE u \in 0..255
<1>1. PICK top : top = 255
  OBVIOUS
<1>2. 0..255 = 0..top /\ top \in Int
  BY <1>1, SMT
<1>3. u \in Int /\ 0 <= u /\ u <= top
  BY <1>1 DEF Octet
<1>. QED BY <1>2, <1>3, UpTo

LEMMA WordsAreInts == ASSUME NEW m \in Words PROVE m \in Int
  BY WordsAreWords DEF Word

LEMMA TenBits == ASSUME NEW m \in Int PROVE Ten(m % 1024)
  BY SMT DEF Ten

LEMMA Wrapped == ASSUME NEW x \in Int PROVE Word(Wrap(x))
  BY SMT DEF Wrap, Word

LEMMA Channelled ==
    ASSUME NEW m \in Int, NEW c \in Int
    PROVE  Word(Wrap(m + c)) /\ Channel(m, c) = Signed(Wrap(m + c))
<1>1. m + c \in Int
  BY SMT
<1>. QED BY <1>1, Wrapped DEF Channel

\* A register is a byte.
LEMMA LowByteRange ==
    ASSUME NEW what \in Light, NEW m \in Words, NEW flags \in LowFlags(what)
    PROVE  (Measured(what, m) % LowBits(what)) + flags \in 0..255
<1>1. m \in Int /\ m % 1024 \in Int
  BY WordsAreInts, TenBits DEF Ten
<1>2. CASE what = "ir"
  <2>1. Measured(what, m) = m % 1024 /\ LowBits(what) = 4 /\ flags \in {0, 128}
    BY <1>2 DEF Measured, LowBits, LowFlags
  <2>2. Octet(((m % 1024) % 4) + flags)
    BY <1>1, <2>1 DEF Octet
  <2>. QED BY <2>1, <2>2, OctetInRange
<1>3. CASE what = "als"
  <2>1. Measured(what, m) = m /\ LowBits(what) = 256 /\ flags = 0
    BY <1>3 DEF Measured, LowBits, LowFlags
  <2>2. Octet((m % 256) + flags)
    BY <1>1, <2>1 DEF Octet
  <2>. QED BY <2>1, <2>2, OctetInRange
<1>4. CASE what = "ps"
  <2>1. Measured(what, m) = m % 1024 /\ LowBits(what) = 16 /\ flags \in TopFlags
    BY <1>4 DEF Measured, LowBits, LowFlags
  <2>2. Octet(((m % 1024) % 16) + flags)
    BY <1>1, <2>1 DEF Octet, TopFlags
  <2>. QED BY <2>1, <2>2, OctetInRange
<1>. QED BY <1>2, <1>3, <1>4 DEF Light

\* Masking a register gives the value's bits back.
LEMMA LowMask ==
    ASSUME NEW y \in Int
    PROVE  /\ \A f \in {0, 128} : ((y % 4) + f) % 4 = y % 4
           /\ \A f \in TopFlags : ((y % 16) + f) % 16 = y % 16
  BY SMT DEF TopFlags

LEMMA HighMask ==
    ASSUME NEW x, Ten(x), NEW f \in TopFlags
    PROVE  ((x \div 16) + f) % 64 = x \div 16
<1> DEFINE z == x \div 16
<1>1. z \in Int /\ 0 <= z /\ z < 64
  BY SMT DEF Ten
<1>. HIDE DEF z
<1>2. (z + f) % 64 = z
  BY <1>1, SMT DEF TopFlags
<1>. QED BY <1>2 DEF z

\* Two registers, the low one read with b and the high one with a, are put together
\* as the parts of the two measurements.
LEMMA Decoded ==
    ASSUME NEW what \in Light, NEW a \in Words, NEW b \in Words,
           NEW low \in LowFlags(what), NEW high \in HighFlags(what)
    PROVE  Decode(what, (Measured(what, b) % LowBits(what)) + low,
                        (Measured(what, a) \div LowBits(what)) + high)
             = Halves(what, a, b)
<1> DEFINE x == a % 1024
           y == b % 1024
<1>1. a \in Int /\ b \in Int
  BY WordsAreInts
<1>2. Ten(x) /\ Ten(y)
  BY <1>1, TenBits
<1>3. x \in Int /\ y \in Int
  BY <1>2 DEF Ten
<1>. HIDE DEF x, y
<1>4. CASE what = "ir"
  <2>1. Measured(what, a) = x /\ Measured(what, b) = y /\ LowBits(what) = 4
    BY <1>4 DEF Measured, LowBits, x, y
  <2>2. low \in {0, 128} /\ high = 0
    BY <1>4 DEF LowFlags, HighFlags
  <2>3. ((y % 4) + low) % 4 = y % 4
    BY <1>3, <2>2, LowMask
  <2>4. (x \div 4) + high = x \div 4
    BY <1>3, <2>2
  <2>5. Decode(what, (y % 4) + low, (x \div 4) + high)
          = << ((x \div 4) + high) * 4 + (((y % 4) + low) % 4) >>
    BY <1>4 DEF Decode
  <2>6. Halves(what, a, b) = << (x \div 4) * 4 + (y % 4) >>
    BY <2>1 DEF Halves
  <2>. QED BY <2>1, <2>3, <2>4, <2>5, <2>6
<1>5. CASE what = "als"
  <2>1. Measured(what, a) = a /\ Measured(what, b) = b /\ LowBits(what) = 256
    BY <1>5 DEF Measured, LowBits
  <2>2. low = 0 /\ high = 0
    BY <1>5 DEF LowFlags, HighFlags
  <2>3. (b % 256) + low = b % 256 /\ (a \div 256) + high = a \div 256
    BY <1>1, <2>2
  <2>4. Decode(what, (b % 256) + low, (a \div 256) + high)
          = << ((a \div 256) + high) * 256 + ((b % 256) + low) >>
    BY <1>5 DEF Decode
  <2>5. Halves(what, a, b) = << (a \div 256) * 256 + (b % 256) >>
    BY <2>1 DEF Halves
  <2>. QED BY <2>1, <2>3, <2>4, <2>5
<1>6. CASE what = "ps"
  <2>1. Measured(what, a) = x /\ Measured(what, b) = y /\ LowBits(what) = 16
    BY <1>6 DEF Measured, LowBits, x, y
  <2>2. low \in TopFlags /\ high \in TopFlags
    BY <1>6 DEF LowFlags, HighFlags
  <2>3. ((y % 16) + low) % 16 = y % 16
    BY <1>3, <2>2, LowMask
  <2>4. ((x \div 16) + high) % 64 = x \div 16
    BY <1>2, <2>2, HighMask
  <2>5. Decode(what, (y % 16) + low, (x \div 16) + high)
          = << (((x \div 16) + high) % 64) * 16 + (((y % 16) + low) % 16) >>
    BY <1>6 DEF Decode
  <2>6. Halves(what, a, b) = << (x \div 16) * 16 + (y % 16) >>
    BY <2>1 DEF Halves
  <2>. QED BY <2>1, <2>3, <2>4, <2>5, <2>6
<1>. QED BY <1>4, <1>5, <1>6 DEF Light

-----------------------------------------------------------------------------
\* Taking the sign off again.
LEMMA Unsigned == ASSUME NEW u, Word(u) PROVE Wrap(Signed(u)) = u
  BY SMT DEF Word, Wrap, Signed

\* Wrapping to 16 bits leaves the low byte alone.
LEMMA SameLowByte == ASSUME NEW u, Word(u) PROVE Signed(u) % 256 = u % 256
<1>1. u \in Int /\ (u - 65536) % 256 = u % 256
  BY SMT DEF Word
<1>. QED BY <1>1 DEF Signed

\* The two bytes of a number make it up.
LEMMA BytesMeet == ASSUME NEW u, Word(u) PROVE Short(Bytes(Signed(u))) = u
<1>1. Bytes(Signed(u)) = << u \div 256, u % 256 >>
  BY Unsigned, SameLowByte DEF Bytes
<1>2. (u \div 256) * 256 + (u % 256) = u
  BY SMT DEF Word
<1>. QED BY <1>1, <1>2 DEF Short

LEMMA ChannelRead ==
    ASSUME NEW m \in Int, NEW c \in Int
    PROVE  /\ Short(Bytes(Channel(m, c))) = Wrap(Channel(m, c))
           /\ Signed(Short(Bytes(Channel(m, c)))) = Channel(m, c)
<1> DEFINE u == Wrap(m + c)
<1>1. Word(u) /\ Channel(m, c) = Signed(u)
  BY Channelled
<1>. HIDE DEF u
<1>2. Short(Bytes(Signed(u))) = u /\ Wrap(Signed(u)) = u
  BY <1>1, BytesMeet, Unsigned
<1>. QED BY <1>1, <1>2

LEMMA TempRead ==
    ASSUME NEW m \in Int
    PROVE  read_temp_data(Bytes(Channel(m, Temp))) = Shown(m)
<1>1. Temp \in Int
  BY DEF Temp
<1>2. Short(Bytes(Channel(m, Temp))) = Wrap(Channel(m, Temp))
  BY <1>1, ChannelRead
<1>. QED BY <1>2 DEF read_temp_data, Shown

LEMMA DataRead ==
    ASSUME NEW m \in Int
    PROVE  readdata(m) = InAppOrder(m)
<1>1. \A i \in 1..7 : Order[i] \in Int
  BY DEF Order, Temp
<1>2. \A i \in 1..7 : Signed(Short(Bytes(Channel(m, Order[i])))) = Channel(m, Order[i])
  BY <1>1, ChannelRead
<1>3. readdata(m) = [i \in 1..7 |-> Channel(m, Order[i])]
  BY <1>2 DEF readdata
<1>4. [i \in 1..7 |-> Channel(m, Order[i])] = InAppOrder(m)
  BY DEF InAppOrder, Order, Temp
<1>. QED BY <1>3, <1>4

-----------------------------------------------------------------------------
(* The invariant.                                                          *)

LEMMA MeasuresAreWords == Measures \subseteq Words
  BY MeasuresAssumption

LEMMA MeasuresAreInts == ASSUME NEW m \in Measures PROVE m \in Int
<1>1. m \in Words
  BY MeasuresAreWords
<1>. QED BY <1>1, WordsAreInts

\* The request of one user changes, and the measurement does not.
LEMMA OneRequest ==
    ASSUME UseInv, NEW u \in Users, NEW r \in Fields, Good(now, r),
           request' = [request EXCEPT ![u] = r], UNCHANGED now
    PROVE  UseInv'
<1>1. request' \in [Users -> Fields]
  BY DEF UseInv
<1>2. ASSUME NEW v \in Users PROVE Good(now, request'[v])
  BY DEF UseInv
<1>. QED BY <1>1, <1>2 DEF UseInv

\* What the drivers answer is a sequence of integers.
LEMMA HalvesType ==
    ASSUME NEW what \in Light, NEW a \in Words, NEW b \in Words
    PROVE  Halves(what, a, b) \in Seq(Int)
<1>1. a \in Int /\ b \in Int
  BY WordsAreInts
<1>2. Measured(what, a) \in Int /\ Measured(what, b) \in Int
  BY <1>1, SMT DEF Measured
<1>3. LowBits(what) \in {4, 16, 256}
  BY DEF LowBits, Light
<1>. QED BY <1>2, <1>3, SMT DEF Halves

LEMMA ChannelType == ASSUME NEW m \in Int, NEW c \in Int PROVE Channel(m, c) \in Int
<1>1. Word(Wrap(m + c)) /\ Channel(m, c) = Signed(Wrap(m + c))
  BY Channelled
<1>2. \A u : Word(u) => Signed(u) \in Int
  BY SMT DEF Word, Signed
<1>. QED BY <1>1, <1>2

LEMMA ShownType == ASSUME NEW m \in Int PROVE Shown(m) \in Seq(Int)
<1>1. Channel(m, Temp) \in Int
  BY ChannelType DEF Temp
<1>2. Wrap(Channel(m, Temp)) \in Int
  BY <1>1, SMT DEF Wrap
<1>. QED BY <1>2 DEF Shown

LEMMA OrderType == ASSUME NEW m \in Int PROVE InAppOrder(m) \in Seq(Int)
<1>1. \A c \in 1..7 : Channel(m, c) \in Int
  BY ChannelType
<1>. QED BY <1>1 DEF InAppOrder

\* An answer that agrees with what was measured, or that reports an error.
LEMMA Answered ==
    ASSUME UseInv, NEW u \in Users, Asking(u),
           NEW ret \in {0, Failed}, NEW data \in Seq(Int),
           ret = 0 => True(request[u].what, request[u].seen, data),
           data = Unset \/ True(request[u].what, request[u].seen, data),
           Answer(u, ret, data), UNCHANGED now
    PROVE  UseInv'
<1>1. request[u] \in Fields
  BY DEF UseInv
<1>4. request[u].data = Unset
  BY DEF UseInv, Good, Asking
<1>2. CASE request' = [request EXCEPT ![u].at = "done", ![u].ret = ret, ![u].data = data]
  <2> DEFINE r == [request[u] EXCEPT !.at = "done", !.ret = ret, !.data = data]
  <2>1. r \in Fields
    BY <1>1 DEF Fields, Places
  <2>2. r.at = "done" /\ r.ret = ret
    BY <1>1 DEF Fields
  <2>3. r.what = request[u].what /\ r.seen = request[u].seen /\ r.data = data
    BY <1>1 DEF Fields
  <2>4. Good(now, r)
    BY <2>2, <2>3 DEF Good
  <2>5. request' = [request EXCEPT ![u] = r]
    BY <1>1, <1>2 DEF UseInv
  <2>. QED BY <2>1, <2>4, <2>5, OneRequest
<1>3. CASE /\ u = "file"
           /\ request' = [request EXCEPT ![u].at = "done",
                  ![u].ret = IF request[u].what = "all" THEN 0 ELSE Failed]
  <2> DEFINE r == [request[u] EXCEPT !.at = "done",
                      !.ret = IF request[u].what = "all" THEN 0 ELSE Failed]
  <2>1. r \in Fields
    BY <1>1, ZenonT(40) DEF Fields, Places
  <2>2. r.at = "done" /\ r.what = request[u].what /\ r.data = Unset
    BY <1>1, <1>4 DEF Fields
  <2>3. r.ret = 0 => r.what = "all"
    BY <1>1 DEF Fields, Failed
  <2>4. Good(now, r)
    BY <2>2, <2>3 DEF Good, True
  <2>5. request' = [request EXCEPT ![u] = r]
    BY <1>1, <1>3 DEF UseInv
  <2>. QED BY <2>1, <2>4, <2>5, OneRequest
<1>. QED BY <1>2, <1>3 DEF Answer

LEMMA IdleGood == Idle \in Fields /\ \A n : Good(n, Idle)
  BY DEF Idle, Fields, Places, Whats, Unset, Good

LEMMA InitUseInv == InitUse => UseInv
  BY IdleGood DEF InitUse, UseInv

\* The steps of the sensor and of the user.

LEMMA MeasureInv == UseInv /\ Measure => UseInv'
<1> SUFFICES ASSUME UseInv, Measure PROVE UseInv'
  OBVIOUS
<1>1. PICK m \in Measures :
        /\ now' = m
        /\ request' = [u \in Users |->
                          IF Asking(u) THEN [request[u] EXCEPT !.seen = @ \cup {m}]
                          ELSE request[u]]
  BY DEF Measure
<1>2. ASSUME NEW u \in Users PROVE request'[u] \in Fields /\ Good(m, request'[u])
  <2>1. request[u] \in Fields /\ Good(now, request[u])
    BY DEF UseInv
  <2>2. CASE ~Asking(u)
    <3>1. request'[u] = request[u]
      BY <1>1, <2>2
    <3>. QED BY <2>1, <2>2, <3>1 DEF Good, Asking
  <2>3. CASE Asking(u)
    <3> DEFINE r == [request[u] EXCEPT !.seen = @ \cup {m}]
    <3>1. request'[u] = r
      BY <1>1, <2>3
    <3>2. r \in Fields
      BY <2>1 DEF Fields
    <3>3. r.at = request[u].at /\ r.what = request[u].what /\ r.low = request[u].low
      BY <2>1 DEF Fields
    <3>4. r.seen = request[u].seen \cup {m} /\ r.data = request[u].data
      BY <2>1 DEF Fields
    <3>5. LowMeasured(request[u]) => LowMeasured(r)
      BY <3>3, <3>4 DEF LowMeasured
    <3>6. r.at # "done" /\ request[u].data = Unset
      BY <2>1, <2>3, <3>3 DEF Asking, Good
    <3>7. Good(m, r)
      BY <2>1, <3>3, <3>4, <3>5, <3>6 DEF Good
    <3>. QED BY <3>1, <3>2, <3>7
  <2>. QED BY <2>2, <2>3
<1>3. request' \in [Users -> Fields]
  BY <1>1, <1>2
<1>. QED BY <1>1, <1>2, <1>3 DEF UseInv

LEMMA AskInv == ASSUME NEW u \in Users PROVE UseInv /\ Ask(u) => UseInv'
<1> SUFFICES ASSUME UseInv, Ask(u) PROVE UseInv'
  OBVIOUS
<1>1. PICK what \in Offers(u) \ {"other"} :
        request' = [request EXCEPT
            ![u] = [Idle EXCEPT !.at = FirstTransfer(what), !.what = what, !.seen = {now}]]
  BY DEF Ask
<1> DEFINE r == [Idle EXCEPT !.at = FirstTransfer(what), !.what = what, !.seen = {now}]
<1>2. what \in Light \cup Motion
  BY DEF Offers, Light, Motion
<1>3. FirstTransfer(what) \in Places \ {"done", "high"}
  BY <1>2 DEF FirstTransfer, Places
<1>4. r \in Fields
  BY <1>2, <1>3, IdleGood, ZenonT(40) DEF UseInv, Fields, Whats
<1>5. r.at = FirstTransfer(what) /\ r.what = what /\ r.seen = {now} /\ r.data = Unset
  BY DEF Idle
<1>6. r.at = "low" => what \in Light
  BY <1>2, <1>5 DEF FirstTransfer
<1>7. r.at = "burst" => what \in Motion
  BY <1>2, <1>5 DEF FirstTransfer
<1>8. Good(now, r)
  BY <1>3, <1>5, <1>6, <1>7 DEF Good
<1>. QED BY <1>1, <1>4, <1>8, OneRequest DEF Ask

LEMMA AskOtherInv == UseInv /\ AskOther => UseInv'
<1> SUFFICES ASSUME UseInv, AskOther PROVE UseInv'
  OBVIOUS
<1> DEFINE r == [Idle EXCEPT !.at = "done", !.what = "other", !.ret = Failed]
<1>1. request' = [request EXCEPT !["file"] = r] /\ UNCHANGED now
  BY DEF AskOther
<1>2. r \in Fields
  BY IdleGood DEF Fields, Places, Whats
<1>3. r.at = "done" /\ r.ret # 0 /\ r.data = Unset
  BY DEF Idle, Failed
<1>4. Good(now, r)
  BY <1>3 DEF Good
<1>. QED BY <1>1, <1>2, <1>4, OneRequest DEF Users

LEMMA ReadLowInv == ASSUME NEW u \in Users PROVE UseInv /\ ReadLow(u) => UseInv'
<1> SUFFICES ASSUME UseInv, ReadLow(u) PROVE UseInv'
  OBVIOUS
<1> DEFINE what == request[u].what
<1>1. PICK flags \in LowFlags(what) :
        request' = [request EXCEPT
            ![u].at = "high",
            ![u].low = (Measured(what, now) % LowBits(what)) + flags]
  BY DEF ReadLow
<1> DEFINE low == (Measured(what, now) % LowBits(what)) + flags
           r   == [request[u] EXCEPT !.at = "high", !.low = low]
<1>2. request[u] \in Fields /\ Good(now, request[u]) /\ request[u].at = "low"
  BY DEF UseInv, ReadLow
<1>3. what \in Light /\ now \in request[u].seen /\ request[u].data = Unset
  BY <1>2 DEF Good
<1>4. now \in Words
  BY MeasuresAreWords DEF UseInv
<1>5. low \in 0..255
  BY <1>3, <1>4, LowByteRange
<1>. HIDE DEF low
<1>6. request' = [request EXCEPT ![u] = r] /\ UNCHANGED now
  BY <1>1, <1>2 DEF UseInv, ReadLow, low
<1>7. r \in Fields
  BY <1>2, <1>5 DEF Fields, Places
<1>8. r.at = "high" /\ r.what = what /\ r.low = low
  BY <1>2 DEF Fields
<1>9. r.seen = request[u].seen /\ r.data = Unset
  BY <1>2, <1>3 DEF Fields
<1>10. LowMeasured(r)
  BY <1>3, <1>8, <1>9 DEF LowMeasured, low
<1>11. Good(now, r)
  BY <1>3, <1>8, <1>9, <1>10 DEF Good
<1>. QED BY <1>6, <1>7, <1>11, OneRequest

LEMMA ReadHighInv == ASSUME NEW u \in Users PROVE UseInv /\ ReadHigh(u) => UseInv'
<1> SUFFICES ASSUME UseInv, ReadHigh(u) PROVE UseInv'
  OBVIOUS
<1> DEFINE what == request[u].what
           seen == request[u].seen
           low  == request[u].low
<1>1. request[u] \in Fields /\ Good(now, request[u]) /\ request[u].at = "high"
  BY DEF UseInv, ReadHigh
<1>2. what \in Light /\ now \in seen /\ LowMeasured(request[u]) /\ seen \subseteq Measures
  BY <1>1 DEF Good, Fields
<1>3. Asking(u) /\ UNCHANGED now
  BY <1>1 DEF Asking, ReadHigh
<1>4. PICK flags \in HighFlags(what) :
        LET high == (Measured(what, now) \div LowBits(what)) + flags
        IN  IF Overflown(what, low) THEN Answer(u, Failed, Unset)
            ELSE Answer(u, 0, Decode(what, low, high))
  BY DEF ReadHigh
<1> DEFINE high == (Measured(what, now) \div LowBits(what)) + flags
<1>5. CASE Overflown(what, low)
  <2>1. Answer(u, Failed, Unset)
    BY <1>4, <1>5
  <2>2. Unset \in Seq(Int) /\ Failed # 0
    BY DEF Unset, Failed
  <2>. QED BY <1>3, <2>1, <2>2, Answered
<1>6. CASE ~Overflown(what, low)
  <2>1. PICK b \in seen, f \in LowFlags(what) :
          low = (Measured(what, b) % LowBits(what)) + f
    BY <1>2 DEF LowMeasured
  <2>2. now \in Words /\ b \in Words
    BY <1>2, <2>1, MeasuresAreWords
  <2> DEFINE v == Decode(what, low, high)
  <2>3. v = Halves(what, now, b)
    BY <1>2, <2>1, <2>2, Decoded
  <2>4. v \in Seq(Int)
    BY <1>2, <2>2, <2>3, HalvesType
  <2>5. Answer(u, 0, v)
    BY <1>4, <1>6
  <2>. HIDE DEF v
  <2>6. True(what, seen, v)
    BY <1>2, <2>1, <2>3 DEF True
  <2>. QED BY <1>3, <2>4, <2>5, <2>6, Answered
<1>. QED BY <1>5, <1>6

LEMMA ReadFailsInv == ASSUME NEW u \in Users PROVE UseInv /\ ReadFails(u) => UseInv'
<1> SUFFICES ASSUME UseInv, ReadFails(u) PROVE UseInv'
  OBVIOUS
<1>1. Asking(u) /\ Answer(u, Failed, Unset) /\ UNCHANGED now
  BY DEF ReadFails, Asking
<1>2. Unset \in Seq(Int) /\ Failed # 0
  BY DEF Unset, Failed
<1>. QED BY <1>1, <1>2, Answered

LEMMA BurstInv == ASSUME NEW u \in Users PROVE UseInv /\ Burst(u) => UseInv'
<1> SUFFICES ASSUME UseInv, Burst(u) PROVE UseInv'
  OBVIOUS
<1> DEFINE what == request[u].what
           seen == request[u].seen
<1>1. Good(now, request[u]) /\ request[u].at = "burst"
  BY DEF UseInv, Burst
<1>2. what \in {"temp", "all"} /\ now \in seen
  BY <1>1 DEF Good, Motion
<1>3. Asking(u) /\ UNCHANGED now
  BY <1>1 DEF Asking, Burst
<1>4. now \in Int
  BY MeasuresAreInts DEF UseInv
<1>5. CASE what = "temp"
  <2>1. Answer(u, 0, Shown(now))
    BY <1>4, <1>5, TempRead DEF Burst
  <2>2. Shown(now) \in Seq(Int)
    BY <1>4, ShownType
  <2>3. True(what, seen, Shown(now))
    BY <1>2, <1>5 DEF True
  <2>. QED BY <1>3, <2>1, <2>2, <2>3, Answered
<1>6. CASE what = "all"
  <2>1. Answer(u, 0, InAppOrder(now))
    BY <1>4, <1>6, DataRead DEF Burst
  <2>2. InAppOrder(now) \in Seq(Int)
    BY <1>4, OrderType
  <2>3. True(what, seen, InAppOrder(now))
    BY <1>2, <1>6 DEF True
  <2>. QED BY <1>3, <2>1, <2>2, <2>3, Answered
<1>. QED BY <1>2, <1>5, <1>6

LEMMA BurstFailsInv == ASSUME NEW u \in Users PROVE UseInv /\ BurstFails(u) => UseInv'
<1> SUFFICES ASSUME UseInv, BurstFails(u) PROVE UseInv'
  OBVIOUS
<1> DEFINE ret == IF request[u].what = "temp" THEN Failed ELSE 0
<1>1. Good(now, request[u]) /\ request[u].at = "burst"
  BY DEF UseInv, BurstFails
<1>2. request[u].what \in {"temp", "all"}
  BY <1>1 DEF Good, Motion
<1>3. Asking(u) /\ Answer(u, ret, Unset) /\ UNCHANGED now
  BY <1>1 DEF Asking, BurstFails
<1>4. Unset \in Seq(Int) /\ Failed # 0
  BY DEF Unset, Failed
<1>5. ret \in {0, Failed} /\ (ret = 0 => True(request[u].what, request[u].seen, Unset))
  BY <1>2, <1>4 DEF True
<1>. HIDE DEF ret
<1>. QED BY <1>3, <1>4, <1>5, Answered

LEMMA ReturnInv == ASSUME NEW u \in Users PROVE UseInv /\ Return(u) => UseInv'
  BY IdleGood, OneRequest DEF Return

LEMMA LeftAlone == UseInv /\ UNCHANGED <<now, request>> => UseInv'
  BY DEF UseInv

LEMMA NextUseInv == UseInv /\ [NextUse]_usevars => UseInv'
<1> SUFFICES ASSUME UseInv, [NextUse]_usevars PROVE UseInv'
  OBVIOUS
<1>1. CASE LifeUse
  BY <1>1, LeftAlone DEF LifeUse
<1>2. CASE Measure
  BY <1>2, MeasureInv
<1>3. CASE AskOther
  BY <1>3, AskOtherInv
<1>4. ASSUME NEW u \in Users,
             \/ Ask(u) \/ ReadLow(u) \/ ReadHigh(u) \/ ReadFails(u)
             \/ Burst(u) \/ BurstFails(u) \/ Return(u)
      PROVE  UseInv'
  BY <1>4, AskInv, ReadLowInv, ReadHighInv, ReadFailsInv, BurstInv, BurstFailsInv, ReturnInv
<1>5. CASE UNCHANGED usevars
  BY <1>5, LeftAlone DEF usevars
<1>. QED BY <1>1, <1>2, <1>3, <1>4, <1>5 DEF NextUse, UseStep

LEMMA UseInvHolds == SpecUse => []UseInv
<1>. QED BY InitUseInv, NextUseInv, PTL DEF SpecUse

LEMMA SignedRange == ASSUME NEW u, Word(u) PROVE Signed(u) \in Shorts
  BY SMT DEF Word, Signed, Shorts

\* Halves of one measurement are all of it.
LEMMA WholeAgain ==
    ASSUME NEW what \in Light, NEW a \in Words
    PROVE  Halves(what, a, a) = << Measured(what, a) >>
<1>1. Measured(what, a) \in Int
  BY WordsAreInts, SMT DEF Measured
<1>2. LowBits(what) \in {4, 16, 256}
  BY DEF LowBits, Light
<1>3. \A x \in Int : /\ (x \div 4) * 4 + (x % 4) = x
                     /\ (x \div 16) * 16 + (x % 16) = x
                     /\ (x \div 256) * 256 + (x % 256) = x
  BY SMTT(20)
<1>. QED BY <1>1, <1>2, <1>3 DEF Halves

\* The sign is lost only where there is one.
LEMMA ShownAgain ==
    ASSUME NEW m \in Int, Channel(m, Temp) >= 0
    PROVE  Shown(m) = << Channel(m, Temp) >>
<1>1. Temp \in Int
  BY DEF Temp
<1>2. Channel(m, Temp) \in Shorts
  BY <1>1, Channelled, SignedRange
<1>3. Wrap(Channel(m, Temp)) = Channel(m, Temp)
  BY <1>2, SMT DEF Wrap, Shorts
<1>. QED BY <1>3 DEF Shown

\* AnswersTrue: whatever the sensors may measure, and however the requests meet the
\* measurements, the loads and the removals, an answer that reports no error carries
\* the value of a measurement that the request has seen: of the only one, for the light
\* sensor, of one that is not below zero, for the temperature (read_ir .. read_ps,
\* read_temp_data and readdata).
THEOREM AnswersAreTrue == SpecUse => []AnswersTrue
<1>1. ASSUME UseInv, NEW u \in Users,
             request[u].at = "done", request[u].ret = 0
      PROVE  LET r == request[u] IN
             /\ r.what # "all" => r.data # Unset
             /\ \A a \in Measures :
                   r.what \in Light /\ r.seen = {a} => r.data = << Measured(r.what, a) >>
             /\ r.what = "temp" /\ (\A a \in r.seen : Channel(a, Temp) >= 0)
                   => \E a \in r.seen : r.data = << Channel(a, Temp) >>
             /\ r.what = "all" /\ r.data # Unset => \E a \in r.seen : r.data = InAppOrder(a)
  <2> DEFINE what == request[u].what
             seen == request[u].seen
             data == request[u].data
  <2>1. True(what, seen, data) /\ seen \subseteq Measures
    BY <1>1 DEF UseInv, Good, Fields
  <2>2. \A a \in seen : a \in Words /\ a \in Int
    BY <2>1, MeasuresAreWords, MeasuresAreInts
  <2>. HIDE DEF what, seen, data
  <2>3. what # "all" => data # Unset
    BY <2>1 DEF True, Halves, Shown, Unset, Light
  <2>4. ASSUME NEW a \in Measures, what \in Light, seen = {a}
        PROVE  data = << Measured(what, a) >>
    <3>1. data = Halves(what, a, a)
      BY <2>1, <2>4 DEF True, Light
    <3>. QED BY <2>2, <2>4, <3>1, WholeAgain
  <2>5. ASSUME what = "temp", \A a \in seen : Channel(a, Temp) >= 0
        PROVE  \E a \in seen : data = << Channel(a, Temp) >>
    <3>1. PICK a \in seen : data = Shown(a)
      BY <2>1, <2>5 DEF True, Light
    <3>. QED BY <2>2, <2>5, <3>1, ShownAgain
  <2>6. what = "all" /\ data # Unset => \E a \in seen : data = InAppOrder(a)
    BY <2>1 DEF True, Light
  <2>. QED BY <2>3, <2>4, <2>5, <2>6 DEF what, seen, data
<1>2. UseInv => AnswersTrue
  BY <1>1 DEF AnswersTrue
<1>. QED BY <1>2, UseInvHolds, PTL

-----------------------------------------------------------------------------
(* The range of the answers.                                               *)

\* What UseTypeOK says of the values of an answer.
InRange(what, data) ==
    /\ data = Unset \/ Len(data) = IF what = "all" THEN 7 ELSE 1
    /\ \A i \in DOMAIN data : data[i] \in IF what = "all" THEN Shorts ELSE Words

LEMMA OneInRange == ASSUME NEW what, what # "all", NEW v, Word(v) PROVE InRange(what, << v >>)
<1>1. v \in Words
  BY WordsAreWords
<1>2. Len(<< v >>) = 1 /\ DOMAIN << v >> = {1} /\ << v >>[1] = v
  OBVIOUS
<1>. QED BY <1>1, <1>2 DEF InRange

LEMMA HalvesInRange ==
    ASSUME NEW what \in Light, NEW a \in Words, NEW b \in Words
    PROVE  InRange(what, Halves(what, a, b))
<1> DEFINE x == a % 1024
           y == b % 1024
<1>1. Word(a) /\ Word(b)
  BY WordsAreWords
<1>2. Ten(x) /\ Ten(y)
  BY <1>1, TenBits DEF Word
<1>. HIDE DEF x, y
<1>3. what # "all"
  BY DEF Light
<1>4. CASE what = "ir"
  <2>1. Measured(what, a) = x /\ Measured(what, b) = y /\ LowBits(what) = 4
    BY <1>4 DEF Measured, LowBits, x, y
  <2>2. Halves(what, a, b) = << (x \div 4) * 4 + (y % 4) >>
    BY <2>1 DEF Halves
  <2>3. Word((x \div 4) * 4 + (y % 4))
    BY <1>2, SMT DEF Word, Ten
  <2>. QED BY <1>3, <2>2, <2>3, OneInRange
<1>5. CASE what = "als"
  <2>1. Measured(what, a) = a /\ Measured(what, b) = b /\ LowBits(what) = 256
    BY <1>5 DEF Measured, LowBits
  <2>2. Halves(what, a, b) = << (a \div 256) * 256 + (b % 256) >>
    BY <2>1 DEF Halves
  <2>3. Word((a \div 256) * 256 + (b % 256))
    BY <1>1, SMT DEF Word
  <2>. QED BY <1>3, <2>2, <2>3, OneInRange
<1>6. CASE what = "ps"
  <2>1. Measured(what, a) = x /\ Measured(what, b) = y /\ LowBits(what) = 16
    BY <1>6 DEF Measured, LowBits, x, y
  <2>2. Halves(what, a, b) = << (x \div 16) * 16 + (y % 16) >>
    BY <2>1 DEF Halves
  <2>3. Word((x \div 16) * 16 + (y % 16))
    BY <1>2, SMT DEF Word, Ten
  <2>. QED BY <1>3, <2>2, <2>3, OneInRange
<1>. QED BY <1>4, <1>5, <1>6 DEF Light

LEMMA ShownInRange == ASSUME NEW m \in Int PROVE InRange("temp", Shown(m))
<1>1. Channel(m, Temp) \in Int
  BY ChannelType DEF Temp
<1>2. Word(Wrap(Channel(m, Temp)))
  BY <1>1, Wrapped
<1>3. "temp" # "all"
  OBVIOUS
<1>. QED BY <1>2, <1>3, OneInRange DEF Shown

LEMMA OrderInRange == ASSUME NEW m \in Int PROVE InRange("all", InAppOrder(m))
<1>1. ASSUME NEW c \in Int PROVE Channel(m, c) \in Shorts
  BY Channelled, SignedRange
<1>2. \A c \in 1..7 : Channel(m, c) \in Shorts
  BY <1>1
<1> DEFINE data == InAppOrder(m)
<1>3. Len(data) = 7 /\ DOMAIN data = 1..7
  BY DEF InAppOrder
<1>4. \A i \in 1..7 : data[i] \in Shorts
  BY <1>2 DEF InAppOrder
<1>. HIDE DEF data
<1>5. InRange("all", data)
  BY <1>3, <1>4 DEF InRange
<1>. QED BY <1>5 DEF data

LEMMA TrueInRange ==
    ASSUME NEW what, NEW seen \in SUBSET Measures, NEW data, True(what, seen, data)
    PROVE  InRange(what, data)
<1>1. \A a \in seen : a \in Words /\ a \in Int
  BY MeasuresAreWords, MeasuresAreInts
<1>2. InRange(what, Unset)
  BY DEF InRange, Unset
<1>. QED BY <1>1, <1>2, HalvesInRange, ShownInRange, OrderInRange DEF True

\* UseTypeOK: the requests keep their shape, and every answer the number of values and
\* the range of its kind, whatever the sensors may measure.
THEOREM UseTypeCorrect == SpecUse => []UseTypeOK
<1>1. ASSUME UseInv, NEW u \in Users
      PROVE  /\ request[u] \in Fields
             /\ InRange(request[u].what, request[u].data)
  <2>1. request[u] \in Fields /\ Good(now, request[u])
    BY <1>1 DEF UseInv
  <2>2. request[u].seen \in SUBSET Measures
    BY <2>1 DEF Fields
  <2>3. InRange(request[u].what, Unset)
    BY DEF InRange, Unset
  <2>. QED BY <2>1, <2>2, <2>3, TrueInRange DEF Good
<1>2. UseInv => UseTypeOK
  <2> SUFFICES ASSUME UseInv PROVE UseTypeOK
    OBVIOUS
  <2>1. ASSUME NEW u \in Users
        PROVE  /\ request[u].at \in Places
               /\ request[u].what \in Whats
               /\ request[u].seen \subseteq Measures
               /\ request[u].low \in 0..255
               /\ request[u].ret \in {0, Failed}
    BY <1>1, SMTT(20) DEF Fields
  <2>2. now \in Measures
    BY DEF UseInv
  <2>. QED BY <1>1, <2>1, <2>2 DEF UseTypeOK, Places, Whats, InRange
<1>. QED BY <1>2, UseInvHolds, PTL

-----------------------------------------------------------------------------
(* The polled key.                                                         *)

\* Files are opened and closed one at a time.
LEMMA FilesStep ==
    ASSUME TypeOK, Next
    PROVE  /\ name' = name
           /\ files \in Nat
           /\ files' \in {files, files + 1, files - 1}
           /\ files' = files - 1 => files > 0
<1>1. files \in Nat
  BY MaxFilesAssumption DEF TypeOK
<1>2. name' = name
  BY DEF Next, StepDone, StepUnnoticed, StepFailed, StepDrops, Loaded, Unload, Undo, UndoManaged,
         Gone, Open, Close, Interrupt, Tasklet, TimerFires
<1>3. files' = files \/ Open \/ Close
  BY DEF Next, StepDone, StepUnnoticed, StepFailed, StepDrops, Loaded, Unload, Undo, UndoManaged,
         Gone, Interrupt, Tasklet, TimerFires
<1>. QED BY <1>1, <1>2, <1>3 DEF Open, Close

LEMMA InitKeyInv == ASSUME Init, InitKey PROVE KeyInv
<1>1. read \in [Readers -> Reads] /\ \A r \in Readers : read[r].at = "idle"
  BY DEF InitKey, NoRead, Reads, Values, INVALKEY
<1>2. gpio = FALSE /\ files = 0
  BY DEF Init, InitKey
<1>3. ~(files > 0) /\ files <= 1
  BY <1>2
<1>4. gpio = (name = "key" /\ files > 0)
  BY <1>2, <1>3, Zenon
<1>. QED BY <1>1, <1>3, <1>4 DEF InitKey, KeyInv, KeyTypeOK, KeyAnswers, Reads, Values, INVALKEY

LEMMA KeyFollowsInv == ASSUME KeyInv, TypeOK, Next, KeyFollows PROVE KeyInv'
<1>1. /\ name' = name
      /\ files \in Nat
      /\ files' \in {files, files + 1, files - 1}
      /\ files' = files - 1 => files > 0
  BY FilesStep
<1>2. UNCHANGED <<line, keyvalue, read>>
  BY DEF KeyFollows
<1>3. gpio = (name = "key" /\ files > 0) /\ (name = "key" => files <= 1)
  BY DEF KeyInv, KeyTypeOK
<1>4. gpio' = (name' = "key" /\ files' > 0) /\ (name' = "key" => files' <= 1)
  <2>1. CASE name = "key" /\ files' > files /\ KeyOpens
    <3>1. ~gpio /\ gpio' = TRUE
      BY <2>1 DEF KeyOpens
    <3>2. ~(files > 0)
      BY <1>3, <2>1, <3>1, Zenon
    <3>3. files' > 0 /\ files' <= 1
      BY <1>1, <2>1, <3>2
    <3>. QED BY <1>1, <2>1, <3>1, <3>3, Zenon
  <2>2. CASE name = "key" /\ files' < files /\ KeyCloses
    <3>1. gpio' = FALSE
      BY <2>2 DEF KeyCloses
    <3>2. ~(files' > 0) /\ files' <= 1
      BY <1>1, <1>3, <2>2
    <3>. QED BY <3>1, <3>2, Zenon
  <2>3. CASE (name = "key" => files' = files) /\ gpio' = gpio
    BY <1>1, <1>3, <2>3, Zenon
  <2>. QED BY <2>1, <2>2, <2>3 DEF KeyFollows
<1>. QED BY <1>2, <1>4 DEF KeyInv, KeyTypeOK, KeyAnswers

\* A read stores what it has found.
LEMMA StoreInv ==
    ASSUME KeyInv, NEW r \in Readers, NEW v \in Values, Store(r, v)
    PROVE  KeyInv'
<1>1. /\ read \in [Readers -> Reads]
      /\ UNCHANGED <<name, files, line, gpio>> /\ keyvalue' = v
      /\ read' = [s \in Readers |->
                     IF s = r THEN [read[r] EXCEPT !.at = "take", !.seen = @ \cup {v}]
                     ELSE IF Reading(s) THEN [read[s] EXCEPT !.seen = @ \cup {v}]
                     ELSE read[s]]
  BY DEF KeyInv, KeyTypeOK, Store, Stored, Reads, vars
<1>2. ASSUME NEW s \in Readers
      PROVE  /\ read'[s] \in Reads
             /\ read'[s].at = "take" => v \in read'[s].seen
             /\ read'[s].at = "done" => read'[s].value \in read'[s].seen
  <2>1. read[s] \in Reads
    BY <1>1
  <2>2. CASE s = r
    <3>1. read'[s] = [read[s] EXCEPT !.at = "take", !.seen = @ \cup {v}]
      BY <1>1, <2>2
    <3>2. /\ read'[s].at = "take" /\ read'[s].value = read[s].value
          /\ read'[s].seen = read[s].seen \cup {v}
      BY <2>1, <3>1 DEF Reads
    <3>3. read'[s] = [at |-> "take", value |-> read[s].value, seen |-> read[s].seen \cup {v}]
      BY <2>1, <3>1 DEF Reads
    <3>4. read'[s] \in Reads
      BY <2>1, <3>3 DEF Reads
    <3>. QED BY <3>2, <3>4
  <2>3. CASE s # r /\ Reading(s)
    <3>1. read'[s] = [read[s] EXCEPT !.seen = @ \cup {v}]
      BY <1>1, <2>3
    <3>. QED BY <2>1, <2>3, <3>1 DEF Reads, Reading
  <2>4. CASE s # r /\ ~Reading(s)
    <3>1. read'[s] = read[s]
      BY <1>1, <2>4
    <3>. QED BY <2>1, <2>4, <3>1 DEF Reading, KeyInv, KeyAnswers
  <2>. QED BY <2>2, <2>3, <2>4
<1>3. read' \in [Readers -> Reads]
  BY <1>1, <1>2
<1>. QED BY <1>1, <1>2, <1>3 DEF KeyInv, KeyTypeOK, KeyAnswers, Reads

LEMMA KeyStepInv == ASSUME KeyInv, KeyStep PROVE KeyInv'
<1>1. read \in [Readers -> Reads]
  BY DEF KeyInv, KeyTypeOK, Reads
<1>2. CASE PressOrLetGo
  BY <1>2 DEF PressOrLetGo, KeyInv, KeyTypeOK, KeyAnswers, vars
<1>3. ASSUME NEW r \in Readers, NEW e \in Reads, read' = [read EXCEPT ![r] = e],
             e.at # "take", e.at = "done" => e.value \in e.seen,
             UNCHANGED <<name, files, line, gpio, keyvalue>>
      PROVE  KeyInv'
  <2>1. read' \in [Readers -> Reads]
    BY <1>1, <1>3
  <2>2. ASSUME NEW s \in Readers
        PROVE  /\ read'[s].at = "take" => keyvalue \in read'[s].seen
               /\ read'[s].at = "done" => read'[s].value \in read'[s].seen
    BY <1>1, <1>3 DEF KeyInv, KeyAnswers
  <2>. QED BY <1>3, <2>1, <2>2 DEF KeyInv, KeyTypeOK, KeyAnswers, Reads
<1>4. ASSUME NEW r \in Readers, KeyRead(r) \/ FindsDown(r) PROVE KeyInv'
  <2>1. PICK a \in {"look", "spin"} : read' = [read EXCEPT ![r].at = a]
    BY <1>4 DEF KeyRead, FindsDown
  <2> DEFINE e == [read[r] EXCEPT !.at = a]
  <2>2. e \in Reads /\ e.at \in {"look", "spin"}
    BY <1>1 DEF Reads
  <2>3. read' = [read EXCEPT ![r] = e]
    BY <1>1, <2>1
  <2>4. UNCHANGED <<name, files, line, gpio, keyvalue>>
    BY <1>4 DEF KeyRead, FindsDown, vars
  <2>. HIDE DEF e
  <2>. QED BY <1>3, <2>2, <2>3, <2>4
<1>5. ASSUME NEW r \in Readers, FindsUp(r) \/ FindsLetGo(r) PROVE KeyInv'
  BY <1>5, StoreInv DEF FindsUp, FindsLetGo, Values
<1>6. ASSUME NEW r \in Readers, Take(r) PROVE KeyInv'
  <2> DEFINE e == [read[r] EXCEPT !.at = "done", !.value = keyvalue]
  <2>1. read[r].at = "take" /\ UNCHANGED <<name, files, line, gpio, keyvalue>>
    BY <1>6 DEF Take, vars
  <2>2. e \in Reads /\ e.at = "done" /\ e.value = keyvalue /\ e.seen = read[r].seen
    BY <1>1 DEF Reads, KeyInv, KeyTypeOK
  <2>3. read' = [read EXCEPT ![r] = e]
    BY <1>1, <1>6 DEF Take
  <2>. HIDE DEF e
  <2>. QED BY <1>3, <2>1, <2>2, <2>3 DEF KeyInv
<1>7. ASSUME NEW r \in Readers, KeyReturn(r) PROVE KeyInv'
  <2>1. NoRead \in Reads /\ NoRead.at = "idle"
    BY DEF NoRead, Reads, Values, INVALKEY
  <2>2. read' = [read EXCEPT ![r] = NoRead] /\ UNCHANGED <<name, files, line, gpio, keyvalue>>
    BY <1>7 DEF KeyReturn, vars
  <2>. QED BY <1>3, <2>1, <2>2
<1>. QED BY <1>2, <1>4, <1>5, <1>6, <1>7 DEF KeyStep

LEMMA KeyKept == KeyInv /\ UNCHANGED <<vars, keyvars>> => KeyInv'
  BY DEF KeyInv, KeyTypeOK, KeyAnswers, vars, keyvars

-----------------------------------------------------------------------------
(* The input key.                                                          *)

\* What a step of the input key's driver does to the pipeline.
LEMMA PipelineStep ==
    ASSUME TypeOK, WellFormed(name, driver), Next, name = "keyinput",
           pc' \in {"load", "live"}
    PROVE  /\ pc \in {"load", "live"} /\ (late => late')
           /\ held \subseteq held'
           /\ Interrupt \/ (tasklet => tasklet') \/ Tasklet
           /\ Interrupt => tasklet'
           /\ Tasklet => pending'
           /\ (pending => pending') \/ TimerFires
<1>1. ~driver.thread
  BY DEF driver, Table, keyinput, Driver
<1>2. (Interrupt => tasklet') /\ (Tasklet => pending')
  BY <1>1 DEF Interrupt, Tasklet
<1>3. CASE StepDrops
  <2>1. step.gets = {}
    BY <1>3 DEF StepDrops, Loading, TypeOK, WellFormed, Shape, step, Again
  <2>2. held' = held /\ pending' = pending
    BY <1>3, <2>1 DEF StepDrops, Release, TypeOK
  <2>. QED BY <1>2, <1>3, <2>2 DEF StepDrops, Loading
<1>4. CASE StepDone \/ StepUnnoticed \/ Loaded \/ Open \/ Close
  <2>1. pc \in {"load", "live"}
    BY <1>4 DEF StepDone, StepUnnoticed, Loading, Loaded, Open, Close
  <2>2. UNCHANGED <<tasklet, pending, late>> /\ held \subseteq held'
    BY <1>4 DEF StepDone, StepUnnoticed, Loaded, Open, Close
  <2>. QED BY <1>2, <2>1, <2>2
<1>5. CASE Interrupt \/ Tasklet \/ TimerFires
  <2>1. UNCHANGED <<pc, held>>
    BY <1>5 DEF Interrupt, Tasklet, TimerFires
  <2>4. late => late'
    BY <1>5, Zenon DEF Interrupt, Tasklet, TimerFires
  <2>2. (tasklet => tasklet') \/ Interrupt \/ Tasklet
    BY <1>5 DEF TimerFires
  <2>3. (pending => pending') \/ TimerFires
    BY <1>5 DEF Interrupt, Tasklet
  <2>. QED BY <1>2, <2>1, <2>2, <2>3, <2>4
<1>6. ~(StepFailed \/ Unload \/ Undo \/ UndoManaged \/ Gone)
  BY DEF StepFailed, Unload, Undo, UndoManaged, Gone
<1>. QED BY <1>3, <1>4, <1>5, <1>6 DEF Next

LEMMA InputFollowsInv ==
    ASSUME InputInv, TypeOK, WellFormed(name, driver), Next, InputFollows
    PROVE  InputInv'
<1>1. name' = name
  BY FilesStep
<1>2. /\ edge' = (edge /\ ~Interrupt /\ "irq" \in held')
      /\ reported' = IF name = "keyinput" /\ TimerFires THEN button ELSE reported
      /\ button' = button /\ heard' = heard
  BY DEF InputFollows, Report
<1>3. InputTypeOK'
  BY <1>1, <1>2 DEF InputInv, InputTypeOK
<1>4. ASSUME name' = "keyinput", pc' \in {"load", "live"}, ~late', heard'
      PROVE  reported' = button' \/ edge' \/ tasklet' \/ pending'
  <2>1. /\ pc \in {"load", "live"} /\ ~late
        /\ held \subseteq held'
        /\ Interrupt \/ (tasklet => tasklet') \/ Tasklet
        /\ Interrupt => tasklet'
        /\ Tasklet => pending'
        /\ (pending => pending') \/ TimerFires
    BY <1>1, <1>4, PipelineStep
  <2>2. reported = button \/ edge \/ tasklet \/ pending
    BY <1>1, <1>2, <1>4, <2>1 DEF InputInv
  <2>3. edge => "irq" \in held
    BY DEF InputInv, InputTypeOK
  <2>. QED BY <1>1, <1>2, <1>4, <2>1, <2>2, <2>3
<1>. QED BY <1>3, <1>4 DEF InputInv

LEMMA MoveKeyInv == ASSUME InputInv, MoveKey PROVE InputInv'
<1>1. /\ name = "keyinput" /\ UNCHANGED <<name, pc, held, tasklet, pending, late, reported>>
      /\ button' \in Moves
  BY DEF MoveKey, Moves, vars
<1>2. edge' = heard'
  BY DEF MoveKey
<1>3. edge' => "irq" \in held
  BY Zenon DEF MoveKey, Latched
<1>4. heard' \in BOOLEAN
  BY DEF MoveKey, Latched
<1>. QED BY <1>1, <1>2, <1>3, <1>4 DEF InputInv, InputTypeOK

LEMMA InputKept == InputInv /\ UNCHANGED <<vars, inputvars>> => InputInv'
  BY DEF InputInv, InputTypeOK, vars, inputvars

-----------------------------------------------------------------------------
(* All together.                                                           *)

LEMMA InitAllInv == InitAll => AllInv
<1> SUFFICES ASSUME InitAll PROVE AllInv
  OBVIOUS
<1>1. Init
  BY DEF InitAll, InitUse
<1>2. WellFormed(name, driver)
  BY <1>1, Formed DEF Init
<1>3. InputInv
  BY DEF InitAll, InitInput, InputInv, InputTypeOK, Moves
<1>. QED BY <1>1, <1>2, <1>3, InitLife, InitKeyInv DEF InitAll, AllInv

LEMMA NextAllInv == AllInv /\ [NextAll]_<<usevars, keyvars, inputvars>> => AllInv'
<1> SUFFICES ASSUME AllInv, [NextAll]_<<usevars, keyvars, inputvars>> PROVE AllInv'
  OBVIOUS
<1>1. TypeOK /\ WellFormed(name, driver)
  BY Formed DEF AllInv, LifeInv, TypeInv, TypeOK
<1>2. LifeInv'
  BY <1>1, AllNext, UseNext, NextLife DEF AllInv
<1>3. CASE LifeUse /\ KeyFollows /\ InputFollows
  BY <1>1, <1>2, <1>3, KeyFollowsInv, InputFollowsInv DEF LifeUse, AllInv
<1>4. CASE UseStep /\ UNCHANGED <<keyvars, inputvars>>
  BY <1>2, <1>4, UseStepKeeps, KeyKept, InputKept DEF AllInv
<1>5. CASE KeyStep /\ UNCHANGED <<now, request, inputvars>>
  BY <1>2, <1>5, KeyStepKeeps, KeyStepInv, InputKept DEF AllInv
<1>6. CASE MoveKey /\ UNCHANGED <<now, request, keyvars>>
  <2>1. UNCHANGED vars
    BY <1>6 DEF MoveKey
  <2>. QED BY <1>2, <1>6, <2>1, MoveKeyInv, KeyKept DEF AllInv
<1>7. CASE UNCHANGED <<usevars, keyvars, inputvars>>
  BY <1>2, <1>7, KeyKept, InputKept DEF AllInv, usevars
<1>. QED BY <1>3, <1>4, <1>5, <1>6, <1>7 DEF NextAll

LEMMA AllInvHolds == SpecAll => []AllInv
<1>. QED BY InitAllInv, NextAllInv, PTL DEF SpecAll

\* UsersTypeOK: the drivers keep their types and the requests their shape; an open file of the polled key has the
\* GPIO, and there is one file at most (gpiokey_parse and key_release); an edge of the
\* input key waits only for an interrupt that is requested.
THEOREM UsersTypeCorrect == SpecAll => []UsersTypeOK
<1>1. AllInv /\ UseTypeOK => UsersTypeOK
  BY DEF AllInv, LifeInv, TypeInv, KeyInv, InputInv, UsersTypeOK
<1>. QED BY <1>1, AllInvHolds, AllIsUse, UseTypeCorrect, PTL

\* KeyAnswers: a read of the polled key returns what it has found itself, or what a
\* read that overlaps it has, however many threads share the file.
THEOREM KeyAnswersTrue == SpecAll => []KeyAnswers
<1>1. AllInv => KeyAnswers
  BY DEF AllInv, KeyInv
<1>. QED BY <1>1, AllInvHolds, PTL

\* InputTold: once the key of keyinput.c has moved, the input core holds its level, or
\* what will tell it is on its way.
THEOREM InputIsTold == SpecAll => []InputTold
<1>1. AllInv => InputTold
  BY DEF AllInv, InputInv, InputTold
<1>. QED BY <1>1, AllInvHolds, PTL

\* The drivers with all their users have the properties of the drivers alone, and of
\* the drivers with the users of the sensors.
THEOREM TogetherSafe ==
    SpecAll => [](/\ TypeOK /\ NothingLeft /\ ReleasedOnce
                  /\ EntryReady /\ HandlersReady /\ QuietUnlessLate
                  /\ UsersTypeOK /\ AnswersTrue /\ KeyAnswers /\ InputTold)
<1>. QED
  BY AllIsUse, UseIsLife, LifeTypeCorrect, NothingIsLeft, NothingReleasedTwice,
     EntriesAreReady, HandlersAreReady, GoneIsQuiet, AnswersAreTrue,
     UsersTypeCorrect, KeyAnswersTrue, InputIsTold, PTL
=============================================================================
