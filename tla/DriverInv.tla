------------------------------ MODULE DriverInv ------------------------------
(***************************************************************************)
(* The inductive invariants behind the properties of DriverModule and of   *)
(* its users.  What a driver's life depends on in its table is stated      *)
(* first, of the table alone: with WellFormed, no property of DriverModule *)
(* asks which driver it is about.                                          *)
(***************************************************************************)
EXTENDS DriverUse

-----------------------------------------------------------------------------
(* What a table says.                                                      *)

\* What the first i - 1 steps of a load get, and what all of them do.
Before(d, i) == UNION {d.load[j].gets : j \in 1..i - 1}
Got(d)       == Before(d, Len(d.load) + 1)

\* What a driver may not notice that it did not get.
Doubtful(d) == UNION {d.load[j].gets : j \in {i \in DOMAIN d.load : d.load[i].kind = "ignored"}}

\* What the releases q give back.
Listed(q) == UNION {q[k] : k \in DOMAIN q}

\* No two of the releases q of driver n give the same back.
Apart(n, q) == \A k, l \in DOMAIN q : k # l => q[k] \cap q[l] \subseteq Settings \cup Again(n)

\* One of the releases q gives x back, and none before it anything of used.
Ordered(q, x, used) ==
    \E p \in DOMAIN q : x \in q[p] /\ \A k \in 1..p - 1 : q[k] \cap used \subseteq Settings

Shape(n, d) ==
    /\ Len(d.load) \in Nat /\ DOMAIN d.load = 1..Len(d.load)
    /\ \A i \in DOMAIN d.load :
          /\ d.load[i].name # "none"
          /\ d.load[i].kind = "drop" => d.load[i].gets \subseteq Before(d, i) \cap Again(n)
    /\ \A k \in DOMAIN d.managed : \E x \in Got(d) : d.managed[k] = {x}
    /\ d.bus \in BOOLEAN
    /\ d.thread \in BOOLEAN

\* What the releases q do, when step f is the i-th and fails, or when all is unloaded.
GivesBack(n, d, i, f, q) ==
    /\ q \in Seq(SUBSET Before(d, i))
    /\ Before(d, i) \subseteq Listed(q) \cup Listed(d.managed) \cup Kept(n, f) \cup Settings
    /\ Apart(n, q)

Ladder(n, d, i) == d.load[i].kind = "must" => GivesBack(n, d, i, d.load[i].name, d.load[i].undo)

\* Step i of the load of n is f, and what its failure gives back is q.
Falls(n, d, i, f, q) ==
    d.load[i].name = f /\ d.load[i].undo = q /\ GivesBack(n, d, i, f, q)

Unloads(n, d) == GivesBack(n, d, Len(d.load) + 1, "none", d.unload)

\* A file can be opened when all is set up that its operations use.
FileReady(n, d) ==
    /\ \A i \in DOMAIN d.load :
          d.node \in d.load[i].gets => d.needs \subseteq Before(d, i) \/ n \in Early
    /\ d.needs \subseteq Got(d)
    /\ d.bus => d.needs \subseteq Settings \/ n \in {"leddriver", "miscbeep"}

\* The attribute comes after what its functions use, and goes before it.
AttrReady(n, d) ==
    /\ \A i \in DOMAIN d.load :
          /\ d.attr \in d.load[i].gets => d.shows \subseteq Before(d, i) \/ n \in Early
          /\ d.load[i].kind = "must" => d.attr \notin Before(d, i)
    /\ d.shows \subseteq Got(d) \ Again(n)
    /\ d.shows \subseteq Settings \/ Ordered(d.unload, d.attr, d.shows)
    /\ d.attr \notin Settings

\* The interrupt is freed and the timer stopped before what their functions use.
Quiet(n, d) ==
    d.handler # {} =>
      /\ d.handler \subseteq Got(d) \ (Doubtful(d) \cup Again(n))
      /\ ~d.thread => Ordered(d.unload, "irq", d.handler) /\ Ordered(d.unload, "timer", d.handler)

WellFormed(n, d) ==
    /\ Shape(n, d)
    /\ \A i \in DOMAIN d.load : Ladder(n, d, i)
    /\ Unloads(n, d)
    /\ FileReady(n, d) /\ AttrReady(n, d) /\ Quiet(n, d)

-----------------------------------------------------------------------------
(* The invariant of a driver's life.                                       *)

TypeInv ==
    /\ TypeOK
    /\ todo \in Seq(SUBSET Got(driver))

PhaseInv ==
    /\ pc \in {"load", "live", "unload"} => failed = "none"
    /\ pc = "undo" => failed # "none"
    /\ pc # "load" /\ failed = "none" => at = Len(driver.load) + 1
    /\ pc = "gone" => todo = <<>>

\* What is held is still to be given back.
HeldInv ==
    /\ pc \in {"load", "live"} => held \subseteq Before(driver, at)
    /\ pc \in {"undo", "unload"} =>
          held \subseteq Listed(todo) \cup Listed(driver.managed) \cup Kept(name, failed)
                          \cup Settings
    /\ NothingLeft

\* What is to be given back is held.
OwnInv ==
    /\ pc \in {"load", "live"} => Before(driver, at) \subseteq held \cup missing \cup Again(name)
    /\ pc \in {"undo", "unload"} =>
          /\ Listed(todo) \subseteq held \cup missing \cup Settings \cup Again(name)
          /\ Apart(name, todo)
    /\ failed = "none" => Before(driver, at) \cap Settings \subseteq held \cup missing
    /\ missing \subseteq Doubtful(driver)
    /\ ReleasedOnce

FileInv ==
    /\ pc = "load" /\ files > 0 => driver.needs \subseteq Before(driver, at) \/ name \in Early
    /\ pc \in {"unload", "gone"} /\ failed = "none" /\ ~driver.bus => files = 0

AttrInv ==
    /\ failed # "none" => driver.attr \notin held
    /\ pc \in {"unload", "gone"} /\ failed = "none" /\ driver.attr \in held =>
          /\ driver.shows \subseteq held \cup missing
          /\ driver.shows \subseteq Settings \/ Ordered(todo, driver.attr, driver.shows)

\* What the interrupt and the timer set off finds what it uses while one of them is
\* still to be given back.
Safe(x) == driver.handler \subseteq held /\ Ordered(todo, x, driver.handler)

HandlerInv ==
    /\ tasklet \/ pending => driver.handler # {} /\ ~driver.thread
    /\ ~late /\ pc # "live" => ~tasklet
    /\ ~late /\ pc \in {"load", "undo", "gone"} => ~pending
    /\ pc = "unload" /\ ~driver.thread /\ driver.handler # {} =>
          /\ "irq" \in held => Safe("irq")
          /\ pending /\ ~late => Safe("timer")

LifeInv == TypeInv /\ PhaseInv /\ HeldInv /\ OwnInv /\ FileInv /\ AttrInv /\ HandlerInv

-----------------------------------------------------------------------------
(* The invariant of the users of the sensors.                              *)

Places == {"idle", "low", "high", "burst", "done"}
Whats  == Light \cup Motion \cup {"none", "other"}

\* The low bits that a request has were measured since it was made.
LowMeasured(r) ==
    \E b \in r.seen, flags \in LowFlags(r.what) :
        r.low = (Measured(r.what, b) % LowBits(r.what)) + flags

\* What the light sensor's driver makes of high bits measured with a and low bits
\* measured with b.
Halves(what, a, b) ==
    LET low == LowBits(what) IN
    << (Measured(what, a) \div low) * low + (Measured(what, b) % low) >>

\* What the motion sensor's driver makes of a temperature.
Shown(m) == << Wrap(Channel(m, Temp)) >>

\* How an answer without an error comes about; AnswersTrue follows.
True(what, seen, data) ==
    \/ what \in Light /\ \E a, b \in seen : data = Halves(what, a, b)
    \/ what = "temp" /\ \E a \in seen : data = Shown(a)
    \/ what = "all" /\ \E a \in seen : data = InAppOrder(a)
    \/ what = "all" /\ data = Unset

\* What is known of a request while the sensor's last measurement is n.
Good(n, r) ==
    /\ r.at \in {"low", "high", "burst"} => n \in r.seen /\ r.data = Unset
    /\ r.at \in {"low", "high"} => r.what \in Light
    /\ r.at = "burst" => r.what \in Motion
    /\ r.at = "high" => LowMeasured(r)
    /\ r.at = "done" /\ r.ret = 0 => True(r.what, r.seen, r.data)
    /\ r.data = Unset \/ True(r.what, r.seen, r.data)

Fields == [at : Places, what : Whats, seen : SUBSET Measures, low : 0..255,
           ret : {0, Failed}, data : Seq(Int)]

\* The inductive invariant.
UseInv ==
    /\ now \in Measures
    /\ request \in [Users -> Fields]
    /\ \A u \in Users : Good(now, request[u])

-----------------------------------------------------------------------------
(* The invariants of the users of the keys.                                *)

Reads == [at : {"idle", "look", "spin", "take", "done"}, value : Values, seen : SUBSET Values]

\* What a read is about to take was found by a read that overlaps it.
KeyInv ==
    /\ KeyTypeOK
    /\ \A r \in Readers : read[r].at = "take" => keyvalue \in read[r].seen
    /\ KeyAnswers

\* A key that has moved is told, or about to be, from the probe on.
InputInv ==
    /\ InputTypeOK
    /\ name = "keyinput" /\ pc \in {"load", "live"} /\ ~late /\ heard
       => reported = button \/ edge \/ tasklet \/ pending

AllInv == LifeInv /\ KeyInv /\ InputInv
=============================================================================
