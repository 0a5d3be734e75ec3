------------------------------ MODULE SensorUse ------------------------------
(***************************************************************************)
(* The users of the light sensor (21_iic/ap3216c.c) and of the motion      *)
(* sensor (22_spi/icm20608.c), together with the loads and removals of     *)
(* DriverModule: one thread that has the file open, and one that reads the *)
(* attributes.  The sensor goes on measuring, and any transfer may fail.   *)
(*                                                                         *)
(* The light sensor gives a value in two transfers, the low bits first;    *)
(* the motion sensor gives all it has in one.  An answer is a sequence of  *)
(* values; Unset is one from a variable that nothing was stored into, and  *)
(* stands for anything.                                                    *)
(***************************************************************************)
EXTENDS DriverModule, Integers

CONSTANT
    Measures    \* what the sensor may measure

Words  == 0..65535
Shorts == {x \in Int : -32768 <= x /\ x <= 32767}

ASSUME MeasuresAssumption == Measures \subseteq Words

VARIABLES
    now,        \* the last measurement
    request     \* what each user asked for, and how far that is

usevars == <<vars, now, request>>

Users  == {"file", "show"}
Light  == {"ir", "als", "ps"}
Motion == {"temp", "all"}

Unset == <<>>
Failed == -1

Idle == [at |-> "idle", what |-> "none", seen |-> {}, low |-> 0, ret |-> 0, data |-> Unset]

Asking(u) == request[u].at \in {"low", "high", "burst"}

-----------------------------------------------------------------------------
(* The sensors (their registers are known from how the drivers take them   *)
(* apart).                                                                 *)

\* Numbers of 16 bits, without and with a sign.
Wrap(x)   == x % 65536
Signed(x) == IF x >= 32768 THEN x - 65536 ELSE x

\* The channels of the motion sensor in the order of its registers: the accelerometer's
\* axes, the temperature and the gyroscope's axes.
Channel(m, c) == Signed(Wrap(m + c))

Temp == 4

Measured(what, m) == IF what \in {"ir", "ps"} THEN m % 1024 ELSE m

LowBits(what) == CASE what = "ir" -> 4 [] what = "als" -> 256 [] what = "ps" -> 16

\* A register may have other bits next to the value's.
TopFlags == {0, 64, 128, 192}

LowFlags(what) ==
    CASE what = "ir" -> {0, 128} [] what = "als" -> {0} [] what = "ps" -> TopFlags

HighFlags(what) == IF what = "ps" THEN TopFlags ELSE {0}

\* Registers are bytes, the high one of a channel first.
Bytes(v) == << Wrap(v) \div 256, v % 256 >>

-----------------------------------------------------------------------------
(* How the drivers put a value together.                                   *)

Overflown(what, low) == what = "ps" /\ (low \div 64) % 2 = 1

Decode(what, low, high) ==
    CASE what = "ir"  -> << high * 4 + (low % 4) >>
      [] what = "als" -> << high * 256 + low >>
      [] what = "ps"  -> << (high % 64) * 16 + (low % 16) >>

Short(bytes) == bytes[1] * 256 + bytes[2]

\* The bytes are swapped in an unsigned variable, which also takes the sign.
read_temp_data(bytes) == << Short(bytes) >>

\* The first of the shorts that readdata puts together are the gyroscope's.
Order == <<5, 6, 7, 1, 2, 3, Temp>>

readdata(m) == [i \in 1..7 |-> Signed(Short(Bytes(Channel(m, Order[i]))))]

-----------------------------------------------------------------------------
UseTypeOK ==
    /\ now \in Measures
    /\ \A u \in Users :
          LET r == request[u] IN
          /\ r.at \in {"idle", "low", "high", "burst", "done"}
          /\ r.what \in Light \cup Motion \cup {"none", "other"}
          /\ r.seen \subseteq Measures
          /\ r.low \in 0..255
          /\ r.ret \in {0, Failed}
          /\ r.data = Unset \/ Len(r.data) = IF r.what = "all" THEN 7 ELSE 1
          /\ \A i \in DOMAIN r.data :
                r.data[i] \in IF r.what = "all" THEN Shorts ELSE Words

InitUse ==
    /\ Init
    /\ now \in Measures
    /\ request = [u \in Users |-> Idle]

\* A file that is in use is not released, and an attribute is not removed while it
\* is being read: then the removal waits.
Waits ==
    \/ Asking("file") /\ files' < files
    \/ Asking("show") /\ driver.attr \in held /\ driver.attr \notin held'

LifeUse == Next /\ ~Waits /\ UNCHANGED <<now, request>>

\* A measurement may come at any time, also between two transfers.
Measure ==
    /\ \E m \in Measures :
          /\ now' = m
          /\ request' = [u \in Users |->
                            IF Asking(u) THEN [request[u] EXCEPT !.seen = @ \cup {m}]
                            ELSE request[u]]
    /\ UNCHANGED vars

-----------------------------------------------------------------------------
(* A request.                                                              *)

\* What is asked for before the driver has its client is left out, as the exceptions
\* of EntryReady are.
Reachable(u) ==
    IF u = "file" THEN files > 0 /\ driver.needs \subseteq held
    ELSE /\ driver.attr \in held /\ driver.shows \subseteq held
         /\ pc # "unload"

Offers(u) ==
    CASE name = "ap3216c"  -> IF u = "file" THEN Light \cup {"other"} ELSE Light
      [] name = "icm20608" -> IF u = "file" THEN {"all"} ELSE {"temp"}
      [] OTHER -> {}

FirstTransfer(what) ==
    CASE what \in Light -> "low" [] what \in Motion -> "burst" [] OTHER -> "answer"

Ask(u) ==
    /\ request[u].at = "idle"
    /\ Reachable(u)
    /\ \E what \in Offers(u) \ {"other"} :
          request' = [request EXCEPT
              ![u] = [Idle EXCEPT !.at = FirstTransfer(what), !.what = what, !.seen = {now}]]
    /\ UNCHANGED <<vars, now>>

\* The copy to the caller may fail: the ioctl says so then, and read does not.
Answer(u, ret, data) ==
    \/ request' = [request EXCEPT ![u].at = "done", ![u].ret = ret, ![u].data = data]
    \/ /\ u = "file"
       /\ request' = [request EXCEPT ![u].at = "done",
                          ![u].ret = IF request[u].what = "all" THEN 0 ELSE Failed]

\* An ioctl of an unknown command copies the variable all the same.
AskOther ==
    /\ request["file"].at = "idle"
    /\ Reachable("file")
    /\ "other" \in Offers("file")
    /\ request' = [request EXCEPT
           !["file"] = [Idle EXCEPT !.at = "done", !.what = "other", !.ret = Failed]]
    /\ UNCHANGED <<vars, now>>

ReadLow(u) ==
    /\ request[u].at = "low"
    /\ \E flags \in LowFlags(request[u].what) :
          LET what == request[u].what IN
          request' = [request EXCEPT
              ![u].at = "high",
              ![u].low = (Measured(what, now) % LowBits(what)) + flags]
    /\ UNCHANGED <<vars, now>>

ReadHigh(u) ==
    /\ request[u].at = "high"
    /\ \E flags \in HighFlags(request[u].what) :
          LET what == request[u].what
              low  == request[u].low
              high == (Measured(what, now) \div LowBits(what)) + flags
          IN  IF Overflown(what, low) THEN Answer(u, Failed, Unset)
              ELSE Answer(u, 0, Decode(what, low, high))
    /\ UNCHANGED <<vars, now>>

\* Wrong on purpose: && for ||, so that a value is put together although its high
\* bits did not come.
HalfFails(u) ==
    /\ request[u].at \in {"low", "high"}
    /\ IF request[u].at = "low" THEN Answer(u, Failed, Unset)
       ELSE Answer(u, 0, Decode(request[u].what, request[u].low, 0))
    /\ UNCHANGED <<vars, now>>

\* Either transfer of the light sensor fails.
ReadFails(u) ==
    /\ request[u].at \in {"low", "high"}
    /\ Answer(u, Failed, Unset)
    /\ UNCHANGED <<vars, now>>

Burst(u) ==
    /\ request[u].at = "burst"
    /\ Answer(u, 0, IF request[u].what = "temp" THEN read_temp_data(Bytes(Channel(now, Temp)))
                    ELSE readdata(now))
    /\ UNCHANGED <<vars, now>>

\* show_temp looks at the result of the transfer, and readdata does not.
BurstFails(u) ==
    /\ request[u].at = "burst"
    /\ Answer(u, IF request[u].what = "temp" THEN Failed ELSE 0, Unset)
    /\ UNCHANGED <<vars, now>>

Return(u) ==
    /\ request[u].at = "done"
    /\ request' = [request EXCEPT ![u] = Idle]
    /\ UNCHANGED <<vars, now>>

UseStep ==
    \/ Measure \/ AskOther
    \/ \E u \in Users :
          \/ Ask(u) \/ ReadLow(u) \/ ReadHigh(u) \/ ReadFails(u)
          \/ Burst(u) \/ BurstFails(u) \/ Return(u)

NextUse == LifeUse \/ UseStep

SpecUse == InitUse /\ [][NextUse]_usevars

-----------------------------------------------------------------------------
(* Properties.                                                             *)

\* The channels in the order in which icm20608App takes them apart.
InAppOrder(m) ==
    << Channel(m, 5), Channel(m, 6), Channel(m, 7),
       Channel(m, 1), Channel(m, 2), Channel(m, 3), Channel(m, 4) >>

\* An answer that reports no error carries what was measured while the request was
\* under way.  Of the light sensor (ap3216c.c:71-106): never a variable that nothing
\* was stored into, and, if the sensor did not measure between the two transfers, the
\* value.  Of the motion sensor: a temperature that is not below zero
\* (icm20608.c:95-112), and whatever icm20608_read did bring, in its order
\* (icm20608.c:152-164).  Nothing is said of a value whose halves are of two
\* measurements, of a temperature below zero, and of a read that brings nothing.
AnswersTrue ==
    \A u \in Users :
        LET r == request[u] IN
        r.at = "done" /\ r.ret = 0 =>
            /\ r.what # "all" => r.data # Unset
            /\ \A a \in Measures :
                  r.what \in Light /\ r.seen = {a} => r.data = << Measured(r.what, a) >>
            /\ r.what = "temp" /\ (\A a \in r.seen : Channel(a, Temp) >= 0)
                  => \E a \in r.seen : r.data = << Channel(a, Temp) >>
            /\ r.what = "all" /\ r.data # Unset => \E a \in r.seen : r.data = InAppOrder(a)

\* icm20608.c:185: a read that failed is answered with a negative number.  So one that
\* is not has brought the caller something.
FailedReadIsNegative ==
    \A u \in Users :
        request[u].at = "done" /\ request[u].what = "all" /\ request[u].ret >= 0
        => request[u].data # Unset
=============================================================================
