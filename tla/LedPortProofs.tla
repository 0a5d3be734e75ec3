---------------------------- MODULE LedPortProofs -----------------------------
(* Theorems about LedPort, for every set of drivers and every sequence of  *)
(* registers.                                                              *)
EXTENDS LedPort, TLAPS

\* Who is not stale holds what the register holds, of the pin that is not its own.
Fresh ==
    \A w \in Register \ raced :
        /\ \A d \in Drivers :
             val[d] # None /\ Words[at[d]] = w /\ d \notin stale =>
                val[d].other = conf[w].other
        /\ pin # None /\ pin.word = w /\ "gpio" \notin stale => pin.val = conf[w]

\* How far a load is, so far are the registers done, and nobody has a file before
\* they all are.
Progress ==
    \A d \in Drivers :
        /\ pc[d] # "setup" => val[d] = None
        /\ pc[d] = "setup" => \A i \in DOMAIN Words : i < at[d] => Words[i] \in done
        /\ pc[d] \notin {"out", "setup"} => Register \subseteq done
        /\ files[d] > 0 => Register \subseteq done

\* The inductive invariant.
IInv == TypeOK /\ PortAsAsked /\ Fresh /\ Progress

LEMMA Facts ==
    /\ Drivers \subseteq {"led", "newchrled", "dtsled", "leddriver"}
    /\ Words \in Seq(STRING) /\ Len(Words) \in Nat \ {0} /\ DOMAIN Words = 1..Len(Words)
    /\ 1 \in DOMAIN Words
    /\ \A i \in DOMAIN Words : Words[i] \in Register
    /\ \A w \in Register : \E i \in DOMAIN Words : w = Words[i]
    /\ Register \subseteq STRING
    /\ "gpio" \notin Drivers
    /\ None \notin Word
    /\ None \notin [word : Register, val : Word]
    /\ MaxFiles \in Nat
<1>1. Words \in Seq(STRING) /\ Words # <<>>
  BY PortAssumption
<1>2. Len(Words) \in Nat \ {0} /\ DOMAIN Words = 1..Len(Words)
  BY <1>1
<1>3. Register \subseteq STRING
  BY <1>1, <1>2 DEF Register
<1>4. None \notin [word : Register, val : Word]
  BY <1>3, PortAssumption DEF Word
<1>. QED BY <1>1, <1>2, <1>3, <1>4, PortAssumption DEF Register, Word

LEMMA InitIInv == Init => IInv
<1>. SUFFICES ASSUME Init PROVE IInv
  OBVIOUS
<1>1. TypeOK
  <2>1. conf \in [Register -> Word]
    BY DEF Init, Word
  <2>. QED BY <2>1, Facts DEF Init, TypeOK, Life
<1>2. \A w \in Register : conf[w] = [led |-> FALSE, other |-> FALSE]
  BY DEF Init
<1>3. PortAsAsked
  BY <1>2 DEF Init, PortAsAsked
<1>. QED BY <1>1, <1>3, Facts DEF Init, IInv, Fresh, Progress

-----------------------------------------------------------------------------
(* The steps that touch no register.                                       *)

LEMMA LoadStep == ASSUME IInv, NEW d \in Drivers, Load(d) PROVE IInv'
<1>1. TypeOK'
  BY Facts DEF IInv, TypeOK, Load, history, Life
<1>2. /\ pc[d] = "out" /\ val[d] = None /\ pc' = [pc EXCEPT ![d] = "setup"]
      /\ at' = [at EXCEPT ![d] = 1]
      /\ pc \in [Drivers -> Life] /\ at \in [Drivers -> DOMAIN Words]
      /\ UNCHANGED <<conf, lamp, val, files, pin, last, done, asked, stale, raced>>
  BY DEF Load, history, IInv, Progress, TypeOK
<1>3. Fresh'
  BY <1>2 DEF IInv, Fresh
<1>4. Progress'
  BY <1>2, Facts DEF IInv, Progress
<1>. QED BY <1>1, <1>2, <1>3, <1>4 DEF IInv, PortAsAsked

\* What is common to the steps that leave the registers and their readers alone.
LEMMA QuietStep ==
    ASSUME IInv, UNCHANGED <<conf, at, val, pin, history>>
    PROVE  PortAsAsked' /\ Fresh'
BY DEF IInv, PortAsAsked, Fresh, history

LEMMA PcTyped ==
    ASSUME IInv
    PROVE  /\ pc \in [Drivers -> Life]
           /\ at \in [Drivers -> DOMAIN Words] /\ files \in [Drivers -> 0..MaxFiles]
           /\ val \in [Drivers -> Word \cup {None}] /\ conf \in [Register -> Word]
           /\ pin \in [word : Register, val : Word] \cup {None}
           /\ asked \in [Register -> BOOLEAN]
           /\ done \in SUBSET Register /\ raced \in SUBSET Register
BY DEF IInv, TypeOK

\* A step in the life of a device after the pin is configured.
LEMMA LifeStep ==
    ASSUME IInv, NEW d \in Drivers,
           \/ Registered(d) \/ NodeMade(d) \/ NodeFails(d) \/ RegisterFails(d)
           \/ Unmap(d) \/ Unregister(d)
    PROVE  IInv'
<1>1. /\ pc[d] \in Life \ {"out", "setup"}
      /\ \E p \in Life \ {"setup"} : pc' = [pc EXCEPT ![d] = p]
      /\ UNCHANGED <<conf, lamp, at, val, pin, last, history>>
      /\ \/ files' = files
         \/ files' = [files EXCEPT ![d] = IF d = "leddriver" THEN @ ELSE 0]
  BY DEF Registered, NodeMade, NodeFails, RegisterFails, Unmap, Unregister, Life
<1>2. \A e \in Drivers : files'[e] \in {0, files[e]}
  BY <1>1, PcTyped
<1>3. files' \in [Drivers -> 0..MaxFiles]
  <2>1. 0 \in 0..MaxFiles
    BY Facts
  <2>. QED BY <1>1, <2>1, PcTyped
<1>7. pc' \in [Drivers -> Life]
  BY <1>1, PcTyped
<1>4. TypeOK'
  BY <1>1, <1>3, <1>7 DEF IInv, TypeOK, history
<1>5. PortAsAsked' /\ Fresh'
  BY <1>1, QuietStep
<1>6. Progress'
  <2>. SUFFICES ASSUME NEW e \in Drivers
               PROVE  /\ pc'[e] # "setup" => val[e] = None
                      /\ pc'[e] = "setup" =>
                           \A i \in DOMAIN Words : i < at[e] => Words[i] \in done
                      /\ pc'[e] \notin {"out", "setup"} => Register \subseteq done
                      /\ files'[e] > 0 => Register \subseteq done
    BY <1>1 DEF Progress, history
  <2>1. files'[e] > 0 => Register \subseteq done
    BY <1>2 DEF IInv, Progress
  <2>2. CASE e = d
    BY <1>1, <2>1, <2>2, PcTyped DEF IInv, Progress
  <2>3. CASE e # d
    BY <1>1, <2>1, <2>3, PcTyped DEF IInv, Progress
  <2>. QED BY <2>2, <2>3
<1>. QED BY <1>4, <1>5, <1>6 DEF IInv

LEMMA UserStep ==
    ASSUME IInv, NEW d \in Drivers,
           \/ Open(d) \/ Close(d)
           \/ \E sta \in {0, 1}, faulted \in BOOLEAN : Write(d, sta, faulted)
    PROVE  IInv'
<1>1. UNCHANGED <<conf, pc, at, val, pin, history>>
  BY DEF Open, Close, Write, life
<1>2. PortAsAsked' /\ Fresh'
  BY <1>1, QuietStep
<1>3. files' \in [Drivers -> 0..MaxFiles] /\ lamp' \in {"on", "off"}
      /\ last' \in {"nobody", "load", "write"}
  <2>1. CASE Open(d)
    BY <2>1, PcTyped, Facts DEF Open, IInv, TypeOK
  <2>2. CASE Close(d)
    BY <2>2, PcTyped, Facts DEF Close, IInv, TypeOK
  <2>3. CASE \E sta \in {0, 1}, faulted \in BOOLEAN : Write(d, sta, faulted)
    BY <2>3, PcTyped DEF Write, Switch, life, IInv, TypeOK
  <2>. QED BY <2>1, <2>2, <2>3
<1>4. TypeOK'
  BY <1>1, <1>3 DEF IInv, TypeOK, history
<1>5. \A e \in Drivers : files'[e] > 0 => Register \subseteq done
  <2>1. CASE Open(d)
    <3>1. pc[d] \notin {"out", "setup"}
      BY <2>1 DEF Open, Openable
    <3>. QED BY <3>1 DEF IInv, Progress
  <2>2. CASE Close(d)
    <3>1. \A e \in Drivers : files'[e] > 0 => files[e] > 0
      BY <2>2, PcTyped, Facts DEF Close
    <3>. QED BY <3>1 DEF IInv, Progress
  <2>3. CASE \E sta \in {0, 1}, faulted \in BOOLEAN : Write(d, sta, faulted)
    BY <2>3 DEF Write, life, IInv, Progress
  <2>. QED BY <2>1, <2>2, <2>3
<1>6. Progress'
  BY <1>1, <1>5 DEF IInv, Progress, history
<1>. QED BY <1>2, <1>4, <1>6 DEF IInv

LEMMA CloseLedStep == ASSUME IInv, NEW d \in Drivers, CloseLed(d) PROVE IInv'
<1>1. UNCHANGED <<conf, at, val, files, pin, history>>
  BY DEF CloseLed
<1>2. PortAsAsked' /\ Fresh'
  BY <1>1, QuietStep
<1>3. TypeOK'
  BY DEF IInv, TypeOK, CloseLed, history, Life
<1>4. Progress'
  BY <1>1, PcTyped DEF IInv, Progress, CloseLed, history
<1>. QED BY <1>2, <1>3, <1>4 DEF IInv

-----------------------------------------------------------------------------
(* The steps that read and write registers.                                *)

LEMMA ReadWordStep == ASSUME IInv, NEW d \in Drivers, ReadWord(d) PROVE IInv'
<1>1. /\ UNCHANGED <<conf, lamp, pc, at, files, pin, last, history>>
      /\ val' = [val EXCEPT ![d] = conf[Words[at[d]]]] /\ pc[d] = "setup"
  BY DEF ReadWord
<1>2. Words[at[d]] \in Register
  BY PcTyped, Facts
<1>3. TypeOK'
  BY <1>1, <1>2 DEF IInv, TypeOK, history
<1>4. Fresh'
  BY <1>1, <1>2, PcTyped DEF IInv, Fresh, history
<1>5. Progress'
  BY <1>1, PcTyped DEF IInv, Progress, history
<1>. QED BY <1>1, <1>3, <1>4, <1>5 DEF IInv, PortAsAsked, history

LEMMA PinReadStep == ASSUME IInv, NEW w \in Register, PinRead(w) PROVE IInv'
<1>1. /\ UNCHANGED <<conf, lamp, life, last, history>>
      /\ pin' = [word |-> w, val |-> conf[w]]
  BY DEF PinRead
<1>2. TypeOK'
  BY <1>1, PcTyped DEF IInv, TypeOK, history, life
<1>3. Fresh'
  BY <1>1 DEF IInv, Fresh, history, life
<1>. QED BY <1>1, <1>2, <1>3
         DEF IInv, PortAsAsked, Progress, history, life

LEMMA WriteWordStep == ASSUME IInv, NEW d \in Drivers, WriteWord(d) PROVE IInv'
<1> DEFINE w == Words[at[d]]
<1>1. /\ pc[d] = "setup" /\ val[d] # None
      /\ conf' = [conf EXCEPT ![w] = Configured(val[d])]
      /\ val' = [val EXCEPT ![d] = None]
      /\ done' = done \cup {w}
      /\ raced' = IF d \in stale THEN raced \cup {w} ELSE raced
      /\ stale' = (stale \ {d}) \cup (IF pin # None /\ pin.word = w THEN {"gpio"} ELSE {})
      /\ UNCHANGED <<lamp, files, pin, last, asked>>
      /\ at' \in [Drivers -> DOMAIN Words]
      /\ \A e \in Drivers \ {d} : pc'[e] = pc[e] /\ at'[e] = at[e]
      /\ \/ at[d] < Len(Words) /\ at'[d] = at[d] + 1 /\ pc' = pc
         \/ at[d] = Len(Words) /\ pc'[d] = "close" /\ at' = at
  BY PcTyped, Facts, SMTT(20) DEF WriteWord
<1>2. w \in Register
  BY PcTyped, Facts
<1>3. val[d] \in Word
  BY <1>1, PcTyped
<1>4. /\ Configured(val[d]) \in Word /\ Configured(val[d]).led = TRUE
      /\ Configured(val[d]).other = val[d].other
  BY <1>3 DEF Configured, Word
<1>5. TypeOK'
  <2>1. pc' \in [Drivers -> Life]
    BY PcTyped DEF WriteWord, Life
  <2>2. conf' \in [Register -> Word]
    BY <1>1, <1>4, PcTyped
  <2>. QED BY <1>1, <1>2, <2>1, <2>2, Facts, ZenonT(40) DEF IInv, TypeOK
<1>. HIDE DEF w
<1>6. \A u \in Register : u # w => conf'[u] = conf[u]
  BY <1>1, PcTyped
<1>7. conf'[w].led = TRUE /\ conf'[w].other = val[d].other
  BY <1>1, <1>2, <1>4, PcTyped
<1>8. w \notin raced' => w \notin raced /\ conf'[w].other = conf[w].other
  BY <1>1, <1>2, <1>7 DEF IInv, Fresh, w
<1>9. PortAsAsked'
  BY <1>1, <1>2, <1>6, <1>7, <1>8 DEF IInv, PortAsAsked
<1>10. Fresh'
  <2>. SUFFICES ASSUME NEW u \in Register \ raced'
               PROVE  /\ \A e \in Drivers :
                          val'[e] # None /\ Words[at'[e]] = u /\ e \notin stale' =>
                            val'[e].other = conf'[u].other
                      /\ pin # None /\ pin.word = u /\ "gpio" \notin stale' =>
                            pin.val = conf'[u]
    BY <1>1 DEF Fresh
  <2>1. u \notin raced
    BY <1>1
  <2>2. conf'[u].other = conf[u].other
    BY <1>6, <1>8
  <2>3. ASSUME NEW e \in Drivers, val'[e] # None, Words[at'[e]] = u, e \notin stale'
        PROVE  val'[e].other = conf'[u].other
    <3>1. e # d /\ val'[e] = val[e] /\ at'[e] = at[e] /\ e \notin stale
      BY <1>1, <2>3, PcTyped
    <3>. QED BY <2>1, <2>2, <2>3, <3>1 DEF IInv, Fresh
  <2>4. ASSUME pin # None, pin.word = u, "gpio" \notin stale'
        PROVE  pin.val = conf'[u]
    <3>1. u # w /\ "gpio" \notin stale
      BY <1>1, <2>4, Facts
    <3>. QED BY <1>6, <2>1, <2>4, <3>1 DEF IInv, Fresh
  <2>. QED BY <2>3, <2>4
<1>11. Progress'
  <2>1. ASSUME NEW e \in Drivers, e # d
        PROVE  /\ pc'[e] # "setup" => val'[e] = None
               /\ pc'[e] = "setup" => \A i \in DOMAIN Words : i < at'[e] => Words[i] \in done'
               /\ pc'[e] \notin {"out", "setup"} => Register \subseteq done'
    BY <1>1, <2>1, PcTyped DEF IInv, Progress
  <2>6. \A e \in Drivers : files'[e] > 0 => Register \subseteq done'
    BY <1>1 DEF IInv, Progress
  <2>2. \A i \in DOMAIN Words : i <= at[d] => Words[i] \in done'
    <3>1. \A i \in DOMAIN Words : i < at[d] => Words[i] \in done
      BY <1>1 DEF IInv, Progress
    <3>2. \A i \in DOMAIN Words : i <= at[d] => i < at[d] \/ i = at[d]
      BY Facts, PcTyped
    <3>. QED BY <1>1, <3>1, <3>2 DEF w
  <2>3. val'[d] = None
    BY <1>1, PcTyped
  <2>4. CASE at[d] < Len(Words) /\ at'[d] = at[d] + 1 /\ pc' = pc
    <3>1. \A i \in DOMAIN Words : i < at'[d] => i <= at[d]
      BY <2>4, Facts, PcTyped
    <3>. QED BY <1>1, <2>1, <2>2, <2>3, <2>4, <2>6, <3>1 DEF Progress
  <2>5. CASE at[d] = Len(Words) /\ pc'[d] = "close"
    <3>1. \A i \in DOMAIN Words : i <= at[d]
      BY <2>5, Facts
    <3>2. Register \subseteq done'
      BY <2>2, <3>1, Facts
    <3>. QED BY <1>1, <2>1, <2>3, <2>5, <2>6, <3>2 DEF Progress
  <2>. QED BY <1>1, <2>4, <2>5
<1>. QED BY <1>5, <1>9, <1>10, <1>11 DEF IInv

LEMMA PinWriteStep == ASSUME IInv, NEW v \in BOOLEAN, PinWrite(v) PROVE IInv'
<1> DEFINE w == pin.word
           new == [pin.val EXCEPT !.other = v]
<1>1. /\ pin # None /\ pin' = None
      /\ conf' = [conf EXCEPT ![w] = new]
      /\ asked' = [asked EXCEPT ![w] = v]
      /\ raced' = IF "gpio" \in stale THEN raced \cup {w} ELSE raced
      /\ stale' = (stale \ {"gpio"}) \cup Holding(w)
      /\ UNCHANGED <<lamp, life, last, done>>
  BY DEF PinWrite
<1>2. w \in Register /\ pin.val \in Word
  BY <1>1, PcTyped
<1>3. new \in Word /\ new.other = v /\ new.led = pin.val.led
  BY <1>2 DEF Word
<1>. HIDE DEF new
<1>4. TypeOK'
  <2>1. conf' \in [Register -> Word] /\ asked' \in [Register -> BOOLEAN]
    BY <1>1, <1>2, <1>3, PcTyped
  <2>2. Holding(w) \subseteq Drivers
    BY DEF Holding
  <2>3. raced' \in SUBSET Register /\ stale' \in SUBSET (Drivers \cup {"gpio"})
    BY <1>1, <1>2, <2>2 DEF IInv, TypeOK
  <2>. QED BY <1>1, <2>1, <2>3 DEF IInv, TypeOK, life
<1>5. \A u \in Register : u # w => conf'[u] = conf[u] /\ asked'[u] = asked[u]
  BY <1>1, PcTyped
<1>6. conf'[w] = new /\ asked'[w] = v
  BY <1>1, <1>2, PcTyped
<1>7. w \notin raced' => w \notin raced /\ conf'[w].led = conf[w].led
  BY <1>1, <1>2, <1>3, <1>6 DEF IInv, Fresh
<1>8. PortAsAsked'
  <2>. SUFFICES ASSUME NEW u \in Register \ raced'
               PROVE  conf'[u].other = asked'[u] /\ (u \in done => conf'[u].led)
    BY <1>1 DEF PortAsAsked
  <2>1. u \notin raced
    BY <1>1
  <2>2. CASE u = w
    BY <1>3, <1>6, <1>7, <2>1, <2>2 DEF IInv, PortAsAsked
  <2>3. CASE u # w
    BY <1>5, <2>1, <2>3 DEF IInv, PortAsAsked
  <2>. QED BY <2>2, <2>3
<1>9. Fresh'
  <2>. SUFFICES ASSUME NEW u \in Register \ raced', NEW e \in Drivers,
                      val[e] # None, Words[at[e]] = u, e \notin stale'
               PROVE  val[e].other = conf'[u].other
    BY <1>1 DEF Fresh, life
  <2>1. u # w /\ e \notin stale
    BY <1>1, Facts DEF Holding
  <2>2. u \notin raced
    BY <1>1
  <2>. QED BY <1>5, <2>1, <2>2 DEF IInv, Fresh
<1>. QED BY <1>1, <1>4, <1>8, <1>9 DEF IInv, Progress, life

-----------------------------------------------------------------------------
LEMMA StepIInv == IInv /\ [Next]_vars => IInv'
<1>. SUFFICES ASSUME IInv, [Next]_vars PROVE IInv'
  OBVIOUS
<1>1. CASE UNCHANGED vars
  BY <1>1 DEF vars, life, history, IInv, TypeOK, PortAsAsked, Fresh, Progress
<1>2. CASE Next
  BY <1>2, LoadStep, LifeStep, UserStep, CloseLedStep, ReadWordStep, WriteWordStep,
     PinReadStep, PinWriteStep DEF Next
<1>. QED BY <1>1, <1>2

\* Every value stays in its type.
THEOREM TypeCorrect == Spec => []TypeOK
BY InitIInv, StepIInv, PTL DEF Spec, IInv

\* However many loads overlap each other and the GPIO code, only a register that
\* a load and the GPIO code had both read before either wrote it loses a write.
THEOREM PortKept == Spec => []PortAsAsked
BY InitIInv, StepIInv, PTL DEF Spec, IInv

\* With that exception, whoever can open a device or has it open has a pin that is
\* configured, through loads that fail and devices that go.
THEOREM PinsReady == Spec => []PinReady
<1>1. IInv => PinReady
  BY DEF IInv, Progress, PortAsAsked, PinReady, Openable
<1>. QED BY <1>1, InitIInv, StepIInv, PTL DEF Spec

=============================================================================
