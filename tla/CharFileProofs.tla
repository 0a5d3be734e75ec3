---------------------------- MODULE CharFileProofs ----------------------------
(* Theorems about CharFile, for every size, width and set of threads.      *)
EXTENDS CharFile, TLAPS

\* What a call holds fits the buffer, however far the copy is, unless it is one of
\* chardev's with a position of its own.
Fitting(c) ==
    /\ c.done <= c.count /\ c.good <= c.done
    /\ c.op \notin {"read", "write"} => c.count = 0 /\ c.own
    /\ c.op \in {"read", "write"} => c.pos >= 0
    /\ c.pos \in Positions => c.pos + c.count <= SIZE
    /\ c.pos \notin Positions /\ device = "globalmem" => c.count = 0
    /\ device = "chardev" /\ c.own => c.pos \in Positions

CallInside == \A t \in Threads : Fitting(call[t])

\* chardev stores no other position.
Stays == device = "chardev" => \A f \in Files : f_pos[f] \in Positions

\* The inductive invariant.
IInv == TypeOK /\ Stays /\ CallInside

\* Of a file that is not vague at most one thread is at it, and the position that
\* it loaded is still so.
Lonely ==
    \A f \in Files \ vague :
        /\ f_pos[f] = asked[f] /\ f_pos[f] \in Positions
        /\ \A s, t \in Busy(f) : s = t
        /\ \A t \in Busy(f) :
             call[t].op \in {"read", "write"} => call[t].pos = f_pos[f]

\* A seek that can be met found the position asked for.
Found(c) ==
    c.op = "seek" => /\ c.sure => c.pos = c.to /\ c.to \in Positions
                     /\ c.good = 0 /\ ~c.faulted

Sought == \A t \in Threads : Found(call[t])

\* A number inside the modulus is its own remainder.
LEMMA SmallMod == ASSUME NEW n \in Nat, NEW x \in Nat, x < n PROVE x % n = x
  OBVIOUS

\* The numbers of the device.
LEMMA Numbers ==
    /\ SIZE \in Nat /\ SIZE > 0 /\ UIntMod \in Nat /\ LoffMod \in Nat
    /\ LoffMod \div 2 \in Nat /\ UIntMod <= LoffMod \div 2 /\ SIZE < UIntMod
    /\ LoffMod = (LoffMod \div 2) + (LoffMod \div 2)
    /\ UIntMod \div 2 \in Nat /\ SIZE + (UIntMod \div 2) < UIntMod
    /\ Positions \subseteq Loffs /\ Positions \subseteq Nat /\ Loffs \subseteq Int
    /\ 0 \in Positions /\ 0 \in Byte
BY SizeAssumption DEF Positions, Loffs

\* A number that fits loff_t does not wrap.
LEMMA LoffFits == ASSUME NEW x \in Loffs PROVE Loff(x) = x
<1> DEFINE h == LoffMod \div 2
<1>1. h \in Nat /\ h + h <= LoffMod /\ x \in -h..h - 1 /\ LoffMod \in Nat
  BY Numbers DEF Loffs
<1>. HIDE DEF h
<1>2. x + h \in Nat /\ x + h < LoffMod
  BY <1>1
<1>3. (x + h) % LoffMod = x + h
  BY <1>1, <1>2, SmallMod
<1>. QED BY <1>1, <1>3 DEF Loff, h

LEMMA LoffType == ASSUME NEW x \in Int PROVE Loff(x) \in Loffs
<1> DEFINE h == LoffMod \div 2
<1>1. h \in Nat /\ h + h = LoffMod /\ LoffMod > 0 /\ Loffs = -h..h - 1
  BY Numbers DEF Loffs
<1>. HIDE DEF h
<1>2. (x + h) % LoffMod \in 0..LoffMod - 1
  BY <1>1
<1>3. Loff(x) = ((x + h) % LoffMod) - h
  BY DEF Loff, h
<1>4. \A y \in 0..LoffMod - 1 : y - h \in -h..h - 1
  BY <1>1
<1>. QED BY <1>1, <1>2, <1>3, <1>4

\* A count after clamping ends at the end of the buffer, wherever that is of use.
LEMMA ClampFits ==
    ASSUME NEW pos \in Loffs, NEW size \in Nat, device \in {"globalmem", "chardev"}, pos >= 0
    PROVE  /\ Clamp(pos, size) \in Nat
           /\ pos \in Positions => pos + Clamp(pos, size) <= SIZE
           /\ pos \notin Positions /\ device = "globalmem" => Clamp(pos, size) = 0
<1> DEFINE u == UIntMod \div 2
           y == (SIZE - pos + u) % UIntMod
<1>1. SIZE \in Nat /\ UIntMod \in Nat /\ UIntMod > 0 /\ u \in Nat /\ SIZE + u < UIntMod
      /\ pos \in Nat /\ Positions = 0..SIZE
  BY Numbers DEF Positions, Loffs
<1>2. MaxBytes(pos) = y - u
  BY DEF MaxBytes
<1>3. y \in Int
  BY <1>1
<1>4. pos \in Positions => y = SIZE - pos + u
  <2>. SUFFICES ASSUME pos \in Positions PROVE y = SIZE - pos + u
    OBVIOUS
  <2>1. SIZE - pos + u \in Nat /\ SIZE - pos + u < UIntMod
    BY <1>1
  <2>. QED BY <1>1, <2>1, SmallMod
<1>. HIDE DEF u, y
<1>5. MaxBytes(pos) \in Int /\ (pos \in Positions => MaxBytes(pos) = SIZE - pos)
  BY <1>1, <1>2, <1>3, <1>4
<1>. HIDE DEF MaxBytes
<1>6. CASE device = "chardev"
  BY <1>1, <1>5, <1>6 DEF Clamp
<1>7. CASE device = "globalmem"
  BY <1>1, <1>7 DEF Clamp
<1>. QED BY <1>6, <1>7

\* Where llseek lands, and where it was meant to.
LEMMA TargetInside ==
    ASSUME NEW f \in Files, NEW o \in Loffs, NEW w \in Whences,
           device \in {"globalmem", "chardev"}, f_pos[f] \in Loffs
    PROVE  /\ Meant(f, o, w) \in Int
           /\ Bounded(Meant(f, o, w)) \in Positions
           /\ Target(f, o, w) \in Loffs
           /\ device = "chardev" => Target(f, o, w) \in Positions
<1>1. o \in Int /\ f_pos[f] \in Int /\ SIZE \in Nat
  BY Numbers
<1>2. Meant(f, o, w) \in Int
  BY <1>1 DEF Meant, Whences
<1>3. Loff(Meant(f, o, w)) \in Loffs
  BY <1>2, LoffType
<1>4. \A x \in Int : Bounded(x) \in Positions
  BY <1>1 DEF Bounded, Positions
<1>5. o % UIntMod \in Loffs
  <2>1. UIntMod \in Nat /\ UIntMod > 0 /\ o % UIntMod \in 0..UIntMod - 1
    BY <1>1, Numbers
  <2>. QED BY <2>1, Numbers DEF Loffs
<1>6. Loff(Meant(f, o, w)) \in Int
  BY <1>3, Numbers
<1>. QED BY <1>2, <1>3, <1>4, <1>5, <1>6, Numbers DEF Target

\* A request that fits lands where it asks for.
LEMMA TargetMeant ==
    ASSUME NEW f \in Files, NEW o \in Loffs, NEW w \in Whences,
           device \in {"globalmem", "chardev"}, f_pos[f] \in Loffs,
           device = "globalmem" /\ w = "set" => o >= 0,
           Fits(f, o, w), Target(f, o, w) \in Positions
    PROVE  Target(f, o, w) = Bounded(Meant(f, o, w))
<1>1. Meant(f, o, w) \in Int /\ o \in Int /\ SIZE \in Nat
  BY TargetInside, Numbers
<1>2. Meant(f, o, w) \in Loffs
  <2>1. -(LoffMod \div 2) <= Meant(f, o, w) /\ Meant(f, o, w) <= (LoffMod \div 2) - 1
    BY <1>1, Numbers DEF Fits
  <2>. QED BY <1>1, <2>1, Numbers DEF Loffs
<1>3. Loff(Meant(f, o, w)) = Meant(f, o, w)
  BY <1>2, LoffFits
<1>4. CASE device = "chardev"
  BY <1>3, <1>4 DEF Target
<1>5. CASE device = "globalmem" /\ w = "set"
  <2>1. Meant(f, o, w) = o /\ o \in Nat /\ o < UIntMod
    BY <1>1, <1>5 DEF Meant, Fits
  <2>2. o % UIntMod = o
    BY <2>1, SmallMod, Numbers
  <2>3. Target(f, o, w) = o /\ o \in Positions
    BY <1>5, <2>2 DEF Target
  <2>. QED BY <1>1, <2>1, <2>3 DEF Bounded, Positions
<1>6. CASE device = "globalmem" /\ w # "set"
  <2>1. Target(f, o, w) = Meant(f, o, w) /\ Meant(f, o, w) \in Positions
    BY <1>3, <1>6 DEF Target
  <2>. QED BY <1>1, <2>1 DEF Bounded, Positions
<1>. QED BY <1>4, <1>5, <1>6

-----------------------------------------------------------------------------
(* The calls stay inside the buffer.                                       *)

LEMMA IdleCall ==
    /\ Idle \in Call /\ Fitting(Idle) /\ Found(Idle)
    /\ Idle.op = "none" /\ Idle.pos = 0 /\ Idle.good = 0 /\ Idle.done = 0 /\ Idle.got = <<>>
<1>1. (CHOOSE f \in Files : TRUE) \in Files
  BY SizeAssumption
<1>2. 0 \in Loffs /\ 0 \in Positions /\ 0 \in Byte
  BY Numbers
<1>3. Idle \in Call
  BY <1>1, <1>2 DEF Idle, Call, Ops
<1>. QED BY <1>2, <1>3, Numbers DEF Idle, Fitting, Found

\* What a transfer starts with.
LEMMA TransferIs ==
    ASSUME NEW op, NEW f, NEW own, NEW pos, NEW size, NEW b, NEW c,
           c = Transfer(op, f, own, pos, size, b)
    PROVE  /\ c.op = op /\ c.file = f /\ c.own = own /\ c.pos = pos
           /\ c.count = Clamp(pos, size) /\ c.done = 0 /\ c.good = 0 /\ c.got = <<>>
           /\ c.alone = NobodyWrites
BY DEF Transfer, Idle

LEMMA TransferFits ==
    ASSUME IInv, NEW op \in {"read", "write"}, NEW f \in Files, NEW own \in BOOLEAN,
           NEW pos \in Loffs, NEW size \in Counts, NEW b \in Byte, Granted(pos, size),
           device = "chardev" /\ own => pos \in Positions
    PROVE  Transfer(op, f, own, pos, size, b) \in Call
           /\ Fitting(Transfer(op, f, own, pos, size, b))
<1>1. device \in {"globalmem", "chardev"} /\ size \in Nat /\ pos >= 0
  BY SizeAssumption DEF IInv, TypeOK, Granted
<1> DEFINE n == Clamp(pos, size)
           c == Transfer(op, f, own, pos, size, b)
<1>2. /\ n \in Nat
      /\ pos \in Positions => pos + n <= SIZE
      /\ pos \notin Positions /\ device = "globalmem" => n = 0
  BY <1>1, ClampFits
<1>3. NobodyWrites \in BOOLEAN
  BY DEF NobodyWrites
<1>4. c = [Idle EXCEPT !.op = op, !.file = f, !.own = own, !.pos = pos,
                       !.count = n, !.byte = b, !.alone = NobodyWrites]
  BY DEF Transfer
<1>5. /\ c.op = op /\ c.own = own /\ c.pos = pos /\ c.count = n /\ c.done = 0 /\ c.good = 0
  BY TransferIs
<1>. HIDE DEF n, c
<1>6. c \in Call
  BY <1>2, <1>3, <1>4, IdleCall DEF Call, Ops
<1>7. Fitting(c)
  BY <1>1, <1>2, <1>5 DEF Fitting
<1>. QED BY <1>6, <1>7 DEF c

\* What a seek starts with.
LEMMA SeekFits ==
    ASSUME IInv, NEW f \in Files, NEW o \in Loffs, NEW w \in Whences, NEW c,
           c = Seek(f, o, w), device = "globalmem" /\ w = "set" => o >= 0
    PROVE  /\ c \in Call /\ Fitting(c) /\ Found(c)
           /\ c.op = "seek" /\ c.file = f /\ c.own
           /\ c.good = 0 /\ c.done = 0 /\ c.got = <<>>
<1>1. device \in {"globalmem", "chardev"} /\ f_pos[f] \in Loffs
  BY DEF IInv, TypeOK
<1> DEFINE p == Target(f, o, w)
           m == Bounded(Meant(f, o, w))
           s == Fits(f, o, w) /\ p \in Positions
<1>2. p \in Loffs /\ m \in Positions /\ (device = "chardev" => p \in Positions)
  BY <1>1, TargetInside
<1>3. s => p = m
  BY <1>1, TargetMeant
<1>4. s \in BOOLEAN /\ SIZE \in Nat /\ m \in Int
  BY <1>2, Numbers DEF Fits
<1>5. c = [Idle EXCEPT !.op = "seek", !.file = f, !.pos = p, !.to = m, !.sure = s]
  BY DEF Seek
<1>. HIDE DEF p, m, s
<1>6. /\ c.op = "seek" /\ c.file = f /\ c.own /\ c.pos = p /\ c.count = 0 /\ c.done = 0
      /\ c.good = 0 /\ c.got = <<>> /\ c.to = m /\ (c.sure <=> s) /\ ~c.faulted
  BY <1>5 DEF Idle
<1>7. c \in Call
  BY <1>2, <1>4, <1>5, IdleCall DEF Call, Ops
<1>8. Fitting(c)
  BY <1>2, <1>4, <1>6 DEF Fitting, Positions
<1>9. Found(c)
  BY <1>2, <1>3, <1>6 DEF Found
<1>. QED BY <1>6, <1>7, <1>8, <1>9

\* ... and what one starts with that will look at the position again.
LEMMA CheckFits ==
    ASSUME NEW f \in Files, NEW o \in Loffs, NEW c,
           c = Check(f, o)
    PROVE  /\ c \in Call /\ Fitting(c) /\ Found(c)
           /\ c.op = "check" /\ c.file = f /\ c.own
           /\ c.good = 0 /\ c.done = 0 /\ c.got = <<>>
<1>1. /\ c.op = "check" /\ c.file = f /\ c.own /\ c.pos = 0 /\ c.count = 0 /\ c.done = 0
      /\ c.good = 0 /\ c.got = <<>>
  BY DEF Check, Idle
<1>2. c \in Call
  BY IdleCall DEF Check, Call, Ops
<1>3. 0 \in Positions /\ SIZE \in Nat
  BY Numbers
<1>4. Fitting(c)
  BY <1>1, <1>3 DEF Fitting
<1>5. Found(c)
  BY <1>1 DEF Found
<1>. QED BY <1>1, <1>2, <1>4, <1>5

\* A thread's record that is replaced by one that fits leaves all fitting.
LEMMA StartInside ==
    ASSUME IInv, NEW t \in Threads, NEW f \in Files,
           NEW c \in Call, Fitting(c), Start(t, f, c)
    PROVE  IInv'
<1>1. /\ call' = [s \in Threads |->
                    IF s = t THEN c ELSE [call[s] EXCEPT !.alone = @ /\ c.op # "write"]]
      /\ UNCHANGED <<device, clear, mem, f_pos, asked>>
  BY DEF Start
<1>2. \A s \in Threads : call[s] \in Call /\ Fitting(call[s])
  BY DEF IInv, TypeOK, CallInside
<1>3. ASSUME NEW s \in Threads, s # t PROVE call'[s] \in Call /\ Fitting(call'[s])
  <2>1. call'[s] = [call[s] EXCEPT !.alone = @ /\ c.op # "write"]
    BY <1>1, <1>3
  <2>2. call[s] \in Call /\ (call[s].alone /\ c.op # "write") \in BOOLEAN
    BY <1>2 DEF Call
  <2>3. /\ call'[s].pos = call[s].pos /\ call'[s].count = call[s].count
        /\ call'[s].done = call[s].done /\ call'[s].good = call[s].good
        /\ call'[s].op = call[s].op /\ call'[s].own = call[s].own
    BY <2>1, <2>2 DEF Call
  <2>4. call'[s] \in Call
    BY <2>1, <2>2 DEF Call
  <2>. QED BY <1>2, <2>3, <2>4 DEF Fitting
<1>4. call' \in [Threads -> Call] /\ \A s \in Threads : Fitting(call'[s])
  BY <1>1, <1>3
<1>5. vague' \in SUBSET Files
  BY DEF Start, IInv, TypeOK
<1>6. TypeOK'
  BY <1>1, <1>4, <1>5 DEF IInv, TypeOK
<1>7. CallInside'
  BY <1>1, <1>4 DEF CallInside, Fitting
<1>8. Stays'
  BY <1>1 DEF IInv, Stays
<1>. QED BY <1>6, <1>7, <1>8 DEF IInv

LEMMA OneCall ==
    ASSUME IInv, NEW t \in Threads, NEW c \in Call, Fitting(c),
           call' = [call EXCEPT ![t] = c], device' = device
    PROVE  call' \in [Threads -> Call] /\ CallInside'
<1>1. call \in [Threads -> Call] /\ CallInside
  BY DEF IInv, TypeOK
<1>2. \A s \in Threads : call'[s] = IF s = t THEN c ELSE call[s]
  BY <1>1
<1>3. \A s \in Threads : Fitting(call'[s])
  BY <1>1, <1>2 DEF CallInside
<1>. QED BY <1>1, <1>2, <1>3 DEF CallInside, Fitting

\* A copied byte leaves the count as it was.
LEMMA CopyFits ==
    ASSUME NEW c \in Call, Fitting(c), c.done < c.count, NEW d \in Call,
           d.op = c.op, d.own = c.own, d.pos = c.pos, d.count = c.count,
           d.done = c.done + 1, d.good \in {c.good, c.good + 1}
    PROVE  Fitting(d)
<1>1. c.done \in Nat /\ c.count \in Nat /\ c.good \in Nat
  BY DEF Call
<1>. QED BY <1>1 DEF Fitting

LEMMA StepInside == IInv /\ [Next]_vars => IInv'
<1>. SUFFICES ASSUME IInv, [Next]_vars PROVE IInv'
  OBVIOUS
<1>0. /\ call \in [Threads -> Call] /\ \A s \in Threads : Fitting(call[s])
      /\ f_pos \in [Files -> Loffs] /\ device \in {"globalmem", "chardev"}
      /\ mem \in [Cells -> Byte] /\ asked \in [Files -> Int] /\ vague \in SUBSET Files
      /\ Stays
  BY DEF IInv, TypeOK, CallInside
<1>1. CASE UNCHANGED vars
  BY <1>1 DEF vars, IInv, TypeOK, Stays, CallInside, Fitting
<1>2. CASE ClearByte
  <2>1. clear' \in Positions
    BY <1>2, Numbers DEF ClearByte, IInv, TypeOK, Positions
  <2>2. mem' \in [Cells -> Byte]
    BY <1>0, <1>2, Numbers DEF ClearByte
  <2>. QED BY <1>2, <2>1, <2>2 DEF ClearByte, IInv, TypeOK, Stays, CallInside, Fitting
<1>3. ASSUME NEW f \in Files, Open(f) PROVE IInv'
  <2>1. f_pos' \in [Files -> Loffs] /\ Stays'
    BY <1>0, <1>3, Numbers DEF Open, Stays
  <2>2. asked' \in [Files -> Int] /\ vague' \in SUBSET Files
    BY <1>0, <1>3 DEF Open
  <2>. QED BY <1>3, <2>1, <2>2 DEF Open, IInv, TypeOK, CallInside, Fitting
<1>4. ASSUME NEW t \in Threads, NEW f \in Files, NEW n \in Counts, ReadStart(t, f, n)
      PROVE  IInv'
  <2>1. f_pos[f] \in Loffs /\ (device = "chardev" => f_pos[f] \in Positions)
    BY <1>0 DEF Stays
  <2>. QED BY <1>4, <2>1, TransferFits, StartInside, Numbers DEF ReadStart
<1>5. ASSUME NEW t \in Threads, NEW f \in Files, NEW n \in Counts, NEW b \in Byte,
             WriteStart(t, f, n, b)
      PROVE  IInv'
  <2>1. f_pos[f] \in Loffs /\ (device = "chardev" => f_pos[f] \in Positions)
    BY <1>0 DEF Stays
  <2>. QED BY <1>5, <2>1, TransferFits, StartInside DEF WriteStart
<1>6. ASSUME NEW t \in Threads, NEW f \in Files, NEW p \in Places, NEW n \in Counts,
             PreadStart(t, f, p, n)
      PROVE  IInv'
  BY <1>6, TransferFits, StartInside, Numbers, SizeAssumption DEF PreadStart
<1>7. ASSUME NEW t \in Threads, NEW f \in Files, NEW p \in Places, NEW n \in Counts,
             NEW b \in Byte, PwriteStart(t, f, p, n, b)
      PROVE  IInv'
  BY <1>7, TransferFits, StartInside, SizeAssumption DEF PwriteStart
<1>8. ASSUME NEW t \in Threads, NEW f \in Files, NEW o \in Offsets, NEW w \in Whences,
             SeekStart(t, f, o, w)
      PROVE  IInv'
  BY <1>8, SeekFits, StartInside, SizeAssumption DEF SeekStart
<1>9. ASSUME NEW t \in Threads, NEW f \in Files, NEW o \in Offsets, SeekCheck(t, f, o)
      PROVE  IInv'
  BY <1>9, CheckFits, StartInside, SizeAssumption DEF SeekCheck
<1>10. ASSUME NEW t \in Threads, SeekCheckAgain(t) PROVE IInv'
  <2> DEFINE c == IF Target(call[t].file, call[t].offset, "cur") < 0 THEN Idle
                  ELSE [call[t] EXCEPT !.op = "add"]
  <2>1. call' = [call EXCEPT ![t] = c] /\ call[t] \in Call /\ Fitting(call[t])
        /\ call[t].op = "check"
    BY <1>0, <1>10 DEF SeekCheckAgain
  <2>2. [call[t] EXCEPT !.op = "add"] \in Call /\ Fitting([call[t] EXCEPT !.op = "add"])
    BY <2>1 DEF Call, Ops, Fitting
  <2>3. c \in Call /\ Fitting(c)
    BY <2>2, IdleCall
  <2>4. call' \in [Threads -> Call] /\ CallInside'
    BY <1>10, <2>1, <2>3, OneCall DEF SeekCheckAgain
  <2>. QED BY <1>10, <2>4 DEF SeekCheckAgain, IInv, TypeOK, Stays
<1>11. ASSUME NEW t \in Threads, SeekAdd(t) PROVE IInv'
  <2> DEFINE c == Seek(call[t].file, call[t].offset, "cur")
  <2>1. call' = [call EXCEPT ![t] = c] /\ call[t].file \in Files /\ call[t].offset \in Loffs
    BY <1>0, <1>11 DEF SeekAdd, Call
  <2>2. c \in Call /\ Fitting(c)
    BY <2>1, SeekFits DEF Whences
  <2>3. call' \in [Threads -> Call] /\ CallInside'
    BY <1>11, <2>1, <2>2, OneCall DEF SeekAdd
  <2>. QED BY <1>11, <2>3 DEF SeekAdd, IInv, TypeOK, Stays
<1>12. ASSUME NEW t \in Threads, ReadByte(t) PROVE IInv'
  <2> DEFINE c == call[t]
  <2>1. PICK b \in IF Source(c) \in Cells THEN {mem[Source(c)]} ELSE Byte :
           call' = [call EXCEPT ![t].got = Append(@, b), ![t].done = @ + 1, ![t].good = @ + 1]
    BY <1>12 DEF ReadByte
  <2> DEFINE d == [c EXCEPT !.got = Append(@, b), !.done = @ + 1, !.good = @ + 1]
  <2>2. call' = [call EXCEPT ![t] = d]
    BY <2>1
  <2>3. c \in Call /\ Fitting(c) /\ c.done < c.count
    BY <1>0, <1>12 DEF ReadByte, Copying
  <2>4. b \in Byte
    BY <1>0, <2>1
  <2>. HIDE DEF c
  <2>5. Append(c.got, b) \in Seq(Byte) /\ c.done + 1 \in Nat /\ c.good + 1 \in Nat
    <3>1. c.got \in Seq(Byte) /\ c.done \in Nat /\ c.good \in Nat
      BY <2>3 DEF Call
    <3>. QED BY <3>1, <2>4
  <2>6. d \in Call
    BY <2>3, <2>5 DEF Call
  <2>7. /\ d.op = c.op /\ d.own = c.own /\ d.pos = c.pos /\ d.count = c.count
        /\ d.done = c.done + 1 /\ d.good = c.good + 1
    BY <2>3 DEF Call
  <2>. HIDE DEF d
  <2>8. Fitting(d)
    BY <2>3, <2>6, <2>7, CopyFits
  <2>9. call' \in [Threads -> Call] /\ CallInside'
    BY <1>12, <2>2, <2>6, <2>8, OneCall DEF ReadByte
  <2>. QED BY <1>12, <2>9 DEF ReadByte, IInv, TypeOK, Stays
<1>13. ASSUME NEW t \in Threads, WriteByte(t) PROVE IInv'
  <2> DEFINE c == call[t]
             g == IF c.faulted THEN c.good ELSE c.good + 1
             d == [c EXCEPT !.done = @ + 1, !.good = g]
  <2>1. call' = [call EXCEPT ![t] = d]
    BY <1>13 DEF WriteByte
  <2>2. c \in Call /\ Fitting(c) /\ c.done < c.count
    BY <1>0, <1>13 DEF WriteByte, Copying
  <2>3. mem' \in [Cells -> Byte]
    <3>1. (IF c.faulted THEN 0 ELSE c.byte) \in Byte
      BY <2>2, Numbers DEF Call
    <3>. QED BY <1>0, <1>13, <3>1 DEF WriteByte
  <2>. HIDE DEF c
  <2>4. c.done + 1 \in Nat /\ g \in Nat /\ g \in {c.good, c.good + 1}
    BY <2>2 DEF Call
  <2>. HIDE DEF g
  <2>5. d \in Call
    BY <2>2, <2>4 DEF Call
  <2>6. /\ d.op = c.op /\ d.own = c.own /\ d.pos = c.pos /\ d.count = c.count
        /\ d.done = c.done + 1 /\ d.good = g
    BY <2>2 DEF Call
  <2>. HIDE DEF d
  <2>7. Fitting(d)
    BY <2>2, <2>4, <2>5, <2>6, CopyFits
  <2>8. call' \in [Threads -> Call] /\ CallInside'
    BY <1>13, <2>1, <2>5, <2>7, OneCall DEF WriteByte
  <2>. QED BY <1>13, <2>3, <2>8 DEF WriteByte, IInv, TypeOK, Stays
<1>14. ASSUME NEW t \in Threads, Fault(t) PROVE IInv'
  <2> DEFINE d == [call[t] EXCEPT !.faulted = TRUE]
  <2>1. call' = [call EXCEPT ![t] = d]
    BY <1>14 DEF Fault
  <2>2. d \in Call
    BY <1>0 DEF Call
  <2>3. /\ d.op = call[t].op /\ d.own = call[t].own /\ d.pos = call[t].pos
        /\ d.count = call[t].count /\ d.done = call[t].done /\ d.good = call[t].good
    BY <1>0 DEF Call
  <2>4. Fitting(d)
    BY <1>0, <2>3 DEF Fitting
  <2>5. call' \in [Threads -> Call] /\ CallInside'
    BY <1>14, <2>1, <2>2, <2>4, OneCall DEF Fault
  <2>. QED BY <1>14, <2>5 DEF Fault, IInv, TypeOK, Stays
<1>15. ASSUME NEW t \in Threads, Return(t) PROVE IInv'
  <2> DEFINE c == call[t]
  <2>1. c \in Call /\ Fitting(c) /\ c.own
    BY <1>0, <1>15 DEF Return
  <2>2. c.file \in Files /\ c.to \in Int /\ c.good \in Nat /\ c.pos \in Loffs
        /\ c.count \in Nat /\ c.done \in Nat
    BY <2>1 DEF Call
  <2>3. c.pos + c.good \in Loffs /\ (device = "chardev" => c.pos + c.good \in Positions)
    <3>1. CASE c.pos \in Positions
      <4>1. c.pos + c.good \in Positions
        BY <2>1, <2>2, <3>1, Numbers DEF Fitting, Positions
      <4>. QED BY <4>1, Numbers
    <3>2. CASE c.pos \notin Positions
      <4>1. device = "globalmem" /\ c.count = 0
        BY <1>0, <2>1, <3>2 DEF Fitting
      <4>2. c.good = 0
        <5>1. c.done <= c.count /\ c.good <= c.done
          BY <2>1 DEF Fitting
        <5>2. \A n, d, g \in Nat : n = 0 /\ d <= n /\ g <= d => g = 0
          OBVIOUS
        <5>. QED BY <2>2, <4>1, <5>1, <5>2
      <4>3. c.pos + c.good = c.pos
        <5>1. c.pos \in Int
          BY <2>2, Numbers
        <5>2. \A p \in Int : p + 0 = p
          OBVIOUS
        <5>. QED BY <4>2, <5>1, <5>2
      <4>. QED BY <2>2, <4>1, <4>3
    <3>. QED BY <3>1, <3>2
  <2>4. f_pos' \in [Files -> Loffs] /\ Stays'
    <3>1. f_pos' = f_pos \/ f_pos' = [f_pos EXCEPT ![c.file] = c.pos + c.good]
      BY <1>15 DEF Return, Moved
    <3>2. device' = device
      BY <1>15 DEF Return
    <3>. QED BY <1>0, <2>2, <2>3, <3>1, <3>2 DEF Stays
  <2>5. call' \in [Threads -> Call] /\ CallInside'
    BY <1>15, IdleCall, OneCall DEF Return
  <2>6. vague' \in SUBSET Files
    BY <1>15, <1>0, <2>2 DEF Return
  <2>7. asked' \in [Files -> Int]
    <3> DEFINE a == CASE c.file \in vague' -> 0
                      [] c.op = "seek" -> c.to
                      [] Failed(c) -> asked[c.file]
                      [] OTHER -> asked[c.file] + c.good
    <3>1. asked' = [asked EXCEPT ![c.file] = a]
      BY <1>15 DEF Return
    <3>2. a \in Int
      BY <1>0, <2>2
    <3>. QED BY <1>0, <3>1, <3>2
  <2>. QED BY <1>15, <2>4, <2>5, <2>6, <2>7 DEF Return, IInv, TypeOK
<1>16. ASSUME NEW t \in Threads, PReturn(t) PROVE IInv'
  <2>1. call' \in [Threads -> Call] /\ CallInside'
    BY <1>16, IdleCall, OneCall DEF PReturn
  <2>. QED BY <1>16, <2>1 DEF PReturn, IInv, TypeOK, Stays
<1>. QED
  BY <1>1, <1>2, <1>3, <1>4, <1>5, <1>6, <1>7, <1>8, <1>9, <1>10, <1>11, <1>12, <1>13,
     <1>14, <1>15, <1>16 DEF Next

LEMMA InitInside == Init => IInv
<1>. SUFFICES ASSUME Init PROVE IInv
  OBVIOUS
<1>1. TypeOK
  BY IdleCall, Numbers DEF Init, TypeOK, Positions, Cells
<1>2. Stays /\ CallInside
  BY IdleCall, Numbers DEF Init, Stays, CallInside
<1>. QED BY <1>1, <1>2 DEF IInv

\* Every value stays in its type: the clearing stops at the end of the buffer, and
\* positions wrap as loff_t does.
THEOREM TypeCorrect == Spec => []TypeOK
BY InitInside, StepInside, PTL DEF Spec, IInv

\* No call copies a byte from or to outside the buffer, but for chardev's pread and
\* pwrite past its end.
THEOREM CopiesInside == Spec => []CopyInside
<1>1. IInv => CopyInside
  <2>. SUFFICES ASSUME IInv, NEW t \in Threads, Copying(t)
               PROVE  \/ (IF call[t].op = "read" THEN Source(call[t]) ELSE Sink(call[t])) \in Cells
                      \/ device = "chardev" /\ ~call[t].own /\ call[t].pos > SIZE
    BY DEF CopyInside
  <2> DEFINE c == call[t]
  <2>1. c \in Call /\ Fitting(c) /\ device \in {"globalmem", "chardev"}
    BY DEF IInv, TypeOK, CallInside
  <2>2. c.op \in {"read", "write"} /\ c.done < c.count
    BY DEF Copying
  <2>3. c.done \in Nat /\ c.count \in Nat /\ c.pos \in Int /\ SIZE \in Nat
    BY <2>1, Numbers DEF Call
  <2>. HIDE DEF c
  <2>4. CASE c.pos \in Positions
    BY <2>1, <2>2, <2>3, <2>4, SMTT(20) DEF Fitting, Positions, Cells, Source, Sink, c
  <2>5. CASE c.pos \notin Positions
    BY <2>1, <2>2, <2>3, <2>5, SMTT(20) DEF Fitting, Positions, c
  <2>. QED BY <2>4, <2>5
<1>. QED BY <1>1, InitInside, StepInside, PTL DEF Spec

-----------------------------------------------------------------------------
(* A position is where it was asked to be.                                 *)

\* What Lonely asks of the call of one thread.
Kept(c, pos) == c.op \in {"read", "write"} => c.pos = pos

LEMMA StartLonely ==
    ASSUME IInv, Lonely, Sought, NEW t \in Threads, NEW f \in Files, NEW c,
           c.op # "none", c.file = f, c.own => Kept(c, f_pos[f]), Found(c),
           Start(t, f, c)
    PROVE  Lonely' /\ Sought'
<1>0. call[t].op = "none"
  BY DEF Start
<1>1. /\ call'[t] = c
      /\ \A s \in Threads \ {t} :
           /\ call'[s].op = call[s].op /\ call'[s].file = call[s].file
           /\ call'[s].pos = call[s].pos /\ call'[s].to = call[s].to
           /\ call'[s].sure = call[s].sure /\ call'[s].good = call[s].good
           /\ call'[s].faulted = call[s].faulted /\ call'[s].own = call[s].own
  BY DEF Start, IInv, TypeOK, Call
<1>2. ASSUME NEW g \in Files \ vague' PROVE
        /\ f_pos'[g] = asked'[g] /\ f_pos'[g] \in Positions
        /\ \A r, s \in Busy(g)' : r = s
        /\ \A s \in Busy(g)' : Kept(call'[s], f_pos'[g])
  <2>1. g \in Files \ vague /\ f_pos' = f_pos /\ asked' = asked
    BY <1>2 DEF Start
  <2>2. /\ f_pos[g] = asked[g] /\ f_pos[g] \in Positions
        /\ \A r, s \in Busy(g) : r = s
        /\ \A s \in Busy(g) : Kept(call[s], f_pos[g])
    BY <2>1 DEF Lonely, Kept
  <2>3. CASE g = f /\ c.own
    <3>1. Busy(f) = {}
      BY <1>2, <2>3 DEF Start
    <3>2. \A s \in Busy(f)' : s = t
      BY <1>1, <3>1 DEF Busy
    <3>. QED BY <1>1, <2>1, <2>2, <2>3, <3>2
  <2>4. CASE g # f \/ ~c.own
    <3>1. t \notin Busy(g)'
      BY <1>1, <2>4 DEF Busy
    <3>2. \A s \in Busy(g)' : s \in Threads \ {t} /\ s \in Busy(g)
      BY <1>1, <3>1 DEF Busy
    <3>. QED BY <1>1, <2>1, <2>2, <3>2 DEF Kept
  <2>. QED BY <2>3, <2>4
<1>3. Sought'
  BY <1>1 DEF Sought, Found
<1>. QED BY <1>2, <1>3 DEF Lonely, Kept

\* A step inside a call, or the end of one that stores nothing, leaves what Lonely
\* speaks of.
LEMMA CopyLonely ==
    ASSUME IInv, Lonely, Sought, NEW t \in Threads, NEW c,
           call' = [call EXCEPT ![t] = c],
           c.op # "none" /\ c.own =>
               call[t].op # "none" /\ call[t].own /\ c.file = call[t].file,
           c.op \in {"read", "write"} /\ c.own =>
               call[t].op \in {"read", "write"} /\ c.pos = call[t].pos,
           Found(c), UNCHANGED <<f_pos, asked, vague>>
    PROVE  Lonely' /\ Sought'
<1>1. call'[t] = c /\ \A s \in Threads \ {t} : call'[s] = call[s]
  BY DEF IInv, TypeOK
<1>2. \A g \in Files : Busy(g)' \subseteq Busy(g)
  BY <1>1 DEF Busy
<1>3. ASSUME NEW g \in Files \ vague', NEW s \in Busy(g)' PROVE Kept(call'[s], f_pos'[g])
  <2>1. s \in Busy(g) /\ g \in Files \ vague /\ f_pos' = f_pos
    BY <1>2, <1>3
  <2>2. Kept(call[s], f_pos[g])
    BY <2>1 DEF Lonely, Kept
  <2>3. CASE s = t
    <3>1. c.own
      BY <1>1, <1>3, <2>3 DEF Busy
    <3>. QED BY <1>1, <2>1, <2>2, <2>3, <3>1 DEF Kept
  <2>4. CASE s # t
    BY <1>1, <2>1, <2>2, <2>4 DEF Kept, Busy
  <2>. QED BY <2>3, <2>4
<1>4. Sought'
  BY <1>1 DEF Sought
<1>5. ASSUME NEW g \in Files \ vague' PROVE
        /\ f_pos'[g] = asked'[g] /\ f_pos'[g] \in Positions
        /\ \A r, s \in Busy(g)' : r = s
  BY <1>2, <1>5 DEF Lonely
<1>. QED BY <1>3, <1>4, <1>5 DEF Lonely, Kept

LEMMA ReturnLonely ==
    ASSUME IInv, Lonely, Sought, NEW t \in Threads, Return(t),
           NEW c, c = call[t], NEW f, f = c.file
    PROVE  Lonely' /\ Sought'
<1>0. /\ f_pos \in [Files -> Loffs] /\ asked \in [Files -> Int] /\ call \in [Threads -> Call]
      /\ vague \in SUBSET Files /\ c \in Call
  BY DEF IInv, TypeOK
<1>1. /\ f_pos \in [Files -> Loffs] /\ asked \in [Files -> Int] /\ call \in [Threads -> Call]
      /\ vague \in SUBSET Files /\ f \in Files /\ c.op \in Ops
      /\ c.pos \in Int /\ c.good \in Nat /\ c.own /\ Fitting(c)
  <2>1. c.file \in Files /\ c.op \in Ops /\ c.pos \in Loffs /\ c.good \in Nat
    BY <1>0 DEF Call
  <2>2. c.own /\ Fitting(c)
    BY DEF Return, IInv, CallInside
  <2>. QED BY <1>0, <2>1, <2>2, Numbers
<1>2. /\ call'[t].op = "none"
      /\ \A s \in Threads \ {t} : call'[s] = call[s]
  BY <1>1, IdleCall DEF Return
<1>3. c.op # "none" /\ t \in Busy(f)
  BY <1>1 DEF Return, Over, Busy
<1>4. ASSUME NEW g \in Files \ vague', g # f PROVE
        /\ f_pos'[g] = asked'[g] /\ f_pos'[g] \in Positions
        /\ \A r, s \in Busy(g)' : r = s
        /\ \A s \in Busy(g)' : Kept(call'[s], f_pos'[g])
  <2>1. g \in Files \ vague /\ f_pos'[g] = f_pos[g] /\ asked'[g] = asked[g]
    BY <1>1, <1>4 DEF Return
  <2>2. \A s \in Busy(g)' : s \in Busy(g) /\ call'[s] = call[s]
    BY <1>2 DEF Busy
  <2>. QED BY <2>1, <2>2 DEF Lonely, Kept
<1>5. ASSUME f \notin vague'
      PROVE  Busy(f) = {t}
  <2>1. CASE c.op = "seek"
    BY <1>1, <1>5, <2>1 DEF Return
  <2>2. CASE c.op # "seek"
    <3>1. f \in Files \ vague
      BY <1>1, <1>5, <2>2 DEF Return
    <3>. QED BY <1>3, <3>1 DEF Lonely
  <2>. QED BY <2>1, <2>2
<1>6. ASSUME f \notin vague'
      PROVE  f_pos'[f] = asked'[f] /\ f_pos'[f] \in Positions
  <2>1. CASE c.op = "seek"
    <3>1. c.sure
      BY <1>1, <1>6, <2>1 DEF Return
    <3>2. c.pos = c.to /\ c.good = 0 /\ c.to \in Positions
      BY <2>1, <3>1 DEF Sought, Found
    <3>6. ~c.faulted
      BY <2>1 DEF Sought, Found
    <3>3. asked'[f] = c.to
      BY <1>1, <1>6, <2>1, <3>6 DEF Return, Failed
    <3>4. f_pos'[f] = IF Failed(c) THEN f_pos[f] ELSE c.pos + c.good
      BY <1>1 DEF Return, Moved
    <3>5. ~Failed(c)
      BY <3>6 DEF Failed
    <3>. QED BY <1>1, <3>2, <3>3, <3>4, <3>5
  <2>2. CASE c.op # "seek"
    <3>1. f \in Files \ vague /\ c.op \in {"read", "write"}
      BY <1>1, <1>3, <1>6, <2>2 DEF Return, Over
    <3>2. f_pos[f] = asked[f] /\ c.pos = f_pos[f] /\ f_pos[f] \in Positions
      BY <1>3, <3>1 DEF Lonely
    <3>5. c.pos + c.good \in Positions
      <4>1. c.pos + c.count <= SIZE /\ c.good <= c.done /\ c.done <= c.count
        BY <1>1, <3>2 DEF Fitting
      <4>2. c.count \in Nat /\ c.done \in Nat /\ c.pos \in 0..SIZE /\ SIZE \in Nat
        BY <1>0, <3>2, Numbers DEF Call, Positions
      <4>. QED BY <1>1, <4>1, <4>2 DEF Positions
    <3>3. f_pos'[f] = IF Failed(c) THEN f_pos[f] ELSE c.pos + c.good
      BY <1>1 DEF Return, Moved
    <3>4. asked'[f] = IF Failed(c) THEN asked[f] ELSE asked[f] + c.good
      BY <1>1, <1>6, <2>2 DEF Return
    <3>. QED BY <3>2, <3>3, <3>4, <3>5
  <2>. QED BY <2>1, <2>2
<1>7. ASSUME f \notin vague' PROVE Busy(f)' = {}
  <2>1. \A s \in Busy(f)' : s \in Busy(f) /\ s # t
    BY <1>2 DEF Busy
  <2>. QED BY <1>5, <1>7, <2>1
<1>8. Lonely'
  <2>. SUFFICES ASSUME NEW g \in Files \ vague'
               PROVE  /\ f_pos'[g] = asked'[g] /\ f_pos'[g] \in Positions
                      /\ \A r, s \in Busy(g)' : r = s
                      /\ \A s \in Busy(g)' : Kept(call'[s], f_pos'[g])
    BY DEF Lonely, Kept
  <2>1. CASE g = f
    BY <1>6, <1>7, <2>1
  <2>2. CASE g # f
    BY <1>4, <2>2
  <2>. QED BY <2>1, <2>2
<1>9. Sought'
  BY <1>2 DEF Sought, Found
<1>. QED BY <1>8, <1>9

LEMMA StepLonely == IInv /\ Lonely /\ Sought /\ [Next]_vars => Lonely' /\ Sought'
<1>. SUFFICES ASSUME IInv, Lonely, Sought, [Next]_vars PROVE Lonely' /\ Sought'
  OBVIOUS
<1>0. call \in [Threads -> Call] /\ f_pos \in [Files -> Loffs] /\ asked \in [Files -> Int]
  BY DEF IInv, TypeOK
<1>1. CASE UNCHANGED vars
  BY <1>1 DEF vars, Lonely, Sought, Found, Busy
<1>2. CASE ClearByte
  BY <1>2 DEF ClearByte, Lonely, Sought, Found, Busy
<1>3. ASSUME NEW f \in Files, Open(f) PROVE Lonely' /\ Sought'
  <2>1. /\ Busy(f) = {} /\ f_pos'[f] = asked'[f] /\ f_pos'[f] \in Positions
        /\ call' = call
    BY <1>0, <1>3, Numbers DEF Open
  <2>2. \A g \in Files : Busy(g)' = Busy(g)
    BY <2>1 DEF Busy
  <2>3. ASSUME NEW g \in Files \ vague', g # f
        PROVE  g \notin vague /\ f_pos'[g] = f_pos[g] /\ asked'[g] = asked[g]
    BY <1>0, <1>3, <2>3 DEF Open
  <2>4. Sought'
    BY <2>1 DEF Sought, Found
  <2>. QED BY <2>1, <2>2, <2>3, <2>4 DEF Lonely
<1>4. ASSUME NEW t \in Threads, NEW f \in Files, NEW op \in {"read", "write"},
             NEW own \in BOOLEAN, NEW pos, own => pos = f_pos[f], NEW n, NEW b,
             Start(t, f, Transfer(op, f, own, pos, n, b))
      PROVE  Lonely' /\ Sought'
  <2> DEFINE c == Transfer(op, f, own, pos, n, b)
  <2>1. c.op = op /\ c.file = f /\ c.own = own /\ c.pos = pos
    BY TransferIs
  <2>. HIDE DEF c
  <2>2. (c.own => Kept(c, f_pos[f])) /\ Found(c)
    BY <1>4, <2>1 DEF Kept, Found
  <2>3. Start(t, f, c)
    BY <1>4 DEF c
  <2>. QED BY <2>1, <2>2, <2>3, StartLonely
<1>5. ASSUME NEW t \in Threads, NEW f \in Files, NEW n \in Counts, ReadStart(t, f, n)
      PROVE  Lonely' /\ Sought'
  BY <1>4, <1>5 DEF ReadStart
<1>6. ASSUME NEW t \in Threads, NEW f \in Files, NEW n \in Counts, NEW b \in Byte,
             WriteStart(t, f, n, b)
      PROVE  Lonely' /\ Sought'
  BY <1>4, <1>6 DEF WriteStart
<1>7. ASSUME NEW t \in Threads, NEW f \in Files, NEW p \in Places, NEW n \in Counts,
             PreadStart(t, f, p, n)
      PROVE  Lonely' /\ Sought'
  BY <1>4, <1>7 DEF PreadStart
<1>8. ASSUME NEW t \in Threads, NEW f \in Files, NEW p \in Places, NEW n \in Counts,
             NEW b \in Byte, PwriteStart(t, f, p, n, b)
      PROVE  Lonely' /\ Sought'
  BY <1>4, <1>8 DEF PwriteStart
<1>9. ASSUME NEW t \in Threads, NEW f \in Files, NEW o \in Offsets, NEW w \in Whences,
             SeekStart(t, f, o, w)
      PROVE  Lonely' /\ Sought'
  <2> DEFINE c == Seek(f, o, w)
  <2>1. c.op = "seek" /\ c.file = f /\ Found(c) /\ Start(t, f, c)
    BY <1>9, SeekFits, SizeAssumption DEF SeekStart
  <2>. HIDE DEF c
  <2>2. Kept(c, f_pos[f])
    BY <2>1 DEF Kept
  <2>. QED BY <2>1, <2>2, StartLonely
<1>10. ASSUME NEW t \in Threads, NEW f \in Files, NEW o \in Offsets, SeekCheck(t, f, o)
      PROVE  Lonely' /\ Sought'
  <2> DEFINE c == Check(f, o)
  <2>0. o \in Loffs /\ Start(t, f, c)
    BY <1>10, SizeAssumption DEF SeekCheck
  <2>1. c.op = "check" /\ c.file = f /\ Found(c) /\ Start(t, f, c)
    BY <2>0, CheckFits
  <2>. HIDE DEF c
  <2>2. Kept(c, f_pos[f])
    BY <2>1 DEF Kept
  <2>. QED BY <2>1, <2>2, StartLonely
<1>11. ASSUME NEW t \in Threads, SeekCheckAgain(t) PROVE Lonely' /\ Sought'
  <2> DEFINE c == IF Target(call[t].file, call[t].offset, "cur") < 0 THEN Idle
                  ELSE [call[t] EXCEPT !.op = "add"]
  <2>1. call' = [call EXCEPT ![t] = c] /\ UNCHANGED <<f_pos, asked, vague>>
        /\ call[t].op = "check" /\ call[t] \in Call
    BY <1>0, <1>11 DEF SeekCheckAgain
  <2>2. c = Idle \/ (c.op = "add" /\ c.own = call[t].own /\ c.file = call[t].file)
    BY <2>1 DEF Call
  <2>. HIDE DEF c
  <2>3. Found(c)
    BY <2>2, IdleCall DEF Found
  <2>4. /\ c.op # "none" /\ c.own => /\ call[t].op # "none" /\ call[t].own
                                    /\ c.file = call[t].file
        /\ c.op \notin {"read", "write"}
    BY <2>1, <2>2, IdleCall
  <2>. QED BY <2>1, <2>3, <2>4, CopyLonely
<1>12. ASSUME NEW t \in Threads, SeekAdd(t) PROVE Lonely' /\ Sought'
  <2> DEFINE c == Seek(call[t].file, call[t].offset, "cur")
  <2>1. call' = [call EXCEPT ![t] = c] /\ UNCHANGED <<f_pos, asked, vague>>
        /\ call[t].op = "add" /\ call[t].file \in Files /\ call[t].offset \in Loffs
    BY <1>0, <1>12 DEF SeekAdd, Call
  <2>2. c.op = "seek" /\ c.file = call[t].file /\ Found(c)
    BY <2>1, SeekFits DEF Whences
  <2>. HIDE DEF c
  <2>3. call[t].own
    BY <2>1 DEF IInv, CallInside, Fitting
  <2>. QED BY <2>1, <2>2, <2>3, CopyLonely
<1>13. ASSUME NEW t \in Threads, ReadByte(t) PROVE Lonely' /\ Sought'
  <2>1. PICK b : call' = [call EXCEPT ![t].got = Append(@, b), ![t].done = @ + 1,
                                      ![t].good = @ + 1]
    BY <1>13 DEF ReadByte
  <2> DEFINE c == [call[t] EXCEPT !.got = Append(@, b), !.done = @ + 1, !.good = @ + 1]
  <2>2. call' = [call EXCEPT ![t] = c] /\ UNCHANGED <<f_pos, asked, vague>>
    BY <1>13, <2>1 DEF ReadByte
  <2>3. call[t] \in Call /\ call[t].op = "read"
    BY <1>0, <1>13 DEF ReadByte
  <2>4. /\ c.op = call[t].op /\ c.file = call[t].file /\ c.pos = call[t].pos
        /\ c.own = call[t].own
    BY <2>3 DEF Call
  <2>. HIDE DEF c
  <2>. QED BY <2>2, <2>3, <2>4, CopyLonely DEF Found
<1>14. ASSUME NEW t \in Threads, WriteByte(t) PROVE Lonely' /\ Sought'
  <2> DEFINE c == [call[t] EXCEPT !.done = @ + 1,
                                  !.good = IF call[t].faulted THEN @ ELSE @ + 1]
  <2>1. call' = [call EXCEPT ![t] = c] /\ UNCHANGED <<f_pos, asked, vague>>
    BY <1>14 DEF WriteByte
  <2>2. call[t] \in Call /\ call[t].op = "write"
    BY <1>0, <1>14 DEF WriteByte
  <2>3. /\ c.op = call[t].op /\ c.file = call[t].file /\ c.pos = call[t].pos
        /\ c.own = call[t].own
    BY <2>2 DEF Call
  <2>. HIDE DEF c
  <2>. QED BY <2>1, <2>2, <2>3, CopyLonely DEF Found
<1>15. ASSUME NEW t \in Threads, Fault(t) PROVE Lonely' /\ Sought'
  <2> DEFINE c == [call[t] EXCEPT !.faulted = TRUE]
  <2>1. call' = [call EXCEPT ![t] = c] /\ UNCHANGED <<f_pos, asked, vague>>
    BY <1>15 DEF Fault
  <2>2. call[t] \in Call /\ call[t].op \in {"read", "write"}
    BY <1>0, <1>15 DEF Fault, Copying
  <2>3. /\ c.op = call[t].op /\ c.file = call[t].file /\ c.pos = call[t].pos
        /\ c.own = call[t].own
    BY <2>2 DEF Call
  <2>. HIDE DEF c
  <2>. QED BY <2>1, <2>2, <2>3, CopyLonely DEF Found
<1>16. ASSUME NEW t \in Threads, Return(t) PROVE Lonely' /\ Sought'
  BY <1>16, ReturnLonely
<1>17. ASSUME NEW t \in Threads, PReturn(t) PROVE Lonely' /\ Sought'
  BY <1>17, IdleCall, CopyLonely DEF PReturn
<1>. QED
  BY <1>1, <1>2, <1>3, <1>5, <1>6, <1>7, <1>8, <1>9, <1>10, <1>11, <1>12, <1>13, <1>14,
     <1>15, <1>16, <1>17 DEF Next

LEMMA InitLonely == Init => Lonely /\ Sought
BY IdleCall, Numbers DEF Init, Lonely, Sought, Busy

\* Unless calls on a file overlapped, or a seek was to what its type cannot hold,
\* the file is exactly where the seeks and transfers have put it.
THEOREM PositionsAsAsked == Spec => []PositionAsAsked
<1>1. Lonely => PositionAsAsked
  BY DEF Lonely, PositionAsAsked
<1>. QED BY <1>1, InitLonely, InitInside, StepInside, StepLonely, PTL DEF Spec

\* However calls are ordered, chardev's positions stay inside the buffer, and
\* globalMem's while the calls on a file do not overlap.
THEOREM PositionsInside == Spec => []PositionInside
<1>1. IInv /\ Lonely => PositionInside
  BY DEF IInv, TypeOK, Stays, Lonely, PositionInside
<1>. QED BY <1>1, InitLonely, InitInside, StepInside, StepLonely, PTL DEF Spec

-----------------------------------------------------------------------------
(* A call that was alone is atomic.                                        *)

\* Where byte i of a read comes from.
From(c, i) == IF device = "globalmem" THEN c.pos + i ELSE i

\* What went through so far: the bytes written stand in memory up to the fault, the
\* bytes read are those that memory holds.
Written(t) ==
    LET c == call[t] IN
    /\ ~c.faulted => c.good = c.done
    /\ \A i \in 0..c.good - 1 : mem[c.pos + i] = c.byte

Taken(t) ==
    LET c == call[t] IN
    /\ c.good = c.done
    /\ Len(c.got) = c.good
    /\ \A i \in 0..c.good - 1 : c.got[i + 1] = mem[From(c, i)]

\* The load is over, nobody else writes, and all that went through is there.
Sound(t) ==
    /\ clear = SIZE
    /\ \A s \in Threads \ {t} : call[s].op # "write"
    /\ call[t].op = "write" => Written(t)
    /\ call[t].op = "read" => Taken(t)

Moves(c) == c.op \in {"read", "write"} /\ c.alone /\ c.pos \in Positions

AloneInv == \A t \in Threads : Moves(call[t]) => Sound(t)

LEMMA StartAlone ==
    ASSUME IInv, AloneInv, NEW t \in Threads, NEW f \in Files, NEW c \in Call,
           c.alone => c.op \in {"check", "seek"} \/ NobodyWrites,
           c.good = 0, c.done = 0, c.got = <<>>, Start(t, f, c)
    PROVE  AloneInv'
<1>1. /\ call'[t] = c
      /\ \A s \in Threads \ {t} :
           call'[s] = [call[s] EXCEPT !.alone = call[s].alone /\ c.op # "write"]
      /\ UNCHANGED <<device, clear, mem>>
  BY DEF Start
<1>2. \A s \in Threads : call[s] \in Call
  BY DEF IInv, TypeOK
<1>3. ASSUME NEW s \in Threads \ {t} PROVE
        /\ call'[s].op = call[s].op /\ call'[s].pos = call[s].pos
        /\ call'[s].done = call[s].done /\ call'[s].good = call[s].good
        /\ call'[s].faulted = call[s].faulted /\ call'[s].byte = call[s].byte
        /\ call'[s].got = call[s].got
        /\ call'[s].alone = (call[s].alone /\ c.op # "write")
  <2>1. call'[s] = [call[s] EXCEPT !.alone = call[s].alone /\ c.op # "write"]
    BY <1>1
  <2>2. call[s] \in Call
    BY <1>2
  <2>. QED BY <2>1, <2>2 DEF Call
<1>4. Moves(c) => Sound(t)'
  <2>. SUFFICES ASSUME Moves(c) PROVE Sound(t)'
    OBVIOUS
  <2>1. NobodyWrites
    BY DEF Moves
  <2>2. clear' = SIZE /\ \A s \in Threads \ {t} : call'[s].op # "write"
    BY <1>1, <1>3, <2>1 DEF NobodyWrites
  <2>3. 0..c.good - 1 = {} /\ Len(c.got) = 0
    OBVIOUS
  <2>4. Written(t)' /\ Taken(t)'
    BY <1>1, <2>3 DEF Written, Taken
  <2>. QED BY <2>2, <2>4 DEF Sound
<1>5. ASSUME NEW s \in Threads \ {t}, Moves(call'[s]) PROVE Sound(s)'
  <2>1. Moves(call[s]) /\ c.op # "write"
    BY <1>3, <1>5 DEF Moves
  <2>2. Sound(s)
    BY <2>1 DEF AloneInv
  <2>3. clear' = SIZE /\ \A r \in Threads \ {s} : call'[r].op # "write"
    BY <1>1, <1>3, <2>1, <2>2 DEF Sound
  <2>4. call'[s].op = "write" => Written(s)'
    BY <1>1, <1>3, <2>2 DEF Sound, Written
  <2>5. call'[s].op = "read" => Taken(s)'
    BY <1>1, <1>3, <2>2, SMTT(20) DEF Sound, Taken, From
  <2>. QED BY <2>3, <2>4, <2>5 DEF Sound
<1>. QED BY <1>1, <1>4, <1>5 DEF AloneInv

\* A step of one thread's call leaves the others sound if it writes nothing that
\* they have a claim on.
LEMMA CopyAlone ==
    ASSUME IInv, AloneInv, NEW t \in Threads, NEW c, call' = [call EXCEPT ![t] = c],
           c.op # "write" \/ call[t].op = "write", UNCHANGED <<device, clear>>,
           call[t].op = "write" \/ mem' = mem, Moves(c) => Sound(t)'
    PROVE  AloneInv'
<1>1. call'[t] = c /\ \A s \in Threads \ {t} : call'[s] = call[s]
  BY DEF IInv, TypeOK
<1>2. ASSUME NEW s \in Threads \ {t}, Moves(call'[s]) PROVE Sound(s)'
  <2>1. Moves(call[s]) /\ Sound(s)
    BY <1>1, <1>2 DEF AloneInv
  <2>2. mem' = mem /\ c.op # "write"
    BY <2>1 DEF Sound
  <2>3. clear' = SIZE /\ \A r \in Threads \ {s} : call'[r].op # "write"
    BY <1>1, <2>1, <2>2 DEF Sound
  <2>. QED BY <1>1, <2>1, <2>2, <2>3 DEF Sound, Written, Taken, From
<1>. QED BY <1>1, <1>2 DEF AloneInv

LEMMA ReadAlone ==
    ASSUME IInv, AloneInv, NEW t \in Threads, ReadByte(t)
    PROVE  AloneInv'
<1> DEFINE c == call[t]
<1>a. PICK m \in IF Source(c) \in Cells THEN {mem[Source(c)]} ELSE Byte :
         call' = [call EXCEPT ![t].got = Append(@, m), ![t].done = @ + 1, ![t].good = @ + 1]
  BY DEF ReadByte
<1> DEFINE d == [c EXCEPT !.got = Append(@, m), !.done = @ + 1, !.good = @ + 1]
<1>1. call' = [call EXCEPT ![t] = d] /\ UNCHANGED <<device, clear, mem>>
  BY <1>a DEF ReadByte
<1>2. c \in Call /\ c.op = "read" /\ call \in [Threads -> Call]
      /\ mem \in [Cells -> Byte] /\ device \in {"globalmem", "chardev"} /\ SIZE \in Nat
  BY Numbers DEF ReadByte, IInv, TypeOK
<1>3. /\ c.got \in Seq(Byte) /\ c.good \in Nat /\ c.done \in Nat /\ c.count \in Nat
      /\ m \in Byte
  <2>1. m \in Byte
    BY <1>2, <1>a
  <2>. QED BY <1>2, <2>1 DEF Call
<1>4. c.pos \in Positions => Source(c) \in Cells
  <2>1. Fitting(c) /\ c.done < c.count
    BY DEF ReadByte, Copying, IInv, CallInside
  <2>2. c.pos \in Positions => c.pos + c.count <= SIZE
    BY <2>1 DEF Fitting
  <2>. QED BY <1>2, <1>3, <2>1, <2>2, SMTT(20) DEF Source, Cells, Positions
<1>5. c.pos \in Positions => m = mem[From(c, c.done)]
  <2>1. Source(c) = From(c, c.done)
    BY DEF Source, From
  <2>. QED BY <1>a, <1>4, <2>1
<1>6. call'[t] = d /\ \A s \in Threads \ {t} : call'[s] = call[s]
  BY <1>1, <1>2
<1>7. /\ d.op = "read" /\ d.pos = c.pos /\ d.got = Append(c.got, m)
      /\ d.done = c.done + 1 /\ d.good = c.good + 1 /\ (d.alone <=> c.alone)
  BY <1>2 DEF Call
<1>. HIDE DEF c, d
<1>8. ASSUME c.alone, c.pos \in Positions PROVE Sound(t)'
  <2>1. Sound(t) /\ Taken(t)
    BY <1>2, <1>8 DEF AloneInv, Moves, Sound, c
  <2>2. /\ c.good = c.done /\ Len(c.got) = c.good
        /\ \A i \in 0..c.good - 1 : c.got[i + 1] = mem[From(c, i)]
    BY <2>1 DEF Taken, c
  <2>3. m \in Byte
    BY <1>3
  <2>4. Len(d.got) = d.good /\ d.good = d.done
    BY <1>3, <1>7, <2>3, <2>2
  <2>5. ASSUME NEW i \in 0..d.good - 1 PROVE d.got[i + 1] = mem[From(c, i)]
    <3>1. CASE i = c.good
      <4>1. d.got[i + 1] = m
        BY <1>3, <1>7, <2>3, <2>2, <3>1
      <4>2. i = c.done
        BY <2>2, <3>1
      <4>. QED BY <1>5, <1>8, <4>1, <4>2
    <3>2. CASE i # c.good
      <4>1. i \in 0..c.good - 1 /\ i + 1 \in 1..Len(c.got)
        BY <1>3, <1>7, <2>2, <3>2
      <4>2. d.got[i + 1] = c.got[i + 1]
        BY <1>3, <1>7, <2>3, <4>1
      <4>. QED BY <2>2, <4>1, <4>2
    <3>. QED BY <3>1, <3>2
  <2>6. \A i \in 0..d.good - 1 :
          d.got[i + 1] = mem'[IF device' = "globalmem" THEN d.pos + i ELSE i]
    BY <1>1, <1>7, <2>5 DEF From
  <2>7. Taken(t)'
    BY <1>6, <2>4, <2>6 DEF Taken, From
  <2>. QED BY <1>1, <1>6, <1>7, <2>1, <2>7 DEF Sound
<1>9. Moves(d) => Sound(t)'
  BY <1>7, <1>8 DEF Moves
<1>. QED BY <1>1, <1>7, <1>9, CopyAlone

LEMMA WriteAlone ==
    ASSUME IInv, AloneInv, NEW t \in Threads, WriteByte(t)
    PROVE  AloneInv'
<1> DEFINE c == call[t]
           v == IF c.faulted THEN 0 ELSE c.byte
           g == IF c.faulted THEN c.good ELSE c.good + 1
           d == [c EXCEPT !.done = @ + 1, !.good = g]
<1>1. /\ call' = [call EXCEPT ![t] = d] /\ UNCHANGED <<device, clear>>
      /\ mem' = [i \in Cells |-> IF i # c.pos + c.done THEN mem[i] ELSE v]
  BY DEF WriteByte, Sink
<1>2. c \in Call /\ c.op = "write" /\ call \in [Threads -> Call] /\ mem \in [Cells -> Byte]
  BY DEF WriteByte, IInv, TypeOK
<1>3. /\ c.good \in Nat /\ c.done \in Nat /\ SIZE \in Nat /\ c.good <= c.done
      /\ c.pos \in Positions => c.pos \in Nat /\ c.pos + c.done < SIZE
  <2>1. Fitting(c) /\ c.done < c.count
    BY DEF WriteByte, Copying, IInv, CallInside
  <2>2. c.good \in Nat /\ c.done \in Nat /\ c.count \in Nat /\ SIZE \in Nat
    BY <1>2, Numbers DEF Call
  <2>3. c.good <= c.done /\ (c.pos \in Positions => c.pos + c.count <= SIZE)
    BY <2>1 DEF Fitting
  <2>. QED BY <2>1, <2>2, <2>3 DEF Positions
<1>4. call'[t] = d /\ \A s \in Threads \ {t} : call'[s] = call[s]
  BY <1>1, <1>2
<1>5. /\ d.op = "write" /\ d.pos = c.pos /\ d.byte = c.byte /\ d.done = c.done + 1
      /\ d.good = g /\ (d.faulted <=> c.faulted) /\ (d.alone <=> c.alone)
  BY <1>2 DEF Call
<1>. HIDE DEF c, d
<1>6. ASSUME c.alone, c.pos \in Positions PROVE Sound(t)'
  <2>1. Sound(t) /\ Written(t)
    BY <1>2, <1>6 DEF AloneInv, Moves, Sound, c
  <2>2. /\ ~c.faulted => c.good = c.done
        /\ \A i \in 0..c.good - 1 : mem[c.pos + i] = c.byte
    BY <2>1 DEF Written, c
  <2>3. ~d.faulted => d.good = d.done
    BY <1>5, <2>2
  <2>4. ASSUME NEW i \in 0..d.good - 1 PROVE mem'[d.pos + i] = d.byte
    <3>1. c.pos + i \in Cells /\ c.pos + c.done \in Cells
      BY <1>3, <1>5, <1>6 DEF Cells
    <3>2. CASE i = c.done
      <4>1. ~c.faulted
        BY <1>3, <1>5, <3>2
      <4>. QED BY <1>1, <1>2, <1>5, <3>1, <3>2, <4>1
    <3>3. CASE i # c.done
      <4>1. i \in 0..c.good - 1
        <5>1. CASE c.faulted
          BY <1>5, <5>1
        <5>2. CASE ~c.faulted
          BY <1>3, <1>5, <2>2, <3>3, <5>2
        <5>. QED BY <5>1, <5>2
      <4>2. c.pos + i # c.pos + c.done
        BY <1>3, <1>6, <3>3
      <4>3. mem'[c.pos + i] = mem[c.pos + i]
        BY <1>1, <1>2, <3>1, <4>2
      <4>. QED BY <1>5, <2>2, <4>1, <4>3
    <3>. QED BY <3>2, <3>3
  <2>5. Written(t)'
    BY <1>4, <2>3, <2>4 DEF Written
  <2>. QED BY <1>1, <1>4, <1>5, <2>1, <2>5 DEF Sound
<1>7. Moves(d) => Sound(t)'
  BY <1>5, <1>6 DEF Moves
<1>. QED BY <1>1, <1>2, <1>7, CopyAlone DEF c

LEMMA StepAlone == IInv /\ AloneInv /\ [Next]_vars => AloneInv'
<1>. SUFFICES ASSUME IInv, AloneInv, [Next]_vars PROVE AloneInv'
  OBVIOUS
<1>0. call \in [Threads -> Call]
  BY DEF IInv, TypeOK
<1>1. CASE UNCHANGED vars
  BY <1>1 DEF vars, AloneInv, Sound, Written, Taken, From
<1>2. CASE ClearByte
  <2>1. \A t \in Threads : ~Moves(call[t])
    BY <1>2, SizeAssumption DEF ClearByte, AloneInv, Sound
  <2>. QED BY <1>2, <2>1 DEF ClearByte, AloneInv
<1>3. ASSUME NEW f \in Files, Open(f) PROVE AloneInv'
  BY <1>3 DEF Open, AloneInv, Sound, Written, Taken, From
<1>4. ASSUME NEW t \in Threads, NEW f \in Files, NEW op \in {"read", "write"},
             NEW own \in BOOLEAN, NEW pos \in Loffs, NEW n \in Counts, NEW b \in Byte,
             Granted(pos, n), device = "chardev" /\ own => pos \in Positions,
             Start(t, f, Transfer(op, f, own, pos, n, b))
      PROVE  AloneInv'
  <2> DEFINE c == Transfer(op, f, own, pos, n, b)
  <2>1. c \in Call
    BY <1>4, TransferFits
  <2>2. c.good = 0 /\ c.done = 0 /\ c.got = <<>> /\ c.alone = NobodyWrites
    BY TransferIs
  <2>3. Start(t, f, c)
    BY <1>4
  <2>. HIDE DEF c
  <2>. QED BY <2>1, <2>2, <2>3, StartAlone
<1>5. ASSUME NEW t \in Threads, NEW f \in Files, NEW n \in Counts, ReadStart(t, f, n)
      PROVE  AloneInv'
  <2>1. f_pos[f] \in Loffs /\ (device = "chardev" => f_pos[f] \in Positions)
    BY DEF IInv, TypeOK, Stays
  <2>. QED BY <1>4, <1>5, <2>1, Numbers DEF ReadStart
<1>6. ASSUME NEW t \in Threads, NEW f \in Files, NEW n \in Counts, NEW b \in Byte,
             WriteStart(t, f, n, b)
      PROVE  AloneInv'
  <2>1. f_pos[f] \in Loffs /\ (device = "chardev" => f_pos[f] \in Positions)
    BY DEF IInv, TypeOK, Stays
  <2>. QED BY <1>4, <1>6, <2>1 DEF WriteStart
<1>7. ASSUME NEW t \in Threads, NEW f \in Files, NEW p \in Places, NEW n \in Counts,
             PreadStart(t, f, p, n)
      PROVE  AloneInv'
  BY <1>4, <1>7, Numbers, SizeAssumption DEF PreadStart
<1>8. ASSUME NEW t \in Threads, NEW f \in Files, NEW p \in Places, NEW n \in Counts,
             NEW b \in Byte, PwriteStart(t, f, p, n, b)
      PROVE  AloneInv'
  BY <1>4, <1>8, SizeAssumption DEF PwriteStart
<1>9. ASSUME NEW t \in Threads, NEW f \in Files, NEW o \in Offsets, NEW w \in Whences,
             SeekStart(t, f, o, w)
      PROVE  AloneInv'
  <2> DEFINE c == Seek(f, o, w)
  <2>1. /\ c \in Call /\ c.good = 0 /\ c.done = 0 /\ c.got = <<>> /\ c.op = "seek"
        /\ Start(t, f, c)
    BY <1>9, SeekFits, SizeAssumption DEF SeekStart
  <2>. HIDE DEF c
  <2>. QED BY <2>1, StartAlone
<1>10. ASSUME NEW t \in Threads, NEW f \in Files, NEW o \in Offsets, SeekCheck(t, f, o)
      PROVE  AloneInv'
  <2> DEFINE c == Check(f, o)
  <2>1. o \in Loffs /\ Start(t, f, c)
    BY <1>10, SizeAssumption DEF SeekCheck
  <2>2. c \in Call /\ c.good = 0 /\ c.done = 0 /\ c.got = <<>> /\ c.op = "check"
    BY <2>1, CheckFits
  <2>. HIDE DEF c
  <2>. QED BY <2>1, <2>2, StartAlone
<1>11. ASSUME NEW t \in Threads, SeekCheckAgain(t) PROVE AloneInv'
  <2> DEFINE c == IF Target(call[t].file, call[t].offset, "cur") < 0 THEN Idle
                  ELSE [call[t] EXCEPT !.op = "add"]
  <2>1. call' = [call EXCEPT ![t] = c] /\ UNCHANGED <<device, clear, mem>>
        /\ call[t] \in Call
    BY <1>0, <1>11 DEF SeekCheckAgain
  <2>2. c.op \in {"none", "add"}
    BY <2>1, IdleCall DEF Call
  <2>. HIDE DEF c
  <2>. QED BY <2>1, <2>2, CopyAlone DEF Moves
<1>12. ASSUME NEW t \in Threads, SeekAdd(t) PROVE AloneInv'
  <2> DEFINE c == Seek(call[t].file, call[t].offset, "cur")
  <2>1. call' = [call EXCEPT ![t] = c] /\ UNCHANGED <<device, clear, mem>>
        /\ call[t].file \in Files /\ call[t].offset \in Loffs
    BY <1>0, <1>12 DEF SeekAdd, Call
  <2>2. c.op = "seek"
    BY <2>1, SeekFits DEF Whences
  <2>. HIDE DEF c
  <2>. QED BY <2>1, <2>2, CopyAlone DEF Moves
<1>13. ASSUME NEW t \in Threads, ReadByte(t) PROVE AloneInv'
  BY <1>13, ReadAlone
<1>14. ASSUME NEW t \in Threads, WriteByte(t) PROVE AloneInv'
  BY <1>14, WriteAlone
<1>15. ASSUME NEW t \in Threads, Fault(t) PROVE AloneInv'
  <2> DEFINE c == [call[t] EXCEPT !.faulted = TRUE]
  <2>1. call' = [call EXCEPT ![t] = c] /\ UNCHANGED <<device, clear, mem>>
    BY <1>15 DEF Fault
  <2>2. call[t] \in Call
    BY <1>0
  <2>3. /\ c.op = call[t].op /\ c.pos = call[t].pos /\ c.done = call[t].done
        /\ c.good = call[t].good /\ c.byte = call[t].byte /\ c.got = call[t].got
        /\ (c.alone <=> call[t].alone) /\ c.faulted
    BY <2>2 DEF Call
  <2>4. call'[t] = c /\ \A s \in Threads \ {t} : call'[s] = call[s]
    BY <1>0, <2>1
  <2>. HIDE DEF c
  <2>5. ASSUME Moves(c) PROVE Sound(t)'
    <3>1. Sound(t)
      BY <2>3, <2>5 DEF AloneInv, Moves
    <3>. QED BY <2>1, <2>3, <2>4, <3>1 DEF Sound, Written, Taken, From
  <2>. QED BY <2>1, <2>3, <2>5, CopyAlone
<1>16. ASSUME NEW t \in Threads, Return(t) \/ PReturn(t) PROVE AloneInv'
  <2>1. call' = [call EXCEPT ![t] = Idle] /\ UNCHANGED <<device, clear, mem>>
    BY <1>16 DEF Return, PReturn
  <2>. QED BY <2>1, IdleCall, CopyAlone DEF Moves
<1>. QED
  BY <1>1, <1>2, <1>3, <1>5, <1>6, <1>7, <1>8, <1>9, <1>10, <1>11, <1>12, <1>13, <1>14,
     <1>15, <1>16 DEF Next

\* A transfer that returns, with no other write and not chardev's clearing during it,
\* was atomic: memory holds every byte it wrote, and it has the bytes that memory
\* holds.
THEOREM CallsAreWhole == Spec => Whole
<1> DEFINE A == \A t \in Threads :
             LET c == call[t]
                 returns == Over(t) /\ call' # call /\ call'[t].op = "none"
             IN
             returns /\ c.alone /\ ~Failed(c) /\ c.pos \in Positions =>
                 /\ c.op = "write" => \A i \in 0..c.good - 1 : mem[c.pos + i] = c.byte
                 /\ c.op = "read" =>
                      \A i \in 0..c.good - 1 :
                          c.got[i + 1] = mem[IF device = "globalmem" THEN c.pos + i ELSE i]
<1>1. Init => AloneInv
  BY IdleCall DEF Init, AloneInv, Moves
<1>2. AloneInv => A
  <2>. SUFFICES ASSUME AloneInv, NEW t \in Threads, call[t].alone,
                      call[t].pos \in Positions
               PROVE  /\ call[t].op = "write" =>
                           \A i \in 0..call[t].good - 1 :
                               mem[call[t].pos + i] = call[t].byte
                      /\ call[t].op = "read" =>
                           \A i \in 0..call[t].good - 1 :
                               call[t].got[i + 1] =
                                   mem[IF device = "globalmem" THEN call[t].pos + i ELSE i]
    OBVIOUS
  <2>. QED BY DEF AloneInv, Moves, Sound, Written, Taken, From
<1>3. AloneInv /\ [Next]_vars => [A]_vars
  BY <1>2
<1>. HIDE DEF A
<1>4. Spec => [][A]_vars
  BY <1>1, <1>3, InitInside, StepInside, StepAlone, PTL DEF Spec
<1>. QED BY <1>4 DEF Whole, A

=============================================================================
