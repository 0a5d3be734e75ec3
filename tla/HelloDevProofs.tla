---------------------------- MODULE HelloDevProofs ----------------------------
(***************************************************************************)
(* Theorems about helloDev (HelloDev), for any number of processes, any    *)
(* sizeof(int) and any set of byte values.                                 *)
(***************************************************************************)
EXTENDS HelloDev, TLAPS

LEMMA ZeroValue == Zero \in Value
  BY ByteAssumption DEF Zero, Value

LEMMA InitType == Init => TypeOK
<1> SUFFICES ASSUME Init PROVE TypeOK
  OBVIOUS
<1>1. [p \in Procs |-> 0] \in [Procs -> 0..N]
  BY NAssumption
<1>2. pc \in [Procs -> PC] /\ op \in [Procs -> Op]
  BY DEF Init, PC, Op
<1>3. QED
  BY <1>1, <1>2, ZeroValue DEF Init, TypeOK

LEMMA ForgetType ==
    ASSUME TypeOK, NEW p \in Procs, Forget(p)
    PROVE  /\ op' \in [Procs -> Op]
           /\ arg' \in [Procs -> Value]
           /\ buf' \in [Procs -> Value]
           /\ k' \in [Procs -> 0..N]
           /\ ret' \in [Procs -> Value]
<1>1. op' \in [Procs -> Op]
  BY DEF Forget, TypeOK, Op
<1>2. /\ arg' \in [Procs -> Value] /\ buf' \in [Procs -> Value]
      /\ ret' \in [Procs -> Value]
  BY ZeroValue DEF Forget, TypeOK
<1>3. k' \in [Procs -> 0..N]
  BY NAssumption DEF Forget, TypeOK
<1>4. QED
  BY <1>1, <1>2, <1>3

\* The count stays below 2 because only the holder raises it.
LEMMA NextType == TypeOK /\ SemaphoreHeld /\ [Next]_vars => TypeOK'
<1> SUFFICES ASSUME TypeOK, SemaphoreHeld, [Next]_vars PROVE TypeOK'
  OBVIOUS
<1> USE DEF Goto
<1>1. ASSUME NEW p \in Procs, Call(p) PROVE TypeOK'
  <2>1. pc' \in [Procs -> PC] /\ op' \in [Procs -> Op]
    BY <1>1 DEF Call, TypeOK, PC, Op
  <2>2. arg' \in [Procs -> Value]
    BY <1>1, WrittenAssumption DEF Call, TypeOK
  <2>3. QED
    BY <1>1, <2>1, <2>2 DEF Call, TypeOK, semVars
<1>2. ASSUME NEW p \in Procs, Interrupted(p) PROVE TypeOK'
  BY <1>2, ForgetType DEF Interrupted, TypeOK, PC, Without
<1>3. ASSUME NEW p \in Procs, down(p) PROVE TypeOK'
  <2>1. sem' \in 0..1 /\ pc' \in [Procs -> PC]
    BY <1>3 DEF down, TypeOK, PC
  <2>2. ahead' \in SUBSET (Procs \X Procs)
    BY <1>3 DEF down, TypeOK, Waiting
  <2>3. QED
    BY <1>3, <2>1, <2>2 DEF down, TypeOK, callVars
<1>4. ASSUME NEW p \in Procs, up(p) PROVE TypeOK'
  <2>1. sem' \in 0..1
    BY <1>4 DEF up, TypeOK, SemaphoreHeld, InCrit
  <2>2. pc' \in [Procs -> PC]
    BY <1>4 DEF up, TypeOK, PC
  <2>3. ahead' \in SUBSET (Procs \X Procs)
    BY <1>4 DEF up, TypeOK, Without
  <2>4. QED
    BY <1>4, <2>1, <2>2, <2>3, ForgetType DEF up, TypeOK
<1>5. ASSUME NEW p \in Procs, WrongCount(p) \/ StartCopy(p) PROVE TypeOK'
  BY <1>5 DEF WrongCount, StartCopy, TypeOK, PC, semVars, callVars
<1>6. ASSUME NEW p \in Procs, hello_read(p) PROVE TypeOK'
  <2>1. pc' \in [Procs -> PC] /\ ret' \in [Procs -> Value]
    BY <1>6 DEF hello_read, TypeOK, PC
  <2>2. k' \in [Procs -> 0..N]
    BY <1>6, NAssumption DEF hello_read, TypeOK
  <2>3. buf' \in [Procs -> Value]
    <3>1. CASE k[p] < N /\ buf' = [buf EXCEPT ![p] = [@ EXCEPT ![k[p] + 1] = val[k[p] + 1]]]
      <4>1. k[p] + 1 \in 1..N
        BY <3>1, NAssumption DEF TypeOK
      <4>2. [buf[p] EXCEPT ![k[p] + 1] = val[k[p] + 1]] \in Value
        BY <4>1 DEF TypeOK, Value
      <4>3. QED
        BY <3>1, <4>2 DEF TypeOK
    <3>2. QED
      BY <1>6, <3>1 DEF hello_read, TypeOK
  <2>4. QED
    BY <1>6, <2>1, <2>2, <2>3 DEF hello_read, TypeOK, semVars, callVars
<1>7. ASSUME NEW p \in Procs, hello_write(p) PROVE TypeOK'
  <2>1. pc' \in [Procs -> PC]
    BY <1>7 DEF hello_write, TypeOK, PC
  <2>2. k' \in [Procs -> 0..N]
    BY <1>7, NAssumption, SMTT(20) DEF hello_write, TypeOK
  <2>3. val' \in Value
    <3>1. arg[p] \in Value /\ k[p] \in 0..N
      BY DEF TypeOK
    <3>2. CASE val' = [val EXCEPT ![k[p] + 1] = arg[p][k[p] + 1]] /\ k[p] < N
      <4>1. k[p] + 1 \in 1..N
        BY <3>1, <3>2, NAssumption
      <4>2. QED
        BY <3>1, <3>2, <4>1 DEF TypeOK, Value
    <3>3. CASE val' = [i \in 1..N |-> IF i <= k[p] THEN val[i] ELSE 0]
      BY <3>3, ByteAssumption DEF TypeOK, Value
    <3>4. QED
      BY <1>7, <3>2, <3>3 DEF hello_write, TypeOK
  <2>4. settled' \in Value
    BY <1>7, <2>3 DEF hello_write, TypeOK
  <2>5. QED
    BY <1>7, <2>1, <2>2, <2>3, <2>4 DEF hello_write, TypeOK, semVars, callVars
<1>8. ASSUME NEW p \in Procs, hello_val_show(p) PROVE TypeOK'
  BY <1>8 DEF hello_val_show, TypeOK, PC, semVars, callVars
<1>9. ASSUME NEW p \in Procs, hello_val_store(p) PROVE TypeOK'
  BY <1>9 DEF hello_val_store, TypeOK, PC, semVars, callVars
<1>10. CASE UNCHANGED vars
  BY <1>10 DEF vars, TypeOK, semVars, callVars
<1>11. QED
  BY <1>1, <1>2, <1>3, <1>4, <1>5, <1>6, <1>7, <1>8, <1>9, <1>10 DEF Next, InDriver

-----------------------------------------------------------------------------
(* The semaphore.                                                          *)

\* The calls' steps inside the semaphore keep their process inside and leave
\* the others where they are.
LEMMA InsideStep ==
    ASSUME TypeOK, NEW p \in Procs,
           \/ WrongCount(p) \/ StartCopy(p) \/ hello_read(p)
           \/ hello_write(p) \/ hello_val_show(p) \/ hello_val_store(p)
    PROVE  /\ InCrit(p) /\ InCrit(p)'
           /\ \A q \in Procs \ {p} : pc'[q] = pc[q]
           /\ sem' = sem
           /\ Waiting' = Waiting
<1>1. /\ InCrit(p) /\ InCrit(p)'
      /\ \A q \in Procs \ {p} : pc'[q] = pc[q]
  BY DEF WrongCount, StartCopy, hello_read, hello_write, hello_val_show,
         hello_val_store, Goto, TypeOK, InCrit
<1>2. sem' = sem
  BY DEF WrongCount, StartCopy, hello_read, hello_write, hello_val_show,
         hello_val_store, semVars
<1>3. QED
  BY <1>1, <1>2 DEF Waiting, InCrit

LEMMA SemStep == TypeOK /\ SemaphoreHeld /\ [Next]_vars => SemaphoreHeld'
<1> SUFFICES ASSUME TypeOK, SemaphoreHeld, [Next]_vars PROVE SemaphoreHeld'
  OBVIOUS
<1> USE DEF SemaphoreHeld
<1>1. ASSUME NEW p \in Procs, Call(p) \/ Interrupted(p) PROVE SemaphoreHeld'
  BY <1>1 DEF Call, Interrupted, Goto, TypeOK, InCrit, Waiting, semVars
<1>2. ASSUME NEW p \in Procs, down(p) PROVE SemaphoreHeld'
  BY <1>2 DEF down, Goto, TypeOK, InCrit, Waiting
<1>3. ASSUME NEW p \in Procs, up(p) PROVE SemaphoreHeld'
  <2>1. sem = 0 /\ InCrit(p) /\ \A q \in Procs : InCrit(q) => q = p
    BY <1>3 DEF up, TypeOK, InCrit
  <2>2. CASE Waiting = {} /\ pc' = [pc EXCEPT ![p] = "idle"] /\ sem' = sem + 1
    BY <2>1, <2>2 DEF TypeOK, InCrit, Waiting
  <2>3. ASSUME NEW q \in Procs, First(q), sem' = sem,
               pc' = [pc EXCEPT ![p] = "idle", ![q] = "crit"]
        PROVE  SemaphoreHeld'
    BY <2>1, <2>3 DEF TypeOK, InCrit, First, Waiting
  <2>4. QED
    BY <1>3, <2>2, <2>3 DEF up
<1>4. ASSUME NEW p \in Procs,
             \/ WrongCount(p) \/ StartCopy(p) \/ hello_read(p)
             \/ hello_write(p) \/ hello_val_show(p) \/ hello_val_store(p)
      PROVE  SemaphoreHeld'
  BY <1>4, InsideStep DEF InCrit
<1>5. CASE UNCHANGED vars
  BY <1>5 DEF vars, semVars, InCrit, Waiting
<1>6. QED
  BY <1>1, <1>2, <1>3, <1>4, <1>5 DEF Next, InDriver

LEMMA SemInvariance == SafeSpec => [](TypeOK /\ SemaphoreHeld)
<1>1. Init => SemaphoreHeld
  BY DEF Init, SemaphoreHeld, InCrit
<1>2. TypeOK /\ SemaphoreHeld /\ [Next]_vars => TypeOK' /\ SemaphoreHeld'
  BY NextType, SemStep
<1>3. QED
  BY InitType, <1>1, <1>2, PTL DEF SafeSpec

\* The state of hello.c keeps its types; the count of the semaphore is 0 or 1.
THEOREM TypeCorrect == SafeSpec => []TypeOK
<1>1. QED
  BY SemInvariance, PTL

\* The semaphore is held by exactly one process or is free, whichever of their
\* ways out the calls take.
THEOREM MutualExclusion == SafeSpec => []SemaphoreHeld
<1>1. QED
  BY SemInvariance, PTL

-----------------------------------------------------------------------------
(* The register.                                                           *)

Writing(p) == pc[p] = "copy" /\ op[p] = "write"

\* Between writes val is what the last writer left; a reader in the middle of
\* its copy has a prefix of it, and a writer in the middle has put a prefix of
\* its own value there.
DataInv ==
    /\ (\A p \in Procs : ~Writing(p)) => val = settled
    /\ \A p \in Procs :
        /\ pc[p] = "copy" => op[p] \in {"read", "write"}
        /\ pc[p] \in {"idle", "down", "wait", "crit"} => k[p] = 0
        /\ pc[p] = "copy" /\ op[p] = "read" =>
              \A i \in 1..N : i <= k[p] => buf[p][i] = val[i]
        /\ Writing(p) => \A i \in 1..N : i <= k[p] => val[i] = arg[p][i]

\* A process that is copying is alone inside the semaphore.
LEMMA Alone ==
    ASSUME TypeOK, SemaphoreHeld, NEW p \in Procs, InCrit(p), NEW q \in Procs, q # p
    PROVE  ~InCrit(q)
  BY DEF TypeOK, SemaphoreHeld

\* The steps outside the copy do not touch val, nor the copy of another process.
LEMMA OutsideData ==
    ASSUME TypeOK, SemaphoreHeld, DataInv, NEW p \in Procs,
           Call(p) \/ Interrupted(p) \/ down(p) \/ up(p) \/ WrongCount(p)
    PROVE  DataInv'
<1>1. val' = val /\ settled' = settled
  BY DEF Call, Interrupted, down, up, WrongCount
<1>2. \A q \in Procs : pc'[q] = "copy" <=> pc[q] = "copy"
  BY DEF Call, Interrupted, down, up, WrongCount, Goto, TypeOK, First, Waiting
<1>3. pc[p] # "copy"
  BY DEF Call, Interrupted, down, up, WrongCount, Goto
<1>4. \A q \in Procs : q # p =>
          op'[q] = op[q] /\ arg'[q] = arg[q] /\ buf'[q] = buf[q] /\ k'[q] = k[q]
  BY DEF Call, Interrupted, down, up, WrongCount, Forget, TypeOK, callVars
<1>5. \A q \in Procs : pc'[q] \in {"idle", "down", "wait", "crit"} => k'[q] = 0
  <2>1. CASE Call(p) \/ down(p) \/ WrongCount(p)
    BY <2>1 DEF Call, down, WrongCount, Goto, TypeOK, DataInv
  <2>2. CASE Interrupted(p)
    BY <2>2 DEF Interrupted, Goto, Forget, TypeOK, DataInv
  <2>3. CASE up(p)
    BY <2>3 DEF up, Forget, First, Waiting, TypeOK, DataInv
  <2>4. QED
    BY <2>1, <2>2, <2>3
<1>6. \A q \in Procs : Writing(q)' <=> Writing(q)
  BY <1>2, <1>3, <1>4 DEF Writing
<1>7. (\A q \in Procs : ~Writing(q))' => val' = settled'
  BY <1>1, <1>6 DEF DataInv
<1>8. \A q \in Procs :
        /\ pc'[q] = "copy" => op'[q] \in {"read", "write"}
        /\ pc'[q] = "copy" /\ op'[q] = "read" =>
              \A i \in 1..N : i <= k'[q] => buf'[q][i] = val'[i]
        /\ Writing(q)' => \A i \in 1..N : i <= k'[q] => val'[i] = arg'[q][i]
  <2> TAKE q \in Procs
  <2>1. CASE q = p
    BY <2>1, <1>2, <1>3 DEF Writing
  <2>2. CASE q # p
    BY <2>2, <1>1, <1>2, <1>4, <1>6 DEF DataInv
  <2>3. QED
    BY <2>1, <2>2
<1>9. QED
  BY <1>5, <1>7, <1>8 DEF DataInv

LEMMA StartData ==
    ASSUME TypeOK, SemaphoreHeld, DataInv, NEW p \in Procs, StartCopy(p)
    PROVE  DataInv'
<1>1. /\ UNCHANGED <<val, settled, op, arg, buf, k>>
      /\ pc[p] = "crit" /\ pc' = [pc EXCEPT ![p] = "copy"]
      /\ op[p] \in {"read", "write"}
  BY DEF StartCopy, Goto, callVars
<1>2. k[p] = 0
  BY <1>1 DEF DataInv
<1>3. \A q \in Procs : q # p => ~Writing(q) /\ ~Writing(q)' /\ pc[q] # "copy"
  BY <1>1, Alone DEF InCrit, Writing, TypeOK
<1>4. val = settled
  BY <1>1, <1>3 DEF DataInv, Writing
<1>5. QED
  BY <1>1, <1>2, <1>3, <1>4, NAssumption DEF DataInv, Writing, TypeOK

LEMMA ReadData ==
    ASSUME TypeOK, SemaphoreHeld, DataInv, NEW p \in Procs, hello_read(p)
    PROVE  DataInv'
<1>1. /\ UNCHANGED <<val, settled, op, arg>>
      /\ pc[p] = "copy" /\ op[p] = "read"
      /\ pc' \in {[pc EXCEPT ![p] = "copy"], [pc EXCEPT ![p] = "up"]}
  BY DEF hello_read, Goto, callVars
<1>2. \A q \in Procs : q # p => pc'[q] = pc[q] /\ buf'[q] = buf[q] /\ k'[q] = k[q] /\ pc[q] # "copy"
  BY <1>1, Alone DEF InCrit, hello_read, Goto, TypeOK
<1>3. \A q \in Procs : ~Writing(q) /\ ~Writing(q)'
  BY <1>1, <1>2 DEF Writing
<1>4. pc'[p] = "copy" => \A i \in 1..N : i <= k'[p] => buf'[p][i] = val[i]
  <2>1. CASE /\ k[p] < N
             /\ buf' = [buf EXCEPT ![p] = [@ EXCEPT ![k[p] + 1] = val[k[p] + 1]]]
             /\ k' = [k EXCEPT ![p] = @ + 1]
    <3>1. buf'[p] = [buf[p] EXCEPT ![k[p] + 1] = val[k[p] + 1]] /\ k'[p] = k[p] + 1
      BY <2>1 DEF TypeOK
    <3>2. buf[p] \in [1..N -> Byte] /\ k[p] \in 0..N
      BY DEF TypeOK, Value
    <3>3. \A i \in 1..N : i <= k[p] => buf[p][i] = val[i]
      BY <1>1 DEF DataInv
    <3>4. QED
      BY <3>1, <3>2, <3>3, NAssumption
  <2>2. CASE pc' = [pc EXCEPT ![p] = "up"]
    BY <2>2 DEF TypeOK
  <2>3. QED
    BY <2>1, <2>2 DEF hello_read, Goto
<1>5. val' = settled'
  BY <1>1, <1>3 DEF DataInv
<1>6. pc'[p] \in {"copy", "up"} /\ op'[p] = "read"
  BY <1>1 DEF TypeOK
<1>7. QED
  BY <1>1, <1>2, <1>3, <1>4, <1>5, <1>6 DEF DataInv

LEMMA WriteData ==
    ASSUME TypeOK, SemaphoreHeld, DataInv, NEW p \in Procs, hello_write(p)
    PROVE  DataInv'
<1>1. /\ UNCHANGED <<op, arg, buf>>
      /\ pc[p] = "copy" /\ op[p] = "write"
      /\ pc' \in {[pc EXCEPT ![p] = "copy"], [pc EXCEPT ![p] = "up"]}
  BY DEF hello_write, Goto, callVars
<1>2. \A q \in Procs : q # p => pc'[q] = pc[q] /\ k'[q] = k[q] /\ pc[q] # "copy"
  BY <1>1, Alone DEF InCrit, hello_write, Goto, TypeOK
<1>3. pc'[p] = "copy" => \A i \in 1..N : i <= k'[p] => val'[i] = arg[p][i]
  <2>1. CASE /\ k[p] < N
             /\ val' = [val EXCEPT ![k[p] + 1] = arg[p][k[p] + 1]]
             /\ k' = [k EXCEPT ![p] = @ + 1]
    <3>1. k'[p] = k[p] + 1 /\ k[p] \in 0..N
      BY <2>1 DEF TypeOK
    <3>2. val \in [1..N -> Byte]
      BY DEF TypeOK, Value
    <3>3. \A i \in 1..N : i <= k[p] => val[i] = arg[p][i]
      BY <1>1 DEF DataInv, Writing
    <3>4. QED
      BY <2>1, <3>1, <3>2, <3>3, NAssumption
  <2>2. CASE pc' = [pc EXCEPT ![p] = "up"]
    BY <2>2 DEF TypeOK
  <2>3. QED
    BY <2>1, <2>2 DEF hello_write, Goto
<1>4. pc'[p] = "up" => val' = settled'
  BY DEF hello_write, Goto, TypeOK
<1>5. pc'[p] \in {"copy", "up"} /\ op'[p] = "write"
  BY <1>1 DEF TypeOK
<1>6. QED
  BY <1>1, <1>2, <1>3, <1>4, <1>5 DEF DataInv, Writing

LEMMA WordData ==
    ASSUME TypeOK, SemaphoreHeld, DataInv, NEW p \in Procs,
           hello_val_show(p) \/ hello_val_store(p)
    PROVE  DataInv'
<1>1. /\ UNCHANGED <<op, arg, buf, k>>
      /\ pc[p] = "crit" /\ pc' = [pc EXCEPT ![p] = "up"]
  BY DEF hello_val_show, hello_val_store, Goto, callVars
<1>2. \A q \in Procs : pc[q] # "copy" /\ pc'[q] # "copy"
  BY <1>1, Alone DEF InCrit, TypeOK
<1>3. val = settled
  BY <1>2 DEF DataInv, Writing
<1>4. val' = settled'
  BY <1>3 DEF hello_val_show, hello_val_store
<1>5. \A q \in Procs : pc'[q] \in {"idle", "down", "wait", "crit"} => k'[q] = 0
  BY <1>1 DEF DataInv, TypeOK
<1>6. QED
  BY <1>2, <1>4, <1>5 DEF DataInv, Writing

LEMMA DataStep == TypeOK /\ SemaphoreHeld /\ DataInv /\ [Next]_vars => DataInv'
<1>1. TypeOK /\ SemaphoreHeld /\ DataInv /\ UNCHANGED vars => DataInv'
  BY DEF vars, callVars, DataInv, Writing
<1>2. QED
  BY <1>1, OutsideData, StartData, ReadData, WriteData, WordData DEF Next, InDriver

\* A process that is in no call has no arguments left of its last one.
IdleClean == \A p \in Procs : pc[p] = "idle" => op[p] = "read" /\ arg[p] = Zero

LEMMA IdleStep == TypeOK /\ IdleClean /\ [Next]_vars => IdleClean'
<1> SUFFICES ASSUME TypeOK, IdleClean, [Next]_vars PROVE IdleClean'
  OBVIOUS
<1> USE DEF IdleClean, TypeOK
<1>1. ASSUME NEW p \in Procs, Call(p) PROVE IdleClean'
  BY <1>1 DEF Call, Goto
<1>2. ASSUME NEW p \in Procs, Interrupted(p) PROVE IdleClean'
  BY <1>2 DEF Interrupted, Goto, Forget
<1>3. ASSUME NEW p \in Procs, up(p) PROVE IdleClean'
  BY <1>3 DEF up, Forget, First, Waiting
<1>4. ASSUME NEW p \in Procs,
             \/ down(p) \/ WrongCount(p) \/ StartCopy(p) \/ hello_read(p)
             \/ hello_write(p) \/ hello_val_show(p) \/ hello_val_store(p)
      PROVE  IdleClean'
  BY <1>4 DEF down, WrongCount, StartCopy, hello_read, hello_write,
              hello_val_show, hello_val_store, Goto, callVars
<1>5. CASE UNCHANGED vars
  BY <1>5 DEF vars, callVars
<1>6. QED
  BY <1>1, <1>2, <1>3, <1>4, <1>5 DEF Next, InDriver

Inv == TypeOK /\ SemaphoreHeld /\ DataInv /\ IdleClean

LEMMA Invariance == SafeSpec => []Inv
<1>1. Init => DataInv
  BY DEF Init, DataInv, Writing
<1>2. Inv /\ [Next]_vars => Inv'
  BY NextType, SemStep, DataStep, IdleStep DEF Inv
<1>3. Init => Inv
  BY <1>1, InitType DEF Init, Inv, SemaphoreHeld, InCrit, IdleClean
<1>4. QED
  BY <1>2, <1>3, PTL DEF SafeSpec

\* What the steps are to the calls of the register.
LEMMA CallsKept ==
    ASSUME UNCHANGED <<op, arg>>, \A q \in Procs : At(pc'[q]) = At(pc[q])
    PROVE  Calls' = Calls
  BY DEF Calls

LEMMA CallsDone ==
    ASSUME TypeOK, UNCHANGED <<op, arg>>, NEW p \in Procs,
           pc[p] \in {"crit", "copy"}, pc' = [pc EXCEPT ![p] = "up"],
           NEW ops, op[p] \in ops
    PROVE  Reg!Moment(p, ops)
<1>1. At(pc[p]) = "called" /\ At(pc'[p]) = "done"
  BY DEF At, TypeOK
<1>2. \A q \in Procs \ {p} : pc'[q] = pc[q]
  BY DEF TypeOK
<1>3. Calls[p] = [at |-> "called", op |-> op[p], arg |-> arg[p]]
  BY <1>1 DEF Calls
<1>4. Calls' = [Calls EXCEPT ![p] = [@ EXCEPT !.at = "done"]]
  BY <1>1, <1>2 DEF Calls
<1>5. QED
  BY <1>3, <1>4 DEF Reg!Moment

LEMMA CallsReturned ==
    ASSUME TypeOK, NEW p \in Procs, Forget(p), pc[p] # "idle", pc'[p] = "idle",
           \A q \in Procs \ {p} : At(pc'[q]) = At(pc[q]), UNCHANGED settled
    PROVE  Reg!Return(p)
<1>1. Calls[p].at # "idle"
  BY DEF Calls, At
<1>2. /\ At(pc'[p]) = "idle" /\ op'[p] = "read" /\ arg'[p] = Zero
      /\ \A q \in Procs \ {p} : op'[q] = op[q] /\ arg'[q] = arg[q]
  BY DEF At, Forget, TypeOK
<1>3. Calls' = [Calls EXCEPT ![p] = [at |-> "idle", op |-> "read", arg |-> Zero]]
  BY <1>2 DEF Calls
<1>4. QED
  BY <1>1, <1>3 DEF Reg!Return, Reg!Idle, Reg!Zero, Zero, Forget

LEMMA CallsCalled ==
    ASSUME TypeOK, IdleClean, NEW p \in Procs, Call(p)
    PROVE  Reg!Call(p)
<1>1. /\ pc[p] = "idle" /\ pc' = [pc EXCEPT ![p] = "down"]
      /\ op[p] = "read" /\ arg[p] = Zero
  BY DEF Call, Goto, IdleClean
<1>2. Calls[p] = Reg!Idle
  BY <1>1 DEF Calls, At, Reg!Idle, Reg!Zero, Zero
<1>3. At(pc'[p]) = "called" /\ \A q \in Procs \ {p} : pc'[q] = pc[q]
  BY <1>1 DEF At, TypeOK
<1>4. ASSUME NEW o \in Op, NEW v,
             op' = [op EXCEPT ![p] = o], arg' = [arg EXCEPT ![p] = v]
      PROVE  Calls' = [Calls EXCEPT ![p] = [at |-> "called", op |-> o, arg |-> v]]
  BY <1>3, <1>4 DEF Calls, TypeOK
<1>5. CASE \E o \in {"read", "show"} : op' = [op EXCEPT ![p] = o] /\ arg' = arg
  <2>1. PICK o \in {"read", "show"} : op' = [op EXCEPT ![p] = o] /\ arg' = arg
    BY <1>5
  <2>2. arg' = [arg EXCEPT ![p] = Zero]
    BY <1>1, <2>1 DEF TypeOK
  <2>3. o \in Op
    BY DEF Op
  <2>4. Calls' = [Calls EXCEPT ![p] = [at |-> "called", op |-> o, arg |-> Zero]]
    BY <1>4, <2>1, <2>2, <2>3, Zenon
  <2>5. QED
    BY <1>2, <2>4 DEF Reg!Call, Call, Reg!Zero, Zero
<1>6. CASE \E o \in {"write", "store"}, v \in Written :
              op' = [op EXCEPT ![p] = o] /\ arg' = [arg EXCEPT ![p] = v]
  <2>1. PICK o \in {"write", "store"}, v \in Written :
                op' = [op EXCEPT ![p] = o] /\ arg' = [arg EXCEPT ![p] = v]
    BY <1>6
  <2>2. o \in Op
    BY DEF Op
  <2>3. Calls' = [Calls EXCEPT ![p] = [at |-> "called", op |-> o, arg |-> v]]
    BY <1>4, <2>1, <2>2, Zenon
  <2>4. v \in Reg!Value
    BY <2>1, WrittenAssumption DEF Value, Reg!Value
  <2>5. QED
    BY <1>2, <2>3, <2>4 DEF Reg!Call, Call
<1>7. QED
  BY <1>5, <1>6 DEF Call

\* The last step of a copy is where a read takes effect; the end of a write's,
\* with or without a fault, is where a write does.
LEMMA RegisterStep == Inv /\ [Next]_vars => [Reg!Next]_(Reg!vars)
<1> SUFFICES ASSUME Inv, [Next]_vars PROVE Reg!Next \/ UNCHANGED Reg!vars
  OBVIOUS
<1> USE DEF Inv
<1>1. ASSUME NEW p \in Procs, Call(p) PROVE Reg!Next
  BY <1>1, CallsCalled DEF Reg!Next
<1>2. ASSUME NEW p \in Procs, Interrupted(p) PROVE Reg!Next
  <2>1. /\ pc[p] = "wait" /\ pc'[p] = "idle" /\ UNCHANGED settled /\ Forget(p)
        /\ \A q \in Procs \ {p} : pc'[q] = pc[q]
    BY <1>2 DEF Interrupted, Goto, TypeOK
  <2>2. Reg!Return(p)
    BY <2>1, CallsReturned
  <2>3. QED
    BY <2>2 DEF Reg!Next
<1>3. ASSUME NEW p \in Procs, up(p) PROVE Reg!Next
  <2>1. /\ pc[p] = "up" /\ pc'[p] = "idle" /\ UNCHANGED settled /\ Forget(p)
        /\ \A q \in Procs \ {p} : At(pc'[q]) = At(pc[q])
    BY <1>3 DEF up, TypeOK, First, Waiting, At
  <2>2. Reg!Return(p)
    BY <2>1, CallsReturned
  <2>3. QED
    BY <2>2 DEF Reg!Next
<1>4. ASSUME NEW p \in Procs, down(p) \/ StartCopy(p) PROVE UNCHANGED Reg!vars
  <2>1. UNCHANGED <<op, arg, settled, ret>>
    BY <1>4 DEF down, StartCopy, callVars
  <2>2. \A q \in Procs : At(pc'[q]) = At(pc[q])
    BY <1>4 DEF down, StartCopy, Goto, At, TypeOK
  <2>3. QED
    BY <2>1, <2>2, CallsKept DEF Reg!vars
<1>5. ASSUME NEW p \in Procs, WrongCount(p) PROVE Reg!Next
  <2>1. Reg!Moment(p, {"read", "write"})
    BY <1>5, CallsDone DEF WrongCount, Goto, callVars
  <2>2. QED
    BY <1>5, <2>1 DEF WrongCount, Reg!Next, Reg!Refuse
<1>6. ASSUME NEW p \in Procs, hello_read(p) PROVE Reg!Next \/ UNCHANGED Reg!vars
  <2>1. pc[p] = "copy" /\ op[p] = "read" /\ UNCHANGED <<op, arg, settled>>
    BY <1>6 DEF hello_read, Goto, callVars
  <2>2. CASE Goto(p, "copy", "copy") /\ ret' = ret
    <3>1. \A q \in Procs : pc'[q] = pc[q]
      BY <2>2 DEF Goto, TypeOK
    <3>2. QED
      BY <2>1, <2>2, <3>1, CallsKept DEF Reg!vars
  <2>3. CASE Goto(p, "copy", "up") /\ ret' = ret
    <3>1. Reg!Moment(p, {"read", "write"})
      BY <2>1, <2>3, CallsDone DEF Goto
    <3>2. QED
      BY <2>1, <2>3, <3>1 DEF Reg!Next, Reg!Refuse
  <2>4. CASE k[p] = N /\ Goto(p, "copy", "up") /\ ret' = [ret EXCEPT ![p] = buf[p]]
    <3>1. Reg!Moment(p, {"read", "show"})
      BY <2>1, <2>4, CallsDone DEF Goto
    <3>2. \A q \in Procs : ~Writing(q)
      BY <2>1, Alone DEF Writing, InCrit
    <3>3. val = settled /\ \A i \in 1..N : buf[p][i] = val[i]
      BY <2>1, <2>4, <3>2, NAssumption DEF DataInv
    <3>4. buf[p] \in [1..N -> Byte] /\ val \in [1..N -> Byte]
      BY DEF TypeOK, Value
    <3>5. buf[p] = [i \in 1..N |-> buf[p][i]] /\ val = [i \in 1..N |-> val[i]]
      BY <3>4
    <3>6. buf[p] = val
      BY <3>3, <3>5, Zenon
    <3>7. QED
      BY <2>1, <2>4, <3>1, <3>3, <3>6 DEF Reg!Next, Reg!Read
  <2>5. QED
    BY <1>6, <2>2, <2>3, <2>4 DEF hello_read
<1>7. ASSUME NEW p \in Procs, hello_write(p) PROVE Reg!Next \/ UNCHANGED Reg!vars
  <2>1. /\ ret' = ret /\ Writing(p) /\ UNCHANGED <<op, arg>>
        /\ k[p] \in 0..N
        /\ val \in [1..N -> Byte] /\ arg[p] \in [1..N -> Byte]
    BY <1>7 DEF hello_write, Goto, Writing, TypeOK, Value, callVars
  <2>2. \A i \in 1..N : i <= k[p] => val[i] = arg[p][i]
    BY <2>1 DEF DataInv
  <2>3. Calls[p].arg = arg[p]
    BY DEF Calls
  <2>4. CASE Goto(p, "copy", "copy") /\ settled' = settled
    <3>1. \A q \in Procs : pc'[q] = pc[q]
      BY <2>4 DEF Goto, TypeOK
    <3>2. QED
      BY <2>1, <2>4, <3>1, CallsKept DEF Reg!vars
  <2>5. ASSUME Goto(p, "copy", "up") PROVE Reg!Moment(p, {"write"})
    BY <2>1, <2>5, CallsDone DEF Goto, Writing
  <2>6. ASSUME Goto(p, "copy", "up") PROVE Reg!Moment(p, {"write", "store"})
    BY <2>1, <2>6, CallsDone DEF Goto, Writing
  <2>7. CASE /\ k[p] < N /\ Goto(p, "copy", "up") /\ settled' = val'
             /\ val' = [i \in 1..N |-> IF i <= k[p] THEN val[i] ELSE 0]
    <3>1. settled' = Reg!Residue(arg[p], k[p])
      BY <2>2, <2>7 DEF Reg!Residue
    <3>2. k[p] \in 0..N - 1
      BY <2>1, <2>7, NAssumption
    <3>3. Reg!FailedWrite(p)
      BY <2>1, <2>3, <2>5, <2>7, <3>1, <3>2 DEF Reg!FailedWrite
    <3>4. QED
      BY <3>3 DEF Reg!Next
  <2>8. CASE k[p] = N /\ Goto(p, "copy", "up") /\ settled' = val
    <3>1. val = arg[p]
      BY <2>1, <2>2, <2>8, NAssumption
    <3>2. Reg!Write(p)
      BY <2>1, <2>3, <2>6, <2>8, <3>1 DEF Reg!Write
    <3>3. QED
      BY <3>2 DEF Reg!Next
  <2>9. QED
    BY <1>7, <2>4, <2>7, <2>8 DEF hello_write
<1>8. ASSUME NEW p \in Procs, hello_val_show(p) PROVE Reg!Next
  <2>1. \A q \in Procs : ~Writing(q)
    BY <1>8, Alone DEF Writing, InCrit, hello_val_show, Goto
  <2>2. val = settled
    BY <2>1 DEF DataInv
  <2>3. Reg!Moment(p, {"read", "show"})
    BY <1>8, CallsDone DEF hello_val_show, Goto, callVars
  <2>4. Reg!Read(p)
    BY <1>8, <2>2, <2>3 DEF hello_val_show, Reg!Read
  <2>5. QED
    BY <2>4 DEF Reg!Next
<1>9. ASSUME NEW p \in Procs, hello_val_store(p) PROVE Reg!Next
  <2>1. Reg!Moment(p, {"write", "store"})
    BY <1>9, CallsDone DEF hello_val_store, Goto, callVars
  <2>2. Calls[p].arg = arg[p]
    BY DEF Calls
  <2>3. Reg!Write(p)
    BY <1>9, <2>1, <2>2 DEF hello_val_store, Reg!Write
  <2>4. QED
    BY <2>3 DEF Reg!Next
<1>10. CASE UNCHANGED vars
  <2>1. UNCHANGED <<op, arg, settled, ret, pc>>
    BY <1>10 DEF vars, callVars
  <2>2. QED
    BY <2>1, CallsKept DEF Reg!vars
<1>11. QED
  BY <1>1, <1>2, <1>3, <1>4, <1>5, <1>6, <1>7, <1>8, <1>9, <1>10 DEF Next, InDriver

\* hello.c implements the atomic register: a read is never torn, and after any
\* writes, whole or faulting, the register holds what one of them left.
THEOREM Linearizable == SafeSpec => ImplementsRegister
<1>1. Init => Reg!Init
  BY DEF Init, Zero, Calls, At, Reg!Init, Reg!Zero, Reg!Idle
<1>2. QED
  BY <1>1, RegisterStep, Invariance, PTL DEF SafeSpec, ImplementsRegister, Reg!Spec
=============================================================================
