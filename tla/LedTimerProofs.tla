---------------------------- MODULE LedTimerProofs ----------------------------
(***************************************************************************)
(* Theorems about 12_timer (LedTimer), for any number of processes and any *)
(* set of periods.                                                         *)
(***************************************************************************)
EXTENDS LedTimer, TLAPS

LEMMA InitType == Init => TypeOK
<1> SUFFICES ASSUME Init PROVE TypeOK
  OBVIOUS
<1>1. timeperiod \in AllPeriods /\ left \in Nat \cup {Never}
  BY DEF Init, AllPeriods
<1>2. sta \in 0..1 /\ led \in 0..1
  BY DEF Init
<1>3. pc \in [Procs -> PC]
  BY DEF Init, PC
<1>4. QED
  BY <1>1, <1>2, <1>3 DEF Init, TypeOK

LEMMA JiffiesType == \A m \in AllPeriods : Jiffies(m) \in Nat \cup {Never}
  BY PeriodsAssumption DEF AllPeriods, Jiffies

LEMMA NextType == TypeOK /\ [Next]_vars => TypeOK'
<1> SUFFICES ASSUME TypeOK, [Next]_vars PROVE TypeOK'
  OBVIOUS
<1> USE DEF TypeOK, timerVars, PC
<1>1. CASE Tick
  BY <1>1 DEF Tick, Never
<1>2. CASE TimerExpire
  BY <1>2 DEF TimerExpire
<1>3. CASE TimerToggle
  BY <1>3 DEF TimerToggle
<1>4. CASE TimerRearm
  BY <1>4, JiffiesType DEF TimerRearm, mod_timer
<1>5. ASSUME NEW p \in Procs, ProcStep(p) PROVE TypeOK'
  <2> USE DEF Goto
  <2>1. CASE timer_open(p)
    BY <2>1 DEF timer_open, AllPeriods
  <2>2. CASE led_parse(p)
    <3>1. pc' \in [Procs -> PC] /\ owner' \in Procs \cup {NoProc}
      BY <2>2 DEF led_parse
    <3>2. led' \in 0..1
      BY <2>2 DEF led_parse
    <3>3. UNCHANGED <<timeperiod, pending, left, timerPc, sta, running>>
      BY <2>2 DEF led_parse
    <3>4. QED
      BY <3>1, <3>2, <3>3
  <2>3. CASE CloseCmd(p) \/ CloseCmdDone(p)
    <3>1. pc' \in [Procs -> PC]
      BY <2>3 DEF CloseCmd, CloseCmdDone
    <3>2. pending' \in BOOLEAN /\ left' \in Nat \cup {Never} /\ running' \in BOOLEAN
      <4>1. CASE CloseCmd(p)
        BY <4>1 DEF CloseCmd
      <4>2. CASE CloseCmdDone(p)
        BY <4>2 DEF CloseCmdDone, del_timer_sync
      <4>3. QED
        BY <2>3, <4>1, <4>2
    <3>3. UNCHANGED <<owner, timeperiod, timerPc, sta, led>>
      BY <2>3 DEF CloseCmd, CloseCmdDone
    <3>4. QED
      BY <3>1, <3>2, <3>3
  <2>4. CASE OpenCmd(p)
    BY <2>4 DEF OpenCmd
  <2>5. CASE SetPeriodCmd(p)
    BY <2>5 DEF SetPeriodCmd, AllPeriods
  <2>6. CASE ModTimerCmd(p)
    <3>1. left' \in Nat \cup {Never}
      BY <2>6, JiffiesType DEF ModTimerCmd, mod_timer
    <3>2. pc' \in [Procs -> PC]
      BY <2>6 DEF ModTimerCmd
    <3>3. QED
      BY <2>6, <3>1, <3>2 DEF ModTimerCmd, mod_timer
  <2>7. CASE led_release(p)
    <3>1. pc' \in [Procs -> PC] /\ owner' \in Procs \cup {NoProc}
      BY <2>7 DEF led_release
    <3>2. left' \in Nat \cup {Never} /\ led' \in 0..1
      BY <2>7 DEF led_release, del_timer_sync
    <3>3. pending' \in BOOLEAN /\ running' \in BOOLEAN
      BY <2>7 DEF led_release, del_timer_sync
    <3>4. UNCHANGED <<timeperiod, timerPc, sta>>
      BY <2>7 DEF led_release
    <3>5. QED
      BY <3>1, <3>2, <3>3, <3>4
  <2>8. QED
    BY <1>5, <2>1, <2>2, <2>3, <2>4, <2>5, <2>6, <2>7 DEF ProcStep
<1>6. CASE UNCHANGED vars
  BY <1>6 DEF vars
<1>7. QED
  BY <1>1, <1>2, <1>3, <1>4, <1>5, <1>6 DEF Next

\* The state of the driver keeps its types; a negative period arms a timer
\* that never expires.
THEOREM TypeCorrect == SafeSpec => []TypeOK
<1>1. QED
  BY InitType, NextType, PTL DEF SafeSpec

-----------------------------------------------------------------------------
(* One owner.                                                              *)

LEMMA OwnerStep == TypeOK /\ OneOwner /\ [Next]_vars => OneOwner'
<1> SUFFICES ASSUME TypeOK, OneOwner, [Next]_vars PROVE OneOwner'
  OBVIOUS
<1>1. CASE Tick \/ TimerExpire \/ TimerToggle \/ TimerRearm \/ UNCHANGED vars
  BY <1>1 DEF Tick, TimerExpire, TimerToggle, TimerRearm, vars, OneOwner
<1>2. ASSUME NEW p \in Procs, ProcStep(p) PROVE OneOwner'
  <2> USE DEF TypeOK, OneOwner, Goto
  <2>1. CASE timer_open(p)
    BY <2>1 DEF timer_open
  <2>2. CASE led_parse(p)
    BY <2>2, NoProcAssumption DEF led_parse
  <2>3. CASE CloseCmd(p) \/ CloseCmdDone(p)
    BY <2>3 DEF CloseCmd, CloseCmdDone
  <2>4. CASE OpenCmd(p) \/ SetPeriodCmd(p) \/ ModTimerCmd(p)
    BY <2>4 DEF OpenCmd, SetPeriodCmd, ModTimerCmd
  <2>5. CASE led_release(p)
    BY <2>5, NoProcAssumption DEF led_release
  <2>6. QED
    BY <1>2, <2>1, <2>2, <2>3, <2>4, <2>5 DEF ProcStep
<1>3. QED
  BY <1>1, <1>2 DEF Next

\* The GPIO is a lock: it keeps all but one process out of the device.
THEOREM OneOwnerAlways == SafeSpec => []OneOwner
<1>1. Init => OneOwner
  BY NoProcAssumption DEF Init, OneOwner
<1>2. QED
  BY <1>1, OwnerStep, TypeCorrect, PTL DEF SafeSpec

-----------------------------------------------------------------------------
(* The timer after its user is gone.                                       *)

LEMMA QuietStep == TypeOK /\ StoppedIsQuiet /\ [Next]_vars => StoppedIsQuiet'
<1> SUFFICES ASSUME TypeOK, StoppedIsQuiet, [Next]_vars PROVE StoppedIsQuiet'
  OBVIOUS
<1> USE DEF TypeOK, StoppedIsQuiet, Active, Stopping
<1>1. CASE Tick \/ TimerExpire \/ TimerToggle \/ TimerRearm \/ UNCHANGED vars
  BY <1>1 DEF Tick, TimerExpire, TimerToggle, TimerRearm, vars, timerVars
<1>2. ASSUME NEW p \in Procs, ProcStep(p) PROVE StoppedIsQuiet'
  <2> USE DEF Goto, timerVars
  <2>1. CASE timer_open(p)
    BY <2>1 DEF timer_open
  <2>2. CASE led_parse(p)
    BY <2>2 DEF led_parse
  <2>3. CASE CloseCmd(p) \/ CloseCmdDone(p)
    BY <2>3 DEF CloseCmd, CloseCmdDone, del_timer_sync
  <2>4. CASE OpenCmd(p) \/ SetPeriodCmd(p)
    BY <2>4 DEF OpenCmd, SetPeriodCmd
  <2>5. CASE ModTimerCmd(p)
    BY <2>5 DEF ModTimerCmd
  <2>6. CASE led_release(p)
    BY <2>6 DEF led_release, del_timer_sync
  <2>7. QED
    BY <1>2, <2>1, <2>2, <2>3, <2>4, <2>5, <2>6 DEF ProcStep
<1>3. QED
  BY <1>1, <1>2 DEF Next

\* A timer that its user stopped, or whose file is closed, is dead, although
\* its callback arms it again: del_timer_sync waits for the callback.
THEOREM StoppedIsQuietAlways == SafeSpec => []StoppedIsQuiet
<1>1. Init => StoppedIsQuiet
  BY DEF Init, StoppedIsQuiet, Active
<1>2. QED
  BY <1>1, QuietStep, TypeCorrect, PTL DEF SafeSpec
=============================================================================
