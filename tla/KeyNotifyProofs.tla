--------------------------- MODULE KeyNotifyProofs ---------------------------
(***************************************************************************)
(* Theorems about 14_blockio, 15_noblockio and 16_fasync (KeyNotify), for  *)
(* every number of processes, debounce interval and number of edges, and   *)
(* for each of the three variants.                                         *)
(***************************************************************************)
EXTENDS KeyNotify, KeyDebounceProofs

USE DEF KEY_PRESS, KEY_RELEASE, KEY_NONE

FileTypeOK ==
    /\ pc \in [Files -> PC]
    /\ nonblock \in [Files -> BOOLEAN]
    /\ async \in SUBSET Files
    /\ sig \in [Files -> BOOLEAN]

Inv == DebounceInv /\ FileTypeOK /\ NoLostWakeup

-----------------------------------------------------------------------------
(* The pipeline's part of the invariant.                                   *)

\* What a process does to the pipeline is to copy the status, or nothing.
LEMMA FileStepDebounce ==
    ASSUME NEW f \in Files, FileStep(f)
    PROVE  CopyStatus \/ UNCHANGED debounceVars
  BY DEF FileStep, key_open, key_release, ReadStart, WaitCheck, ReadCopy, key_poll,
         PollTimeout, key_fasync, Signal, SignalWakes, HandleSignal

LEMMA DebounceStep == ASSUME DebounceInv, [Next]_vars PROVE DebounceInv'
<1>1. CASE Pipeline
  BY <1>1, EdgeInv, TickInv, HandlerInv, TaskletInv, ExpireInv DEF Pipeline
<1>2. CASE TimerReport
  BY <1>2, SampleInv DEF TimerReport
<1>3. CASE TimerWake
  <2>1. timerPc # "lock" /\ timerPc' \in {"idle", "sigio"}
    BY <1>3 DEF TimerWake
  <2>2. QED
    BY <1>3, <2>1, NotifyInv DEF TimerWake
<1>4. CASE TimerSigio
  BY <1>4, NotifyInv DEF TimerSigio
<1>5. ASSUME NEW f \in Files, FileStep(f) PROVE DebounceInv'
  BY <1>5, FileStepDebounce, CopyInv, DebounceUnchanged
<1>6. CASE UNCHANGED vars
  BY <1>6, DebounceUnchanged DEF vars
<1>7. QED
  BY <1>1, <1>2, <1>3, <1>4, <1>5, <1>6 DEF Next

-----------------------------------------------------------------------------
(* The processes' part.                                                    *)

LEMMA FileStepType ==
    ASSUME FileTypeOK, NEW f \in Files, FileStep(f)
    PROVE  FileTypeOK'
<1> USE DEF FileTypeOK, Goto, PC
<1>1. CASE key_open(f)
  BY <1>1 DEF key_open
<1>2. CASE key_release(f)
  BY <1>2 DEF key_release
<1>3. CASE ReadStart(f)
  BY <1>3 DEF ReadStart
<1>4. CASE WaitCheck(f)
  BY <1>4 DEF WaitCheck
<1>5. CASE ReadCopy(f)
  BY <1>5 DEF ReadCopy
<1>6. CASE key_poll(f)
  BY <1>6 DEF key_poll
<1>7. CASE PollTimeout(f)
  BY <1>7 DEF PollTimeout
<1>8. CASE key_fasync(f)
  BY <1>8 DEF key_fasync
<1>9. CASE Signal(f) \/ HandleSignal(f)
  BY <1>9 DEF Signal, HandleSignal
<1>10. CASE SignalWakes(f)
  BY <1>10 DEF SignalWakes
<1>11. QED
  BY <1>1, <1>2, <1>3, <1>4, <1>5, <1>6, <1>7, <1>8, <1>9, <1>10 DEF FileStep

LEMMA TypeStep == ASSUME FileTypeOK, [Next]_vars PROVE FileTypeOK'
<1>1. CASE Pipeline \/ TimerReport \/ UNCHANGED vars
  BY <1>1 DEF Pipeline, TimerReport, vars, fileVars, FileTypeOK
<1>2. CASE TimerWake
  BY <1>2 DEF TimerWake, FileTypeOK, PC
<1>3. CASE TimerSigio
  BY <1>3 DEF TimerSigio, FileTypeOK
<1>4. QED
  BY <1>1, <1>2, <1>3, FileStepType DEF Next

\* A process goes to sleep only when there is no status, and no step of a
\* process makes one.
LEMMA FileStepSleep ==
    ASSUME FileTypeOK, NEW f \in Files, FileStep(f), status' # KEY_NONE,
           NEW g \in Files, pc'[g] \in Asleep
    PROVE  status' = status /\ timerPc' = timerPc /\ pc[g] \in Asleep
<1> USE DEF FileTypeOK, Goto, Asleep, debounceVars, mailVars, CopyStatus
<1>1. CASE key_open(f) \/ key_release(f)
  BY <1>1 DEF key_open, key_release
<1>2. CASE ReadStart(f)
  BY <1>2 DEF ReadStart
<1>3. CASE WaitCheck(f)
  BY <1>3 DEF WaitCheck
<1>4. CASE ReadCopy(f)
  BY <1>4 DEF ReadCopy
<1>5. CASE key_poll(f)
  BY <1>5 DEF key_poll
<1>6. CASE PollTimeout(f) \/ SignalWakes(f)
  BY <1>6 DEF PollTimeout, SignalWakes
<1>7. CASE key_fasync(f) \/ Signal(f) \/ HandleSignal(f)
  BY <1>7 DEF key_fasync, Signal, HandleSignal
<1>8. QED
  BY <1>1, <1>2, <1>3, <1>4, <1>5, <1>6, <1>7 DEF FileStep

LEMMA WakeupStep ==
    ASSUME FileTypeOK, NoLostWakeup, [Next]_vars PROVE NoLostWakeup'
<1>1. CASE Pipeline
  <2>1. status' = status /\ pc' = pc
    BY <1>1 DEF Pipeline, Edge, Tick, key_interrupt_handler, key_irq_tasklet,
                TimerExpire, mailVars, fileVars
  <2>2. timerPc' = timerPc \/ timerPc = "idle"
    BY <1>1 DEF Pipeline, Edge, Tick, key_interrupt_handler, key_irq_tasklet,
                TimerExpire
  <2>3. QED
    BY <2>1, <2>2 DEF NoLostWakeup
<1>2. CASE TimerReport
  BY <1>2 DEF TimerReport, TimerSample, NoLostWakeup
<1>3. CASE TimerWake
  <2>1. \A g \in Files : pc'[g] \notin Asleep
    BY <1>3 DEF TimerWake, Asleep, FileTypeOK, PC
  <2>2. QED
    BY <2>1 DEF NoLostWakeup
<1>4. CASE TimerSigio
  BY <1>4 DEF TimerSigio, NoLostWakeup, mailVars
<1>5. ASSUME NEW f \in Files, FileStep(f) PROVE NoLostWakeup'
  BY <1>5, FileStepSleep DEF NoLostWakeup
<1>6. CASE UNCHANGED vars
  BY <1>6 DEF vars, debounceVars, mailVars, fileVars, NoLostWakeup
<1>7. QED
  BY <1>1, <1>2, <1>3, <1>4, <1>5, <1>6 DEF Next

-----------------------------------------------------------------------------
(* The theorems.                                                           *)

LEMMA InitInv == Init => Inv
<1> SUFFICES ASSUME Init PROVE Inv
  OBVIOUS
<1>1. DebounceInv
  BY DebounceInitInv DEF Init
<1>2. FileTypeOK
  BY DEF Init, FileTypeOK, PC
<1>3. status = KEY_NONE
  BY DEF Init, DebounceInit
<1>4. QED
  BY <1>1, <1>2, <1>3 DEF Inv, NoLostWakeup

\* The invariant holds in every reachable state.
LEMMA Invariance == SafeSpec => []Inv
<1>1. Inv /\ [Next]_vars => Inv'
  BY DebounceStep, TypeStep, WakeupStep DEF Inv
<1>2. QED
  BY InitInv, <1>1, PTL DEF SafeSpec

\* The state of the three drivers and their processes keeps its types.
THEOREM TypeCorrect == SafeSpec => []TypeOK
<1>1. Inv => TypeOK
  BY DEF Inv, DebounceInv, FileTypeOK, TypeOK
<1>2. QED
  BY <1>1, Invariance, PTL

\* No process sleeps in read or poll over a status it could read, however many
\* processes share the wait queue and whatever signals they get.
THEOREM NoWakeupLost == SafeSpec => []NoLostWakeup
<1>1. Inv => NoLostWakeup
  BY DEF Inv
<1>2. QED
  BY <1>1, Invariance, PTL

-----------------------------------------------------------------------------
(* The refinement of keyirq.c.                                             *)

LEMMA IrqInit == Init => Irq!Init
  BY DEF Init, DebounceInit, Irq!Init, Irq!DebounceInit, Irq!KEY_NONE

LEMMA PipelineIsIrqStep == ASSUME Pipeline PROVE Irq!Next
<1>1. CASE Edge
  BY <1>1 DEF Edge, Irq!Next, Irq!Edge, mailVars, Irq!mailVars
<1>2. CASE Tick
  BY <1>2 DEF Tick, Irq!Next, Irq!Tick, mailVars, Irq!mailVars
<1>3. CASE key_interrupt_handler
  BY <1>3 DEF key_interrupt_handler, Irq!Next, Irq!key_interrupt_handler,
              mailVars, Irq!mailVars, pinVars, Irq!pinVars
<1>4. CASE key_irq_tasklet
  BY <1>4 DEF key_irq_tasklet, Irq!Next, Irq!key_irq_tasklet,
              mailVars, Irq!mailVars, pinVars, Irq!pinVars
<1>5. CASE TimerExpire
  BY <1>5 DEF TimerExpire, Irq!Next, Irq!TimerExpire,
              mailVars, Irq!mailVars, pinVars, Irq!pinVars
<1>6. QED
  BY <1>1, <1>2, <1>3, <1>4, <1>5 DEF Pipeline

LEMMA SampleIsIrqStep == ASSUME TimerReport PROVE Irq!Next
  BY DEF TimerReport, TimerSample, Report, Irq!Next, Irq!timer_function,
         Irq!TimerSample, Irq!Report, pinVars, Irq!pinVars, pipeVars, Irq!pipeVars,
         Irq!KEY_PRESS, Irq!KEY_RELEASE, Irq!KEY_NONE

\* The wake-up and the signal come after the step that keyirq.c ends with.
LEMMA NotifyIsIrqStutter == ASSUME TimerWake \/ TimerSigio PROVE UNCHANGED Irq!vars
  BY DEF TimerWake, TimerSigio, Irq!vars, Irq!debounceVars, pinVars, Irq!pinVars,
         pipeVars, Irq!pipeVars, mailVars, Irq!mailVars

LEMMA UnchangedIsIrqStutter == ASSUME UNCHANGED debounceVars PROVE UNCHANGED Irq!vars
  BY DEF debounceVars, Irq!vars, Irq!debounceVars, pinVars, Irq!pinVars,
         pipeVars, Irq!pipeVars, mailVars, Irq!mailVars

LEMMA CopyIsIrqStep == ASSUME CopyStatus PROVE Irq!Next
  BY DEF CopyStatus, Irq!Next, Irq!kery_read, Irq!CopyStatus, pinVars, Irq!pinVars,
         pipeVars, Irq!pipeVars, Irq!KEY_NONE

\* Waiting, polling and signalling only add to keyirq.c: each of the three
\* drivers behaves, to its pipeline and its data, like that of 13_irq, and so
\* has every safety property of it, the mailbox's included.
THEOREM Refinement == SafeSpec => Irq!SafeSpec
<1>1. [Next]_vars => [Irq!Next]_(Irq!vars)
  <2> SUFFICES ASSUME [Next]_vars PROVE Irq!Next \/ UNCHANGED Irq!vars
    OBVIOUS
  <2>1. ASSUME NEW f \in Files, FileStep(f) PROVE Irq!Next \/ UNCHANGED Irq!vars
    BY <2>1, FileStepDebounce, CopyIsIrqStep, UnchangedIsIrqStutter
  <2>2. CASE UNCHANGED vars
    BY <2>2, UnchangedIsIrqStutter DEF vars
  <2>3. QED
    BY <2>1, <2>2, PipelineIsIrqStep, SampleIsIrqStep, NotifyIsIrqStutter DEF Next
<1>2. QED
  BY IrqInit, <1>1, PTL DEF SafeSpec, Irq!SafeSpec

-----------------------------------------------------------------------------
(* What the three drivers promise to their readers themselves.             *)

LEMMA Promised == ASSUME Inv, [Next]_vars PROVE AsPromised
<1>0. DebounceInv
  BY DEF Inv
<1>1. CASE Pipeline
  BY <1>0, <1>1, EdgePromised, TickPromised, HandlerPromised, TaskletPromised, ExpirePromised
  DEF Pipeline
<1>2. CASE TimerReport
  BY <1>0, <1>2, SamplePromised DEF TimerReport
<1>3. CASE TimerWake
  BY <1>3, NotifyPromised DEF TimerWake
<1>4. CASE TimerSigio
  BY <1>4, NotifyPromised DEF TimerSigio
<1>5. ASSUME NEW f \in Files, FileStep(f) PROVE AsPromised
  BY <1>0, <1>5, FileStepDebounce, CopyPromised, UnchangedPromised
<1>6. CASE UNCHANGED vars
  BY <1>6, UnchangedPromised DEF vars
<1>. QED BY <1>1, <1>2, <1>3, <1>4, <1>5, <1>6 DEF Next

\* In the three drivers too no edge is forgotten, a sample is of a settled pin or
\* followed by another, and a status is of an event that nobody has read.
THEOREM PipelineSafe ==
    SafeSpec => [](EdgeNotForgotten /\ SampleSettled /\ UnreadIsFresh /\ EventsAlternate)
<1>1. Inv => EdgeNotForgotten /\ SampleSettled /\ UnreadIsFresh /\ EventsAlternate
  BY DEF Inv, DebounceInv
<1>. QED BY <1>1, Invariance, PTL

\* However many processes read, wait, poll and are signalled, to them the driver is a
\* mailbox with one slot: none gets an event that another has had, or an older one.
THEOREM MailboxRefinement == SafeSpec => Mailbox!Spec
<1>1. Init => Mailbox!Init
  BY InitPromised DEF Init
<1>2. Inv /\ [Next]_vars => [Mailbox!Next]_(Mailbox!vars)
  BY Promised DEF AsPromised
<1>. QED BY <1>1, <1>2, Invariance, PTL DEF SafeSpec, Mailbox!Spec

\* The wake-up and the signal come between a sample and the next expiry and take
\* nothing from the stages, which hand a change of the pin on as KeyStages says.
THEOREM StagesRefinement == SafeSpec => Stages!Spec
<1>1. Init => Stages!Init
  BY InitPromised DEF Init
<1>2. Inv /\ [Next]_vars => [Stages!Next]_(Stages!vars)
  BY Promised DEF AsPromised
<1>. QED BY <1>1, <1>2, Invariance, PTL DEF SafeSpec, Stages!Spec
=============================================================================
