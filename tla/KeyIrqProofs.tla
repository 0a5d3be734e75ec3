---------------------------- MODULE KeyIrqProofs ----------------------------
(***************************************************************************)
(* Theorems about 13_irq (KeyIrq), for every debounce interval and every   *)
(* number of edges.                                                        *)
(***************************************************************************)
EXTENDS KeyIrq, KeyDebounceProofs

USE DEF KEY_PRESS, KEY_RELEASE, KEY_NONE

Inv == DebounceInv /\ timerPc \in {"idle", "lock"}

LEMMA InitInv == Init => Inv
  BY DebounceInitInv DEF Init, Inv, DebounceInit

LEMMA NextInv == Inv /\ [Next]_vars => Inv'
<1> SUFFICES ASSUME Inv, [Next]_vars PROVE Inv'
  OBVIOUS
<1>1. CASE Edge
  BY <1>1, EdgeInv DEF Inv, Edge
<1>2. CASE Tick
  BY <1>2, TickInv DEF Inv, Tick
<1>3. CASE key_interrupt_handler
  BY <1>3, HandlerInv DEF Inv, key_interrupt_handler
<1>4. CASE key_irq_tasklet
  BY <1>4, TaskletInv DEF Inv, key_irq_tasklet
<1>5. CASE TimerExpire
  BY <1>5, ExpireInv DEF Inv, TimerExpire
<1>6. CASE timer_function
  BY <1>6, SampleInv DEF Inv, timer_function, TimerSample
<1>7. CASE CopyStatus
  BY <1>7, CopyInv DEF Inv, CopyStatus
<1>8. CASE UNCHANGED vars
  BY <1>8, DebounceUnchanged DEF Inv, vars, debounceVars
<1>9. QED
  BY <1>1, <1>2, <1>3, <1>4, <1>5, <1>6, <1>7, <1>8 DEF Next, kery_read

\* The invariant holds in every reachable state.
LEMMA Invariance == SafeSpec => []Inv
<1>1. QED
  BY InitInv, NextInv, PTL DEF SafeSpec

\* The state of keyirq.c keeps its types.
THEOREM TypeCorrect == SafeSpec => []TypeOK
<1>1. Inv => TypeOK
  BY DEF Inv, DebounceInv, TypeOK
<1>2. QED
  BY <1>1, Invariance, PTL

\* No interleaving of the interrupt, the tasklet and timer_function loses an
\* edge: as long as the driver's level differs from the pin's, some stage of
\* the pipeline still holds the edge that made the difference.
THEOREM NoEdgeForgotten == SafeSpec => []EdgeNotForgotten
<1>1. Inv => EdgeNotForgotten
  BY DEF Inv, DebounceInv
<1>2. QED
  BY <1>1, Invariance, PTL

\* A sample of a level that has not been steady for the debounce interval is
\* followed by another one, because mod_timer pushes the expiry back.
THEOREM Debounced == SafeSpec => []SampleSettled
<1>1. Inv => SampleSettled
  BY DEF Inv, DebounceInv
<1>2. QED
  BY <1>1, Invariance, PTL

-----------------------------------------------------------------------------
(* The refinement of the one-slot mailbox, and of the stages.              *)

LEMMA Promised == Inv /\ [Next]_vars => AsPromised
<1> SUFFICES ASSUME Inv, [Next]_vars PROVE AsPromised
  OBVIOUS
<1>0. DebounceInv
  BY DEF Inv
<1>1. CASE Edge
  BY <1>0, <1>1, EdgePromised
<1>2. CASE Tick
  BY <1>2, TickPromised
<1>3. CASE key_interrupt_handler
  BY <1>3, HandlerPromised
<1>4. CASE key_irq_tasklet
  BY <1>4, TaskletPromised
<1>5. CASE TimerExpire
  BY <1>5, ExpirePromised
<1>6. CASE timer_function
  BY <1>0, <1>6, SamplePromised DEF timer_function
<1>7. CASE CopyStatus
  BY <1>0, <1>7, CopyPromised
<1>8. CASE UNCHANGED vars
  BY <1>8, UnchangedPromised DEF vars
<1>9. QED
  BY <1>1, <1>2, <1>3, <1>4, <1>5, <1>6, <1>7, <1>8 DEF Next, kery_read

\* keyirq.c implements the mailbox: its readers never get an event twice or out
\* of order, and presses and releases alternate among the events reported.
THEOREM Refinement == SafeSpec => ImplementsMailbox
<1>1. Init => Mailbox!Init
  BY InitPromised DEF Init
<1>2. Inv /\ [Next]_vars => [Mailbox!Next]_(Mailbox!vars)
  BY Promised DEF AsPromised
<1>. QED
  BY <1>1, <1>2, Invariance, PTL DEF SafeSpec, ImplementsMailbox, Mailbox!Spec

\* The interrupt, the tasklet, the timer and timer_function of keyirq.c, with every
\* order in which they can meet, hand a change of the pin on as KeyStages says.
THEOREM StagesRefinement == SafeSpec => ImplementsStages
<1>1. Init => Stages!Init
  BY InitPromised DEF Init
<1>2. Inv /\ [Next]_vars => [Stages!Next]_(Stages!vars)
  BY Promised DEF AsPromised
<1>. QED
  BY <1>1, <1>2, Invariance, PTL DEF SafeSpec, ImplementsStages, Stages!Spec
=============================================================================
