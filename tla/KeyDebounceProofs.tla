--------------------------- MODULE KeyDebounceProofs ---------------------------
(***************************************************************************)
(* What every step of the pipeline preserves.  KeyIrqProofs and            *)
(* KeyNotifyProofs put these lemmas together for their own specifications. *)
(***************************************************************************)
EXTENDS KeyDebounce, TLAPS

\* The inductive invariant of the pipeline.  SampleSettled needs
\* TimerCoversBounce, which says how the timer comes to expire late enough.
DebounceInv ==
    /\ DebounceTypeOK
    /\ UnreadIsFresh
    /\ EventsAlternate
    /\ EdgeNotForgotten
    /\ TimerCoversBounce
    /\ SampleSettled

USE DEF KEY_PRESS, KEY_RELEASE, KEY_NONE

\* Adding one to a number flips its parity.
LEMMA ParityFlips ==
    ASSUME NEW n \in Nat
    PROVE  /\ n % 2 \in 0..1
           /\ (n + 1) % 2 = 1 - (n % 2)
           /\ (n + 2) % 2 = n % 2
  OBVIOUS

\* The range of the counters quiet and expires has both its ends.
LEMMA DebounceRange == 0 \in 0..Debounce /\ Debounce \in 0..Debounce
  BY DebounceAssumption

\* keydev as it is when the module is loaded.
LEMMA DebounceInitInv == ASSUME DebounceInit PROVE DebounceInv
<1>1. DebounceTypeOK
  <2>1. level \in 0..1 /\ edges \in 0..MaxEdges /\ quiet \in 0..Debounce /\ expires \in 0..Debounce
    BY DebounceRange, MaxEdgesAssumption DEF DebounceInit
  <2>2. last_value \in 0..1 /\ event \in Nat /\ lastRead \in Nat
    BY DEF DebounceInit
  <2>3. QED
    BY <2>1, <2>2 DEF DebounceInit, DebounceTypeOK
<1>2. UnreadIsFresh /\ EventsAlternate
  BY DEF DebounceInit, UnreadIsFresh, EventsAlternate
<1>3. EdgeNotForgotten /\ TimerCoversBounce /\ SampleSettled
  BY DebounceAssumption
  DEF DebounceInit, EdgeNotForgotten, TimerCoversBounce, SampleSettled
<1>4. QED
  BY <1>1, <1>2, <1>3 DEF DebounceInv

\* A bounce or a press: the edge is latched, so nothing is forgotten.
LEMMA EdgeInv == ASSUME DebounceInv, Edge PROVE DebounceInv'
  BY DebounceAssumption, MaxEdgesAssumption
  DEF Edge, DebounceInv, DebounceTypeOK, UnreadIsFresh, EventsAlternate,
      EdgeNotForgotten, TimerCoversBounce, SampleSettled, mailVars

\* A tick of the clock brings the expiry nearer by what it adds to quiet.
LEMMA TickInv == ASSUME DebounceInv, Tick PROVE DebounceInv'
  BY DebounceAssumption, MaxEdgesAssumption
  DEF Tick, DebounceInv, DebounceTypeOK, UnreadIsFresh, EventsAlternate,
      EdgeNotForgotten, TimerCoversBounce, SampleSettled, mailVars

\* The handler passes the edge on to the tasklet.
LEMMA HandlerInv == ASSUME DebounceInv, key_interrupt_handler PROVE DebounceInv'
<1>1. DebounceTypeOK'
  BY DebounceAssumption DEF key_interrupt_handler, DebounceInv, DebounceTypeOK, pinVars, mailVars
<1>2. UnreadIsFresh' /\ EventsAlternate'
  BY DEF key_interrupt_handler, DebounceInv, UnreadIsFresh, EventsAlternate, mailVars
<1>3. EdgeNotForgotten' /\ TimerCoversBounce' /\ SampleSettled'
  BY DebounceAssumption
  DEF key_interrupt_handler, DebounceInv, DebounceTypeOK, pinVars,
      EdgeNotForgotten, TimerCoversBounce, SampleSettled
<1>4. QED
  BY <1>1, <1>2, <1>3 DEF DebounceInv

\* The tasklet passes it on to the timer, for a whole interval.
LEMMA TaskletInv == ASSUME DebounceInv, key_irq_tasklet PROVE DebounceInv'
<1>1. DebounceTypeOK'
  BY DebounceRange DEF key_irq_tasklet, DebounceInv, DebounceTypeOK, pinVars, mailVars
<1>2. UnreadIsFresh' /\ EventsAlternate'
  BY DEF key_irq_tasklet, DebounceInv, UnreadIsFresh, EventsAlternate, mailVars
<1>3. EdgeNotForgotten' /\ SampleSettled'
  BY DEF key_irq_tasklet, DebounceInv, EdgeNotForgotten, SampleSettled, pinVars
<1>4. quiet' + expires' >= Debounce
  BY DebounceAssumption DEF key_irq_tasklet, DebounceInv, DebounceTypeOK, pinVars
<1>5. TimerCoversBounce'
  BY <1>4 DEF TimerCoversBounce
<1>6. QED
  BY <1>1, <1>2, <1>3, <1>5 DEF DebounceInv

\* The timer expires with the interval over, or with a later edge on its way.
LEMMA ExpireInv == ASSUME DebounceInv, TimerExpire PROVE DebounceInv'
<1>1. DebounceTypeOK'
  BY DEF TimerExpire, DebounceInv, DebounceTypeOK, pinVars, mailVars
<1>2. UnreadIsFresh' /\ EventsAlternate'
  BY DEF TimerExpire, DebounceInv, UnreadIsFresh, EventsAlternate, mailVars
<1>3. EdgeNotForgotten' /\ TimerCoversBounce'
  BY DEF TimerExpire, DebounceInv, EdgeNotForgotten, TimerCoversBounce, pinVars
<1>4. quiet >= Debounce \/ irq \/ tasklet
  BY DebounceAssumption DEF TimerExpire, DebounceInv, DebounceTypeOK, TimerCoversBounce
<1>5. SampleSettled'
  BY <1>4 DEF TimerExpire, SampleSettled, pinVars
<1>6. QED
  BY <1>1, <1>2, <1>3, <1>5 DEF DebounceInv

\* A sample makes the driver's level the pin's, and one event of a change.
LEMMA SampleInv ==
    ASSUME DebounceInv, NEW next \in {"idle", "wake"}, TimerSample(next)
    PROVE  DebounceInv'
<1> USE DebounceAssumption DEF TimerSample, DebounceInv, pinVars, pipeVars
<1>1. event \in Nat /\ last_value \in 0..1 /\ level \in 0..1
  BY DEF DebounceTypeOK
<1>2. DebounceTypeOK'
  BY DEF DebounceTypeOK, Report
<1>3. UnreadIsFresh'
  BY <1>1 DEF UnreadIsFresh, Report, DebounceTypeOK
<1>4. EventsAlternate'
  <2>1. CASE level = last_value
    BY <2>1, <1>1 DEF Report, EventsAlternate
  <2>2. CASE level # last_value
    BY <2>2, <1>1, ParityFlips, ParityFlips DEF Report, EventsAlternate
  <2>3. QED
    BY <2>1, <2>2
<1>5. EdgeNotForgotten' /\ TimerCoversBounce' /\ SampleSettled'
  BY DEF EdgeNotForgotten, TimerCoversBounce, SampleSettled, DebounceTypeOK
<1>6. QED
  BY <1>2, <1>3, <1>4, <1>5

\* A reader marks the newest event as read and clears the status.
LEMMA CopyInv == ASSUME DebounceInv, CopyStatus PROVE DebounceInv'
  BY DEF CopyStatus, DebounceInv, DebounceTypeOK, UnreadIsFresh,
      EventsAlternate, EdgeNotForgotten, TimerCoversBounce, SampleSettled,
      pinVars, pipeVars

\* The other steps of timer_function and of the processes leave the pipeline be.
LEMMA DebounceUnchanged ==
    ASSUME DebounceInv, UNCHANGED debounceVars PROVE DebounceInv'
  BY DEF debounceVars, DebounceInv, DebounceTypeOK, UnreadIsFresh,
      EventsAlternate, EdgeNotForgotten, TimerCoversBounce, SampleSettled,
      pinVars, pipeVars, mailVars

\* So do the wake-up and the signal of timer_function, which move only timerPc.
LEMMA NotifyInv ==
    ASSUME DebounceInv, UNCHANGED <<pinVars, pipeVars, last_value, mailVars>>,
           timerPc # "lock", timerPc' \in {"idle", "sigio"}
    PROVE  DebounceInv'
<1> USE DEF DebounceInv, pinVars, pipeVars, mailVars
<1>1. DebounceTypeOK'
  BY DEF DebounceTypeOK
<1>2. UnreadIsFresh' /\ EventsAlternate'
  BY DEF UnreadIsFresh, EventsAlternate
<1>3. timerPc' # "lock"
  OBVIOUS
<1>4. EdgeNotForgotten' /\ TimerCoversBounce' /\ SampleSettled'
  BY <1>3 DEF EdgeNotForgotten, TimerCoversBounce, SampleSettled
<1>5. QED
  BY <1>1, <1>2, <1>4

-----------------------------------------------------------------------------
(* What every step of the pipeline is to the mailbox and to the stages.    *)

AsPromised == [Mailbox!Next]_(Mailbox!vars) /\ [Stages!Next]_(Stages!vars)

LEMMA InitPromised == DebounceInit => Mailbox!Init /\ Stages!Init
  BY DEF DebounceInit, Mailbox!Init, Mailbox!KEY_NONE, Stages!Init

\* An edge is one of the pin's moves: edges > 0 from then on.
LEMMA EdgePromised == ASSUME DebounceInv, Edge PROVE AsPromised
<1>1. UNCHANGED Mailbox!vars
  BY DEF Edge, mailVars, Mailbox!vars
<1>2. level \in 0..1 /\ edges \in Nat /\ edges' = edges + 1 /\ level' = 1 - level
  BY MaxEdgesAssumption DEF Edge, DebounceInv, DebounceTypeOK
<1>3. level' \in 0..1 \ {level} /\ edges' > 0
  BY <1>2
<1>4. Stages!Move
  BY <1>3 DEF Edge, Stages!Move
<1>. QED BY <1>1, <1>4 DEF AsPromised, Stages!Next

LEMMA TickPromised == ASSUME Tick PROVE AsPromised
  BY DEF Tick, mailVars, Mailbox!vars, Stages!vars, AsPromised

LEMMA HandlerPromised == ASSUME key_interrupt_handler PROVE AsPromised
<1> USE DEF key_interrupt_handler, pinVars, mailVars
<1>1. UNCHANGED Mailbox!vars
  BY DEF Mailbox!vars
<1>2. Stages!Interrupt
  BY DEF Stages!Interrupt
<1>. QED BY <1>1, <1>2 DEF AsPromised, Stages!Next

\* The timer is armed, whether or not its function is about to look at the pin.
LEMMA TaskletPromised == ASSUME key_irq_tasklet PROVE AsPromised
<1> USE DEF key_irq_tasklet, pinVars, mailVars
<1>1. UNCHANGED Mailbox!vars
  BY DEF Mailbox!vars
<1>2. Stages!Tasklet
  BY DEF Stages!Tasklet
<1>. QED BY <1>1, <1>2 DEF AsPromised, Stages!Next

\* The expiry passes what the timer holds on to timer_function.
LEMMA ExpirePromised == ASSUME TimerExpire PROVE AsPromised
<1> USE DEF TimerExpire, pinVars, mailVars
<1>1. UNCHANGED Mailbox!vars
  BY DEF Mailbox!vars
<1>2. UNCHANGED Stages!vars
  BY DEF Stages!vars
<1>. QED BY <1>1, <1>2 DEF AsPromised

\* A sample of a changed level is a Report, because the parity of the events
\* is that of the level; a sample of the same level is an Erase.
LEMMA SampleIsMailboxStep ==
    ASSUME DebounceInv, NEW next, TimerSample(next) PROVE Mailbox!Report \/ Mailbox!Erase
<1> USE DEF Mailbox!KEY_PRESS, Mailbox!KEY_RELEASE, Mailbox!KEY_NONE
<1>1. event \in Nat /\ level \in 0..1 /\ last_value = (event + 1) % 2
  BY DEF DebounceInv, DebounceTypeOK, EventsAlternate
<1>2. CASE level = last_value
  BY <1>2 DEF TimerSample, Report, Mailbox!Erase
<1>3. CASE level # last_value
  <2>1. level = 0 <=> (event + 1) % 2 = 1
    BY <1>1, <1>3, ParityFlips
  <2>2. Mailbox!KindOf(event + 1) = IF level = 0 THEN KEY_PRESS ELSE KEY_RELEASE
    BY <2>1 DEF Mailbox!KindOf
  <2>3. QED
    BY <2>2, <1>3 DEF TimerSample, Report, Mailbox!Report
<1>4. QED
  BY <1>2, <1>3

\* A sample tells the level of the pin; the timer is armed after it if the
\* tasklet has run since it expired.
LEMMA SamplePromised ==
    ASSUME DebounceInv, NEW next \in {"idle", "wake"}, TimerSample(next) PROVE AsPromised
<1>1. timerPc = "lock" /\ timerPc' # "lock" /\ pending' = pending /\ pending \in BOOLEAN
  BY DEF TimerSample, pipeVars, DebounceInv, DebounceTypeOK
<1>2. Stages!Tell
  BY <1>1 DEF TimerSample, pinVars, pipeVars, Stages!Tell
<1>. QED BY <1>2, SampleIsMailboxStep DEF AsPromised, Mailbox!Next, Stages!Next

\* A read that finds an event takes one that nobody has read; a read that
\* finds none changes nothing.
LEMMA CopyIsMailboxStep ==
    ASSUME DebounceInv, CopyStatus PROVE Mailbox!Take \/ UNCHANGED Mailbox!vars
<1> USE DEF Mailbox!KEY_PRESS, Mailbox!KEY_RELEASE, Mailbox!KEY_NONE
<1>1. CASE status = KEY_NONE
  BY <1>1 DEF CopyStatus, Mailbox!vars
<1>2. CASE status # KEY_NONE
  <2>1. status = Mailbox!KindOf(event)
    BY <1>2 DEF DebounceInv, DebounceTypeOK, EventsAlternate, Mailbox!KindOf
  <2>2. lastRead < event
    BY <1>2 DEF DebounceInv, UnreadIsFresh
  <2>3. QED
    BY <1>2, <2>1, <2>2 DEF CopyStatus, Mailbox!Take
<1>3. QED
  BY <1>1, <1>2

LEMMA CopyPromised == ASSUME DebounceInv, CopyStatus PROVE AsPromised
<1>1. UNCHANGED Stages!vars
  BY DEF CopyStatus, pinVars, pipeVars, Stages!vars
<1>. QED BY <1>1, CopyIsMailboxStep DEF AsPromised, Mailbox!Next

LEMMA UnchangedPromised == ASSUME UNCHANGED debounceVars PROVE AsPromised
<1> USE DEF debounceVars, pinVars, pipeVars, mailVars
<1>1. UNCHANGED Mailbox!vars
  BY DEF Mailbox!vars
<1>2. UNCHANGED Stages!vars
  BY DEF Stages!vars
<1>. QED BY <1>1, <1>2 DEF AsPromised

\* The wake-up and the signal come after the sample.
LEMMA NotifyPromised ==
    ASSUME UNCHANGED <<pinVars, pipeVars, last_value, mailVars>>,
           timerPc # "lock", timerPc' # "lock"
    PROVE  AsPromised
<1> USE DEF pinVars, pipeVars, mailVars
<1>1. UNCHANGED Mailbox!vars
  BY DEF Mailbox!vars
<1>2. UNCHANGED Stages!vars
  BY DEF Stages!vars
<1>. QED BY <1>1, <1>2 DEF AsPromised
=============================================================================
