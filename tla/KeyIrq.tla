-------------------------------- MODULE KeyIrq --------------------------------
(***************************************************************************)
(* The key driver of 13_irq/keyirq.c: the debounce pipeline and a read     *)
(* that never waits.  Any number of processes read keydev.status; a read   *)
(* is one critical section, so the readers need no state of their own.     *)
(***************************************************************************)
EXTENDS KeyDebounce

vars == debounceVars

TypeOK == DebounceTypeOK /\ timerPc \in {"idle", "lock"}

Init == DebounceInit

\* timer_function of keyirq.c returns right after its critical section.
timer_function == TimerSample("idle")

\* A read returns the status, KEY_NONE included, and clears it; when the user's
\* buffer faults it returns -EFAULT and the status stays for the next reader.
kery_read ==
    \/ CopyStatus
    \/ UNCHANGED vars

Next ==
    \/ Edge
    \/ Tick
    \/ key_interrupt_handler
    \/ key_irq_tasklet
    \/ TimerExpire
    \/ timer_function
    \/ kery_read

\* Interrupts, softirqs and the clock always make progress; presses and reads
\* are up to their users.
Fairness ==
    /\ WF_vars(Tick)
    /\ WF_vars(key_interrupt_handler)
    /\ WF_vars(key_irq_tasklet)
    /\ WF_vars(TimerExpire)
    /\ WF_vars(timer_function)

SafeSpec == Init /\ [][Next]_vars

Spec == SafeSpec /\ Fairness

-----------------------------------------------------------------------------
\* The driver is the one-slot mailbox that its readers rely on.
ImplementsMailbox == Mailbox!Spec

\* A change of the pin goes from stage to stage until timer_function has seen it,
\* also when timer_function runs while the tasklet arms the timer again.
ImplementsStages == Stages!Spec

\* Once the pin stops bouncing, the driver's idea of the level is the pin's:
\* no interleaving of interrupt, tasklet and timer loses the last edge.
LevelAgreement == <>[](edges > 0 => last_value = level)
===============================================================================
