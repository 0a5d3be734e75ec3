------------------------------ MODULE KeyNotify ------------------------------
(***************************************************************************)
(* The key drivers that tell their readers of an event: 14_blockio (a      *)
(* wait queue), 15_noblockio (the wait queue, O_NONBLOCK and poll) and     *)
(* 16_fasync (all that and SIGIO).  Each adds to the one before it, so the *)
(* module is one driver whose constant Variant says how much of it there   *)
(* is.  The pipeline of KeyDebounce produces the status; the processes of  *)
(* Files, one for each open file, read it.                                 *)
(*                                                                         *)
(* wait_event_interruptible, poll and the signal of fasync are the         *)
(* kernel's: they are modelled by their contracts.  A sleeper that has     *)
(* checked its condition misses no wake-up that comes after its check.     *)
(***************************************************************************)
EXTENDS KeyDebounce

CONSTANTS
    Files,      \* the processes, each with one file of the device
    Variant     \* which of the three drivers

ASSUME VariantAssumption == Variant \in {"blockio", "noblockio", "fasync"}

HasPoll   == Variant \in {"noblockio", "fasync"}
HasFasync == Variant = "fasync"

VARIABLES
    pc,         \* what the process does with its file
    nonblock,   \* O_NONBLOCK is set in f_flags
    async,      \* files on the list keydev.async
    sig         \* SIGIO or another signal is pending for the process

fileVars == <<pc, nonblock, async, sig>>
vars     == <<debounceVars, fileVars>>

\* "user": the file is open and no call is in progress.  "wait" and "sleep" are
\* wait_event_interruptible before a check of its condition and after it failed.
\* "poll", "pollcheck" and "pollsleep": key_poll before poll_wait, between
\* poll_wait and the check of the status, and the process asleep in poll.
PC == {"closed", "user", "wait", "sleep", "copy", "poll", "pollcheck", "pollsleep"}

Asleep == {"sleep", "pollsleep"}

TypeOK ==
    /\ DebounceTypeOK
    /\ pc \in [Files -> PC]
    /\ nonblock \in [Files -> BOOLEAN]
    /\ async \in SUBSET Files
    /\ sig \in [Files -> BOOLEAN]

Init ==
    /\ DebounceInit
    /\ pc = [f \in Files |-> "closed"]
    /\ nonblock = [f \in Files |-> FALSE]
    /\ async = {}
    /\ sig = [f \in Files |-> FALSE]

-----------------------------------------------------------------------------
(* The pipeline.  Its steps leave the files alone, but for the wake-ups.    *)

Pipeline ==
    /\ Edge \/ Tick \/ key_interrupt_handler \/ key_irq_tasklet \/ TimerExpire
    /\ UNCHANGED fileVars

\* timer_function up to spin_unlock_irqrestore.
TimerReport == TimerSample("wake") /\ UNCHANGED fileVars

\* Wrong on purpose: only the readers are on the wait queue, not the pollers.
TimerWakeReaders ==
    /\ timerPc = "wake"
    /\ timerPc' = IF HasFasync THEN "sigio" ELSE "idle"
    /\ pc' = [f \in Files |-> IF pc[f] = "sleep" THEN "wait" ELSE pc[f]]
    /\ UNCHANGED <<pinVars, pipeVars, last_value, mailVars, nonblock, async, sig>>

\* Wrong on purpose: an exclusive wake-up, which gets one reader out of its sleep.
TimerWakeOne ==
    /\ timerPc = "wake"
    /\ timerPc' = "idle"
    /\ IF \E f \in Files : pc[f] = "sleep"
       THEN \E f \in Files : pc[f] = "sleep" /\ pc' = [pc EXCEPT ![f] = "wait"]
       ELSE UNCHANGED pc
    /\ UNCHANGED <<pinVars, pipeVars, last_value, mailVars, nonblock, async, sig>>

\* wake_up_interruptible: every process on r_wait looks at its condition again.
TimerWake ==
    /\ timerPc = "wake"
    /\ timerPc' = IF HasFasync THEN "sigio" ELSE "idle"
    /\ pc' = [f \in Files |-> CASE pc[f] = "sleep"     -> "wait"
                                [] pc[f] = "pollsleep" -> "pollcheck"
                                [] OTHER               -> pc[f]]
    /\ UNCHANGED <<pinVars, pipeVars, last_value, mailVars, nonblock, async, sig>>

\* Wrong on purpose: no SIGIO when the status is gone by the time it would be sent.
SigioIfUnread ==
    /\ timerPc = "sigio"
    /\ timerPc' = "idle"
    /\ sig' = [f \in Files |-> sig[f] \/ (f \in async /\ status # KEY_NONE)]
    /\ UNCHANGED <<pinVars, pipeVars, last_value, mailVars, pc, nonblock, async>>

\* kill_fasync: SIGIO to the owner of every file on the list.
TimerSigio ==
    /\ timerPc = "sigio"
    /\ timerPc' = "idle"
    /\ sig' = [f \in Files |-> sig[f] \/ f \in async]
    /\ UNCHANGED <<pinVars, pipeVars, last_value, mailVars, pc, nonblock, async>>

-----------------------------------------------------------------------------
(* The file operations, called by the process that has the file.           *)

Goto(f, from, to) == pc[f] = from /\ pc' = [pc EXCEPT ![f] = to]

\* O_NONBLOCK is the caller's choice in open(2).
key_open(f) ==
    /\ Goto(f, "closed", "user")
    /\ \E on \in BOOLEAN : nonblock' = [nonblock EXCEPT ![f] = on]
    /\ UNCHANGED <<debounceVars, async, sig>>

\* key_release does nothing itself; the kernel calls key_fasync(-1, filp, 0)
\* for a file that still has FASYNC set before it calls release.
key_release(f) ==
    /\ Goto(f, "user", "closed")
    /\ nonblock' = [nonblock EXCEPT ![f] = FALSE]
    /\ async' = async \ {f}
    /\ UNCHANGED <<debounceVars, sig>>

\* Only 15_noblockio and 16_fasync look at O_NONBLOCK.
Waits(f) == Variant = "blockio" \/ ~nonblock[f]

\* kery_read up to the wait, or up to spin_lock_irqsave when it does not wait:
\* with O_NONBLOCK the status is looked at without the lock, and a read that
\* finds none returns -EAGAIN (the caller's state does not change).
ReadStart(f) ==
    /\ \/ Waits(f) /\ Goto(f, "user", "wait")
       \/ ~Waits(f) /\ status # KEY_NONE /\ Goto(f, "user", "copy")
       \/ ~Waits(f) /\ status = KEY_NONE /\ Goto(f, "user", "user")
    /\ UNCHANGED <<debounceVars, nonblock, async, sig>>

\* wait_event_interruptible(dev->r_wait, dev->status != KEY_NONE).  A pending
\* signal ends the wait too, and kery_read overwrites the error it returns.
WaitCheck(f) ==
    /\ \/ (status # KEY_NONE \/ sig[f]) /\ Goto(f, "wait", "copy")
       \/ status = KEY_NONE /\ ~sig[f] /\ Goto(f, "wait", "sleep")
    /\ UNCHANGED <<debounceVars, nonblock, async, sig>>

\* Wrong on purpose: the status is cleared even when copy_to_user fails.
ReadCopyAlwaysClears(f) ==
    /\ Goto(f, "copy", "user")
    /\ \/ CopyStatus
       \/ /\ status' = KEY_NONE
          /\ UNCHANGED <<pinVars, pipeVars, timerPc, last_value, event, lastRead>>
    /\ UNCHANGED <<nonblock, async, sig>>

\* The rest of kery_read: copy and clear the status under the lock, whatever
\* became of it since the check, or -EFAULT with the status left as it is.
ReadCopy(f) ==
    /\ Goto(f, "copy", "user")
    /\ CopyStatus \/ UNCHANGED debounceVars
    /\ UNCHANGED <<nonblock, async, sig>>

\* Wrong on purpose: key_poll looks at the status and then joins the queue.
PollChecksFirst(f) ==
    /\ \/ HasPoll /\ Goto(f, "user", "poll")
       \/ (status # KEY_NONE \/ sig[f]) /\ Goto(f, "poll", "user")
       \/ status = KEY_NONE /\ ~sig[f] /\ Goto(f, "poll", "pollcheck")
       \/ Goto(f, "pollcheck", "pollsleep")
    /\ UNCHANGED <<debounceVars, nonblock, async, sig>>

\* poll and select call key_poll, which joins the wait queue with poll_wait
\* before it looks at the status.  An empty mask puts the process to sleep,
\* unless it was woken since poll_wait or a signal is pending.
key_poll(f) ==
    /\ \/ HasPoll /\ Goto(f, "user", "poll")
       \/ Goto(f, "poll", "pollcheck")
       \/ (status # KEY_NONE \/ sig[f]) /\ Goto(f, "pollcheck", "user")
       \/ status = KEY_NONE /\ ~sig[f] /\ Goto(f, "pollcheck", "pollsleep")
    /\ UNCHANGED <<debounceVars, nonblock, async, sig>>

\* The timeout of poll and select.
PollTimeout(f) ==
    /\ Goto(f, "pollsleep", "user")
    /\ UNCHANGED <<debounceVars, nonblock, async, sig>>

\* fcntl(F_SETFL) sets O_NONBLOCK or clears it, and calls key_fasync when
\* FASYNC changes: fasync_helper then adds the file to the list or removes it.
key_fasync(f) ==
    /\ pc[f] = "user"
    /\ \E on \in BOOLEAN : nonblock' = [nonblock EXCEPT ![f] = on]
    /\ async' \in IF HasFasync THEN {async \cup {f}, async \ {f}} ELSE {async}
    /\ UNCHANGED <<debounceVars, pc, sig>>

\* Another signal; it wakes the process from an interruptible sleep.
Signal(f) ==
    /\ pc[f] # "closed"
    /\ sig' = [sig EXCEPT ![f] = TRUE]
    /\ UNCHANGED <<debounceVars, pc, nonblock, async>>

SignalWakes(f) ==
    /\ sig[f]
    /\ Goto(f, "sleep", "wait") \/ Goto(f, "pollsleep", "pollcheck")
    /\ UNCHANGED <<debounceVars, nonblock, async, sig>>

\* Back in user mode the signal's handler runs.
HandleSignal(f) ==
    /\ pc[f] \in {"user", "closed"}
    /\ sig[f]
    /\ sig' = [sig EXCEPT ![f] = FALSE]
    /\ UNCHANGED <<debounceVars, pc, nonblock, async>>

-----------------------------------------------------------------------------
FileStep(f) ==
    \/ key_open(f) \/ key_release(f)
    \/ ReadStart(f) \/ WaitCheck(f) \/ ReadCopy(f)
    \/ key_poll(f) \/ PollTimeout(f)
    \/ key_fasync(f)
    \/ Signal(f) \/ SignalWakes(f) \/ HandleSignal(f)

Next ==
    \/ Pipeline
    \/ TimerReport
    \/ TimerWake
    \/ TimerSigio
    \/ \E f \in Files : FileStep(f)

\* The kernel runs interrupts, softirqs and every runnable process; edges,
\* opens, reads, signals and timeouts need not come.
Fairness ==
    /\ WF_vars(Tick /\ UNCHANGED fileVars)
    /\ WF_vars(key_interrupt_handler /\ UNCHANGED fileVars)
    /\ WF_vars(key_irq_tasklet /\ UNCHANGED fileVars)
    /\ WF_vars(TimerExpire /\ UNCHANGED fileVars)
    /\ WF_vars(TimerReport)
    /\ WF_vars(TimerWake)
    /\ WF_vars(TimerSigio)
    /\ \A f \in Files :
        /\ WF_vars(WaitCheck(f) \/ ReadCopy(f) \/ SignalWakes(f))
        /\ WF_vars(pc[f] # "user" /\ key_poll(f))

SafeSpec == Init /\ [][Next]_vars

Spec == SafeSpec /\ Fairness

-----------------------------------------------------------------------------
(* Properties.                                                             *)

\* No process sleeps on r_wait with a status to read, unless timer_function is
\* just about to wake it: the order of store and wake_up in timer_function, and
\* of poll_wait and load in key_poll, leave no window for a lost wake-up.
NoLostWakeup ==
    status # KEY_NONE /\ (\E f \in Files : pc[f] \in Asleep) => timerPc = "wake"

\* The notification layers change nothing in what the pipeline does: each
\* driver implements keyirq.c, whose timer_function ends at its unlock.
Irq == INSTANCE KeyIrq WITH timerPc <- IF timerPc = "lock" THEN "lock" ELSE "idle"
ImplementsKeyIrq == Irq!Spec

\* The pin has made its last edge, and the driver has not seen the level yet.
LastEdgeUnseen == edges = MaxEdges /\ edges > 0 /\ last_value # level

\* A change of the key that the pin does not take back gets every sleeping
\* process out of its sleep, in read and in poll.
SleeperWoken ==
    \A f \in Files : LastEdgeUnseen /\ pc[f] \in Asleep ~> pc[f] \notin Asleep

\* ... and a signal to every process that asked for one with FASYNC.
SigioSent ==
    \A f \in Files : LastEdgeUnseen /\ f \in async ~> sig[f] \/ f \notin async

\* README.md: a wait queue makes the read blocking.  So a read that may wait
\* has a key event to hand out when it copies the status.
BlockingReadReturnsKey ==
    [][\A f \in Files : Waits(f) /\ pc[f] = "copy" /\ pc'[f] = "user" =>
            status # KEY_NONE]_vars
=============================================================================
