------------------------------- MODULE HelloDev -------------------------------
(***************************************************************************)
(* The driver of helloDev/hello.c: one integer, hello_dev->val, read and   *)
(* written through /dev/hello (hello_read, hello_write) and through the    *)
(* attribute /sys/class/hello/hello/val (show and store), every access     *)
(* inside the semaphore hello_dev->sem.                                    *)
(*                                                                         *)
(* copy_to_user and copy_from_user move val a byte at a time and may fault *)
(* at any byte; the semaphore is the kernel's: a process that cannot have  *)
(* it waits in line, and up gives it to the first in the line.             *)
(***************************************************************************)
EXTENDS Naturals

CONSTANTS
    Procs,
    N,          \* sizeof(int)
    Byte,       \* values of a byte
    Written     \* values that the processes write

ASSUME NAssumption == N \in Nat \ {0}
ASSUME ByteAssumption == 0 \in Byte

Value == [1..N -> Byte]
Zero  == [i \in 1..N |-> 0]

ASSUME WrittenAssumption == Written \subseteq Value

Op == {"read", "write", "show", "store"}

VARIABLES
    val,        \* hello_dev->val
    sem,        \* hello_dev->sem.count
    ahead,      \* <<p, q>>: p is before q on the wait list of the semaphore
    pc,         \* where a process is
    op,         \* the call it makes
    arg,        \* the value it writes: the user's buffer, or the parsed text
    buf,        \* the user's buffer of a read in progress
    k,          \* bytes copied so far
    ret,        \* history: what a read that is about to return has succeeded with
    settled     \* history: val as the last writer to finish left it

semVars  == <<sem, ahead>>
callVars == <<op, arg>>
vars     == <<val, semVars, pc, callVars, buf, k, ret, settled>>

PC == {"idle", "down", "wait", "crit", "copy", "up"}

TypeOK ==
    /\ val \in Value
    /\ sem \in 0..1
    /\ ahead \in SUBSET (Procs \X Procs)
    /\ pc \in [Procs -> PC]
    /\ op \in [Procs -> Op]
    /\ arg \in [Procs -> Value]
    /\ buf \in [Procs -> Value]
    /\ k \in [Procs -> 0..N]
    /\ ret \in [Procs -> Value]
    /\ settled \in Value

\* __hello_setup_dev.
Init ==
    /\ val = Zero
    /\ sem = 1
    /\ ahead = {}
    /\ pc = [p \in Procs |-> "idle"]
    /\ op = [p \in Procs |-> "read"]
    /\ arg = [p \in Procs |-> Zero]
    /\ buf = [p \in Procs |-> Zero]
    /\ k = [p \in Procs |-> 0]
    /\ ret = [p \in Procs |-> Zero]
    /\ settled = Zero

Goto(p, from, to) == pc[p] = from /\ pc' = [pc EXCEPT ![p] = to]

Waiting == {p \in Procs : pc[p] = "wait"}

-----------------------------------------------------------------------------
(* The semaphore.                                                          *)

\* Wrong on purpose: a down that does not look at the count.
DownNoWait(p) ==
    /\ Goto(p, "down", "crit")
    /\ sem' = 0
    /\ UNCHANGED <<val, ahead, callVars, buf, k, ret, settled>>

\* down_interruptible: take the semaphore, or join the end of the wait list.
down(p) ==
    /\ \/ /\ sem > 0
          /\ Goto(p, "down", "crit")
          /\ sem' = sem - 1
          /\ UNCHANGED ahead
       \/ /\ sem = 0
          /\ Goto(p, "down", "wait")
          /\ ahead' = ahead \cup (Waiting \X {p})
          /\ UNCHANGED sem
    /\ UNCHANGED <<val, callVars, buf, k, ret, settled>>

Without(p) == {e \in ahead : e[1] # p /\ e[2] # p}

\* The call returns: its arguments and its buffer are no longer the driver's.
Forget(p) ==
    /\ op' = [op EXCEPT ![p] = "read"]
    /\ arg' = [arg EXCEPT ![p] = Zero]
    /\ buf' = [buf EXCEPT ![p] = Zero]
    /\ k' = [k EXCEPT ![p] = 0]
    /\ ret' = [ret EXCEPT ![p] = Zero]

\* A signal ends the wait: the call returns -ERESTARTSYS.
Interrupted(p) ==
    /\ Goto(p, "wait", "idle")
    /\ ahead' = Without(p)
    /\ Forget(p)
    /\ UNCHANGED <<val, sem, settled>>

First(q) == q \in Waiting /\ \A p \in Waiting : <<p, q>> \notin ahead

\* Wrong on purpose: up hands the semaphore over and raises the count too.
UpTwice(p) ==
    /\ pc[p] = "up"
    /\ sem' = sem + 1
    /\ \/ /\ Waiting = {}
          /\ pc' = [pc EXCEPT ![p] = "idle"]
          /\ UNCHANGED ahead
       \/ \E q \in Procs :
          /\ First(q)
          /\ pc' = [pc EXCEPT ![p] = "idle", ![q] = "crit"]
          /\ ahead' = Without(q)
    /\ Forget(p)
    /\ UNCHANGED <<val, settled>>

\* up, and the call returns.
up(p) ==
    /\ pc[p] = "up"
    /\ \/ /\ Waiting = {}
          /\ pc' = [pc EXCEPT ![p] = "idle"]
          /\ sem' = sem + 1
          /\ UNCHANGED ahead
       \/ \E q \in Procs :
          /\ First(q)
          /\ pc' = [pc EXCEPT ![p] = "idle", ![q] = "crit"]
          /\ ahead' = Without(q)
          /\ UNCHANGED sem
    /\ Forget(p)
    /\ UNCHANGED <<val, settled>>

-----------------------------------------------------------------------------
(* The calls.                                                              *)

Call(p) ==
    /\ Goto(p, "idle", "down")
    /\ \/ \E o \in {"read", "show"} :
            op' = [op EXCEPT ![p] = o] /\ UNCHANGED arg
       \/ \E o \in {"write", "store"}, v \in Written :
            op' = [op EXCEPT ![p] = o] /\ arg' = [arg EXCEPT ![p] = v]
    /\ UNCHANGED <<val, semVars, buf, k, ret, settled>>

\* Wrong on purpose: the early return forgets the semaphore.
WrongCountLeaks(p) ==
    /\ op[p] \in {"read", "write"}
    /\ Goto(p, "crit", "idle")
    /\ UNCHANGED <<val, semVars, callVars, buf, k, ret, settled>>

\* hello_read and hello_write return 0 when count does not suit sizeof(val):
\* the test is inside the semaphore, so the way out is through up.
WrongCount(p) ==
    /\ op[p] \in {"read", "write"}
    /\ Goto(p, "crit", "up")
    /\ UNCHANGED <<val, semVars, callVars, buf, k, ret, settled>>

StartCopy(p) ==
    /\ op[p] \in {"read", "write"}
    /\ Goto(p, "crit", "copy")
    /\ UNCHANGED <<val, semVars, callVars, buf, k, ret, settled>>

\* copy_to_user(buf, &dev->val, sizeof(dev->val)), and what comes of it.
hello_read(p) ==
    /\ op[p] = "read"
    /\ \/ /\ k[p] < N                                     \* one byte more
          /\ Goto(p, "copy", "copy")
          /\ buf' = [buf EXCEPT ![p] = [@ EXCEPT ![k[p] + 1] = val[k[p] + 1]]]
          /\ k' = [k EXCEPT ![p] = @ + 1]
          /\ UNCHANGED ret
       \/ /\ k[p] < N                                     \* -EFAULT
          /\ Goto(p, "copy", "up")
          /\ UNCHANGED <<buf, k, ret>>
       \/ /\ k[p] = N
          /\ Goto(p, "copy", "up")
          /\ ret' = [ret EXCEPT ![p] = buf[p]]
          /\ UNCHANGED <<buf, k>>
    /\ UNCHANGED <<val, semVars, callVars, settled>>

\* copy_from_user(&(dev->val), buf, count).  When it faults it clears what it
\* could not copy, and hello_write returns -EFAULT with val as it is then.
hello_write(p) ==
    /\ op[p] = "write"
    /\ \/ /\ k[p] < N                                     \* one byte more
          /\ Goto(p, "copy", "copy")
          /\ val' = [val EXCEPT ![k[p] + 1] = arg[p][k[p] + 1]]
          /\ k' = [k EXCEPT ![p] = @ + 1]
          /\ UNCHANGED settled
       \/ /\ k[p] < N                                     \* -EFAULT
          /\ Goto(p, "copy", "up")
          /\ val' = [i \in 1..N |-> IF i <= k[p] THEN val[i] ELSE 0]
          /\ settled' = val'
          /\ UNCHANGED k
       \/ /\ k[p] = N
          /\ Goto(p, "copy", "up")
          /\ settled' = val
          /\ UNCHANGED <<val, k>>
    /\ UNCHANGED <<semVars, callVars, buf, ret>>

\* __hello_get_val loads val as a word; the text is made after up.
hello_val_show(p) ==
    /\ op[p] = "show"
    /\ Goto(p, "crit", "up")
    /\ ret' = [ret EXCEPT ![p] = val]
    /\ UNCHANGED <<val, semVars, callVars, buf, k, settled>>

\* __hello_set_val parses the text before down, and stores a word.
hello_val_store(p) ==
    /\ op[p] = "store"
    /\ Goto(p, "crit", "up")
    /\ val' = arg[p]
    /\ settled' = arg[p]
    /\ UNCHANGED <<semVars, callVars, buf, k, ret>>

-----------------------------------------------------------------------------
InDriver(p) ==
    \/ down(p) \/ up(p)
    \/ WrongCount(p) \/ StartCopy(p)
    \/ hello_read(p) \/ hello_write(p)
    \/ hello_val_show(p) \/ hello_val_store(p)

Next == \E p \in Procs : Call(p) \/ Interrupted(p) \/ InDriver(p)

\* A process inside the driver goes on; calls and signals need not come.
Fairness == \A p \in Procs : WF_vars(InDriver(p))

SafeSpec == Init /\ [][Next]_vars

Spec == SafeSpec /\ Fairness

-----------------------------------------------------------------------------
(* Properties.                                                             *)

InCrit(p) == pc[p] \in {"crit", "copy", "up"}

\* The count of the semaphore is right on every path out of the calls, the
\* faults and wrong counts included: it is 0 exactly while one process is
\* inside, so it is never lost and never lets two in.
SemaphoreHeld ==
    /\ sem = 1 => \A p \in Procs : ~InCrit(p)
    /\ sem = 0 => \E p \in Procs : InCrit(p) /\ \A q \in Procs : InCrit(q) => q = p

\* Reads are whole, and the register holds what a write that was under way
\* asked for, or what is left of it by a fault: each call takes effect at one
\* moment between its start and its return, which is its last step before up.
At(c) == IF c = "idle" THEN "idle" ELSE IF c = "up" THEN "done" ELSE "called"
Calls == [p \in Procs |-> [at |-> At(pc[p]), op |-> op[p], arg |-> arg[p]]]
Reg == INSTANCE Register WITH reg <- settled, call <- Calls
ImplementsRegister == Reg!Spec

\* Every call returns, whatever early exits and signals the others take: each
\* way out of hello_read and hello_write passes the semaphore on.
CallsReturn == \A p \in Procs : pc[p] # "idle" ~> pc[p] = "idle"
=============================================================================
