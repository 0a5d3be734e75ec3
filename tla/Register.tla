------------------------------- MODULE Register -------------------------------
(***************************************************************************)
(* What helloDev/hello.c promises: one register val of N bytes that        *)
(* processes read and write as a whole.  A call takes effect at one moment *)
(* between its invocation and its return: a read returns what the register *)
(* holds then, never part of one value and part of another, and a write    *)
(* leaves there the value that it was called with.  A write whose buffer   *)
(* faults is the exception that the driver makes: it leaves a prefix of    *)
(* its value followed by zeros, and nothing else may.  A call may also     *)
(* return without any effect, on a signal, a wrong count, or a fault of a  *)
(* read.                                                                   *)
(***************************************************************************)
EXTENDS Naturals

CONSTANTS
    Procs,
    N,          \* sizeof(val)
    Byte        \* values of a byte; 0 is one of them

Value == [1..N -> Byte]

VARIABLES
    reg,        \* the value of the register
    ret,        \* what a read that is about to return has found
    call        \* the call of each process, and whether it has had its moment

vars == <<reg, ret, call>>

Zero == [i \in 1..N |-> 0]

Idle == [at |-> "idle", op |-> "read", arg |-> Zero]

\* The first k bytes of v, and zeros.
Residue(v, k) == [i \in 1..N |-> IF i <= k THEN v[i] ELSE 0]

Init ==
    /\ reg = Zero
    /\ ret = [p \in Procs |-> Zero]
    /\ call = [p \in Procs |-> Idle]

Call(p) ==
    /\ call[p] = Idle
    /\ \/ \E o \in {"read", "show"} :
            call' = [call EXCEPT ![p] = [at |-> "called", op |-> o, arg |-> Zero]]
       \/ \E o \in {"write", "store"}, v \in Value :
            call' = [call EXCEPT ![p] = [at |-> "called", op |-> o, arg |-> v]]
    /\ UNCHANGED <<reg, ret>>

\* The moment of a call by one of the operations ops.
Moment(p, ops) ==
    /\ call[p].at = "called"
    /\ call[p].op \in ops
    /\ call' = [call EXCEPT ![p] = [@ EXCEPT !.at = "done"]]

Read(p) ==
    /\ Moment(p, {"read", "show"})
    /\ ret' = [ret EXCEPT ![p] = reg]
    /\ UNCHANGED reg

Write(p) ==
    /\ Moment(p, {"write", "store"})
    /\ reg' = call[p].arg
    /\ UNCHANGED ret

FailedWrite(p) ==
    /\ Moment(p, {"write"})
    /\ \E k \in 0..N - 1 : reg' = Residue(call[p].arg, k)
    /\ UNCHANGED ret

\* A wrong count, or a read that faults.
Refuse(p) ==
    /\ Moment(p, {"read", "write"})
    /\ UNCHANGED <<reg, ret>>

\* A call that has had no moment returns because of a signal.
Return(p) ==
    /\ call[p].at # "idle"
    /\ call' = [call EXCEPT ![p] = Idle]
    /\ ret' = [ret EXCEPT ![p] = Zero]
    /\ UNCHANGED reg

Next ==
    \E p \in Procs :
        \/ Call(p) \/ Return(p)
        \/ Read(p) \/ Write(p) \/ FailedWrite(p) \/ Refuse(p)

Spec == Init /\ [][Next]_vars
=============================================================================
