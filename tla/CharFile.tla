------------------------------- MODULE CharFile -------------------------------
(***************************************************************************)
(* The two drivers that keep bytes behind a file position: globalMem and   *)
(* chrdev.  The kernel loads the position of a character device before the *)
(* driver's read or write and stores the moved one after it, under no      *)
(* lock; llseek works on the position itself.  So every call loads, works  *)
(* and stores, and the calls of threads that share a file overlap.         *)
(*                                                                         *)
(* A call that is refused (-ENXIO, -ENOSPC, -EINVAL) changes nothing and   *)
(* has no step.  pread and pwrite bring a position of their own, which the *)
(* kernel does not store.  loff_t and unsigned long are LoffMod values     *)
(* wide (the machine that builds the drivers), int and unsigned int        *)
(* UIntMod.                                                                *)
(***************************************************************************)
EXTENDS Integers, Sequences

CONSTANTS
    Threads,    \* the threads that use the device
    Files,      \* the open files, which threads may share
    SIZE,       \* GLOBALMEM_SIZE, MAX_LENGTH
    Byte,       \* values of a byte, 0 among them
    UIntMod,    \* 2^32
    LoffMod,    \* 2^64
    Counts,     \* the counts asked for
    Offsets,    \* the offsets asked for
    Places      \* the positions given to pread and pwrite

\* What loff_t holds.
Loffs == -(LoffMod \div 2)..(LoffMod \div 2) - 1

\* The kernel refuses a position below zero.
ASSUME SizeAssumption ==
    /\ SIZE \in Nat /\ UIntMod \in Nat /\ LoffMod \in Nat
    /\ 0 < SIZE /\ 2 * SIZE < UIntMod /\ 2 * UIntMod <= LoffMod /\ LoffMod % 2 = 0
    /\ 0 \in Byte
    /\ Counts \subseteq Nat
    /\ Offsets \subseteq Loffs
    /\ Places \subseteq Loffs \cap Nat
    /\ Files # {}

VARIABLES
    device,     \* the driver of this behaviour: "globalmem" or "chardev"
    clear,      \* bytes that the load has cleared
    mem,        \* dev->mem, device_buf
    f_pos,      \* the position of a file
    call,       \* what a thread is at
    asked,      \* history: where the calls that returned put the position
    vague       \* history: files of which that is not sure

vars == <<device, clear, mem, f_pos, call, asked, vague>>

Cells == 0..SIZE - 1
Positions == 0..SIZE

\* globalMem seeks from where it is in three steps: "check", "add" and "seek".
Ops == {"none", "read", "write", "check", "add", "seek"}

\* What a call keeps: whether its position is the file's; the position it loaded
\* (of a seek, the one it found), the count after clamping, the bytes gone through
\* (those after a fault are zeros that copy_from_user fills in), the bytes read; of
\* a seek, what was asked; and whether no other call wrote meanwhile.
Call ==
    [op : Ops, file : Files, own : BOOLEAN, pos : Loffs, count : Nat, done : Nat,
     good : Nat, faulted : BOOLEAN, byte : Byte, got : Seq(Byte), offset : Loffs,
     to : Int, sure : BOOLEAN, alone : BOOLEAN]

Idle ==
    [op |-> "none", file |-> CHOOSE f \in Files : TRUE, own |-> TRUE, pos |-> 0,
     count |-> 0, done |-> 0, good |-> 0, faulted |-> FALSE, byte |-> 0, got |-> <<>>,
     offset |-> 0, to |-> 0, sure |-> TRUE, alone |-> TRUE]

TypeOK ==
    /\ device \in {"globalmem", "chardev"}
    /\ clear \in Positions
    /\ mem \in [Cells -> Byte]
    /\ f_pos \in [Files -> Loffs]
    /\ call \in [Threads -> Call]
    /\ asked \in [Files -> Int]
    /\ vague \in SUBSET Files

\* globalmem clears its memory before cdev_add, chardev after register_chrdev.
Init ==
    /\ device \in {"globalmem", "chardev"}
    /\ clear = IF device = "globalmem" THEN SIZE ELSE 0
    /\ mem = [i \in Cells |-> 0]
    /\ f_pos = [f \in Files |-> 0]
    /\ call = [t \in Threads |-> Idle]
    /\ asked = [f \in Files |-> 0]
    /\ vague = {}

-----------------------------------------------------------------------------
(* The load of chardev, which any call may overtake, and open.             *)

\* Wrong on purpose: <= for <.
ClearByteMore ==
    /\ clear <= SIZE
    /\ mem' = [i \in Cells |-> IF i = clear THEN 0 ELSE mem[i]]
    /\ clear' = clear + 1
    /\ UNCHANGED <<device, f_pos, call, asked, vague>>

ClearByte ==
    /\ clear < SIZE
    /\ mem' = [mem EXCEPT ![clear] = 0]
    /\ clear' = clear + 1
    /\ UNCHANGED <<device, f_pos, call, asked, vague>>

\* The calls that work on the position of f.
Busy(f) == {t \in Threads : call[t].op # "none" /\ call[t].own /\ call[t].file = f}

Open(f) ==
    /\ Busy(f) = {}
    /\ f_pos' = [f_pos EXCEPT ![f] = 0]
    /\ asked' = [asked EXCEPT ![f] = 0]
    /\ vague' = vague \ {f}
    /\ UNCHANGED <<device, clear, mem, call>>

-----------------------------------------------------------------------------
(* The start of a call: the position is loaded.                            *)

Start(t, f, c) ==
    /\ call[t].op = "none"
    /\ call' = [s \in Threads |->
                  IF s = t THEN c
                  ELSE [call[s] EXCEPT !.alone = @ /\ c.op # "write"]]
    /\ vague' = IF c.own /\ Busy(f) # {} THEN vague \cup {f} ELSE vague
    /\ UNCHANGED <<device, clear, mem, f_pos, asked>>

\* Wrong on purpose: the count is checked against the buffer, not what is left of it.
ClampToBuffer(pos, size) == IF size > SIZE THEN SIZE ELSE size

\* chardev's maxbytes: an int.
MaxBytes(pos) == ((SIZE - pos + (UIntMod \div 2)) % UIntMod) - (UIntMod \div 2)

\* globalmem moves nothing from the end on.  chardev compares maxbytes with an unsigned
\* count, so that one below zero is above any.
Clamp(pos, size) ==
    LET left == IF device = "chardev" THEN MaxBytes(pos)
                ELSE IF pos < SIZE THEN SIZE - pos ELSE 0
    IN  IF left \in 0..size THEN left ELSE size

\* globalmem refuses bytes at the end and grants 0; chardev refuses to move none.
Granted(pos, size) ==
    /\ pos >= 0
    /\ IF device = "globalmem" THEN pos < SIZE \/ size = 0 ELSE Clamp(pos, size) > 0

NobodyWrites == clear = SIZE /\ \A s \in Threads : call[s].op # "write"

Transfer(op, f, own, pos, size, b) ==
    [Idle EXCEPT !.op = op, !.file = f, !.own = own, !.pos = pos,
                 !.count = Clamp(pos, size), !.byte = b, !.alone = NobodyWrites]

ReadStart(t, f, size) ==
    /\ Granted(f_pos[f], size)
    /\ Start(t, f, Transfer("read", f, TRUE, f_pos[f], size, 0))

WriteStart(t, f, size, b) ==
    /\ Granted(f_pos[f], size)
    /\ Start(t, f, Transfer("write", f, TRUE, f_pos[f], size, b))

PreadStart(t, f, pos, size) ==
    /\ Granted(pos, size)
    /\ Start(t, f, Transfer("read", f, FALSE, pos, size, 0))

PwriteStart(t, f, pos, size, b) ==
    /\ Granted(pos, size)
    /\ Start(t, f, Transfer("write", f, FALSE, pos, size, b))

-----------------------------------------------------------------------------
(* llseek.                                                                 *)

\* loff_t wraps (the kernel is built with -fno-strict-overflow).
Loff(x) == ((x + (LoffMod \div 2)) % LoffMod) - (LoffMod \div 2)

\* Where the caller means to go.
Meant(f, offset, whence) ==
    CASE whence = "set" -> offset
      [] whence = "cur" -> f_pos[f] + offset
      [] whence = "end" -> SIZE + offset
      [] OTHER -> 0

\* Wrong on purpose: nothing stops a position before the start.
BoundedAbove(x) == IF x > SIZE THEN SIZE ELSE x

Bounded(x) == IF x > SIZE THEN SIZE ELSE IF x < 0 THEN 0 ELSE x

\* The position that llseek stores.
Target(f, offset, whence) ==
    IF device = "chardev" THEN Bounded(Loff(Meant(f, offset, whence)))
    ELSE IF whence = "set" THEN offset % UIntMod
    ELSE Loff(Meant(f, offset, whence))

\* The request can be met: it has a meaning and fits the types that it is held in.
Fits(f, offset, whence) ==
    /\ whence # "other"
    /\ -(LoffMod \div 2) <= Meant(f, offset, whence)
    /\ Meant(f, offset, whence) < (IF device = "globalmem" THEN UIntMod ELSE LoffMod \div 2)

Seek(f, offset, whence) ==
    [Idle EXCEPT !.op = "seek", !.file = f, !.pos = Target(f, offset, whence),
                 !.to = Bounded(Meant(f, offset, whence)),
                 !.sure = Fits(f, offset, whence) /\ Target(f, offset, whence) \in Positions]

\* A seek that loads the position once, or not at all.
SeekStart(t, f, offset, whence) ==
    /\ device = "globalmem" =>
          whence = "set" /\ offset >= 0 /\ Target(f, offset, whence) <= SIZE
    /\ Start(t, f, Seek(f, offset, whence))

Check(f, offset) == [Idle EXCEPT !.op = "check", !.file = f, !.offset = offset]

\* globalMem loads the position three times to seek from it, and looks at the first
\* two sums.
SeekCheck(t, f, offset) ==
    /\ device = "globalmem"
    /\ Target(f, offset, "cur") <= SIZE
    /\ Start(t, f, Check(f, offset))

SeekCheckAgain(t) ==
    LET c == call[t] IN
    /\ c.op = "check"
    /\ call' = [call EXCEPT ![t] = IF Target(c.file, c.offset, "cur") < 0 THEN Idle
                                   ELSE [c EXCEPT !.op = "add"]]
    /\ UNCHANGED <<device, clear, mem, f_pos, asked, vague>>

SeekAdd(t) ==
    LET c == call[t] IN
    /\ c.op = "add"
    /\ call' = [call EXCEPT ![t] = Seek(c.file, c.offset, "cur")]
    /\ UNCHANGED <<device, clear, mem, f_pos, asked, vague>>

-----------------------------------------------------------------------------
(* The copy, a byte at a time, and the fault that may cut it short.  A byte *)
(* outside the buffer is read as any, and what it is written over is not    *)
(* modelled.                                                                *)

Copying(t) == call[t].op \in {"read", "write"} /\ call[t].done < call[t].count

\* Wrong on purpose: no read looks at the position.
SourceStart(c) == c.done

\* chardev reads from the start of the buffer wherever the position is.
Source(c) == IF device = "globalmem" THEN c.pos + c.done ELSE c.done

Sink(c) == c.pos + c.done

ReadByte(t) ==
    LET c == call[t] IN
    /\ Copying(t) /\ c.op = "read" /\ ~c.faulted
    /\ \E b \in IF Source(c) \in Cells THEN {mem[Source(c)]} ELSE Byte :
          call' = [call EXCEPT ![t].got = Append(@, b),
                               ![t].done = @ + 1, ![t].good = @ + 1]
    /\ UNCHANGED <<device, clear, mem, f_pos, asked, vague>>

\* copy_from_user clears what it could not copy.
WriteByte(t) ==
    LET c == call[t] IN
    /\ Copying(t) /\ c.op = "write"
    /\ mem' = [i \in Cells |-> IF i # Sink(c) THEN mem[i]
                               ELSE IF c.faulted THEN 0 ELSE c.byte]
    /\ call' = [call EXCEPT ![t].done = @ + 1,
                            ![t].good = IF c.faulted THEN @ ELSE @ + 1]
    /\ UNCHANGED <<device, clear, f_pos, asked, vague>>

Fault(t) ==
    /\ Copying(t)
    /\ ~call[t].faulted
    /\ call' = [call EXCEPT ![t].faulted = TRUE]
    /\ UNCHANGED <<device, clear, mem, f_pos, asked, vague>>

-----------------------------------------------------------------------------
(* The return: the position is stored.                                     *)

Over(t) ==
    LET c == call[t] IN
    \/ c.op = "seek"
    \/ c.op = "write" /\ c.done = c.count
    \/ c.op = "read" /\ (c.done = c.count \/ c.faulted)

\* Wrong on purpose: the position moves by the whole count though the copy faulted.
MovedAnyway(c) == c.count

\* chardev moves the position by what was copied.
Moved(c) == c.good

\* globalmem's -EFAULT: the kernel stores no position.
Failed(c) == device = "globalmem" /\ c.faulted

Return(t) ==
    LET c == call[t] IN
    /\ Over(t) /\ c.own
    /\ f_pos' = IF Failed(c) THEN f_pos ELSE [f_pos EXCEPT ![c.file] = c.pos + Moved(c)]
    /\ vague' = IF c.op # "seek" THEN vague
                ELSE IF Busy(c.file) = {t} /\ c.sure THEN vague \ {c.file}
                ELSE vague \cup {c.file}
    /\ asked' = [asked EXCEPT ![c.file] = CASE c.file \in vague' -> 0
                                            [] c.op = "seek" -> c.to
                                            [] Failed(c) -> @
                                            [] OTHER -> @ + c.good]
    /\ call' = [call EXCEPT ![t] = Idle]
    /\ UNCHANGED <<device, clear, mem>>

\* pread and pwrite leave the file's position alone.
PReturn(t) ==
    /\ Over(t) /\ ~call[t].own
    /\ call' = [call EXCEPT ![t] = Idle]
    /\ UNCHANGED <<device, clear, mem, f_pos, asked, vague>>

Whences == {"set", "cur", "end", "other"}

Next ==
    \/ ClearByte
    \/ \E f \in Files : Open(f)
    \/ \E t \in Threads, f \in Files :
         \/ \E n \in Counts : ReadStart(t, f, n)
         \/ \E n \in Counts, b \in Byte : WriteStart(t, f, n, b)
         \/ \E p \in Places, n \in Counts : PreadStart(t, f, p, n)
         \/ \E p \in Places, n \in Counts, b \in Byte : PwriteStart(t, f, p, n, b)
         \/ \E o \in Offsets, w \in Whences : SeekStart(t, f, o, w)
         \/ \E o \in Offsets : SeekCheck(t, f, o)
    \/ \E t \in Threads :
         \/ SeekCheckAgain(t) \/ SeekAdd(t)
         \/ ReadByte(t) \/ WriteByte(t) \/ Fault(t)
         \/ Return(t) \/ PReturn(t)

Spec == Init /\ [][Next]_vars

-----------------------------------------------------------------------------
(* Properties.                                                             *)

\* A position stays in the buffer: chardev's in every order of loads and stores
\* (chardev.c:144-149, 97, 122), and globalMem's too but for a file on which calls
\* have overlapped.  There a seek from the position stores a sum that it has not
\* looked at (global_mem.c:148-158), which may lie past either end.
PositionInside ==
    \A f \in Files :
        f_pos[f] \in Positions \/ (device = "globalmem" /\ f \in vague)

\* What a call copies lies inside the buffer: the count that was clamped against
\* a position that has moved since is still the right one (global_mem.c:76-79,
\* chardev.c:81-86), wherever that position has been taken.  The exception is
\* chardev's pread and pwrite past the end: there maxbytes is below zero, or cut
\* to an int, and bounds nothing.
CopyInside ==
    \A t \in Threads :
        LET c == call[t] IN
        Copying(t) =>
            \/ (IF c.op = "read" THEN Source(c) ELSE Sink(c)) \in Cells
            \/ device = "chardev" /\ ~c.own /\ c.pos > SIZE

\* A file is where the last seek and the transfers since have put it, failed ones
\* counted for nothing (globalmem) or for what went through (chardev).  Not so
\* only after calls on the file overlapped, when the store of one undoes the
\* other's, or after a seek to what the types cannot hold: globalmem takes
\* 2^32 + n for n (global_mem.c:139), chardev a sum past 2^63 for the start.
PositionAsAsked == \A f \in Files \ vague : f_pos[f] = asked[f]

\* A call that returns, with no other write and not the clearing of chardev's load
\* during it, was atomic: the bytes written all stand where the position was, the
\* bytes read are those from the position on.  chardev's read is the exception:
\* they come from the start of the buffer (chardev.c:95).  Nothing is said of
\* positions outside the buffer.
Whole ==
    [][\A t \in Threads :
         LET c == call[t]
             returns == Over(t) /\ call' # call /\ call'[t].op = "none"
         IN
         returns /\ c.alone /\ ~Failed(c) /\ c.pos \in Positions =>
             /\ c.op = "write" => \A i \in 0..c.good - 1 : mem[c.pos + i] = c.byte
             /\ c.op = "read" =>
                  \A i \in 0..c.good - 1 :
                      c.got[i + 1] = mem[IF device = "globalmem" THEN c.pos + i ELSE i]]_vars
=============================================================================
