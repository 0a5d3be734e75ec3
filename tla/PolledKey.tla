------------------------------ MODULE PolledKey ------------------------------
(***************************************************************************)
(* The users of 11_key/key.c, together with the loads and removals of      *)
(* DriverModule.  Its open requests the GPIO and its release gives it      *)
(* back, so that there is one file at a time; threads may share it.  A     *)
(* read that finds the key down spins until it is let go.  What a read has *)
(* found goes through the driver's one keyvalue: an atomic variable, which *)
(* it sets and then reads.                                                 *)
(***************************************************************************)
EXTENDS DriverModule

CONSTANT
    Readers     \* the threads that share the file

VARIABLES
    line,       \* the key's pin, which is low while the key is down
    gpio,       \* the GPIO is requested
    keyvalue,   \* keydev.keyvalue
    read        \* how far the read of a thread is

keyvars == <<line, gpio, keyvalue, read>>

KEY0_VALUE == "key0"
INVALKEY   == "none"

Values == {KEY0_VALUE, INVALKEY}

\* seen is a history: what the reads have found that stored it during this one.
NoRead == [at |-> "idle", value |-> INVALKEY, seen |-> {}]

Reading(r) == read[r].at \in {"look", "spin", "take"}

\* There is one file at a time, and it owns the GPIO.
KeyTypeOK ==
    /\ line \in {"low", "high"}
    /\ gpio = (name = "key" /\ files > 0)
    /\ name = "key" => files <= 1
    /\ keyvalue \in Values
    /\ read \in [Readers -> [at : {"idle", "look", "spin", "take", "done"},
                             value : Values, seen : SUBSET Values]]

\* (The key may be pressed before anything else happens.)
InitKey ==
    /\ Init
    /\ line = "high"
    /\ gpio = FALSE
    /\ keyvalue = INVALKEY
    /\ read = [r \in Readers |-> NoRead]

-----------------------------------------------------------------------------
(* The life of the driver, whose files come and go.                        *)

\* Wrong on purpose: an open goes on when the GPIO is taken.
OpensAnyway == gpio' = TRUE

\* gpiokey_parse fails, and the open with it, when the GPIO is taken.
KeyOpens == ~gpio /\ gpio' = TRUE

\* A file that is being read is not released.
KeyCloses == (\A r \in Readers : ~Reading(r)) /\ gpio' = FALSE

KeyFollows ==
    /\ \/ name = "key" /\ files' > files /\ KeyOpens
       \/ name = "key" /\ files' < files /\ KeyCloses
       \/ (name = "key" => files' = files) /\ UNCHANGED gpio
    /\ UNCHANGED <<line, keyvalue, read>>

PressOrLetGo ==
    /\ name = "key"
    /\ line' = IF line = "low" THEN "high" ELSE "low"
    /\ UNCHANGED <<vars, gpio, keyvalue, read>>

-----------------------------------------------------------------------------
(* key_read.                                                               *)

KeyRead(r) ==
    /\ read[r].at = "idle"
    /\ name = "key" /\ files > 0
    /\ read' = [read EXCEPT ![r].at = "look"]
    /\ UNCHANGED <<vars, line, gpio, keyvalue>>

\* Wrong on purpose: only a key that was pressed is stored, and the one of an
\* earlier read stays.
StoredIfPressed(v) == IF v = KEY0_VALUE THEN v ELSE keyvalue

Stored(v) == v

\* r has found v; every read that is under way can now return it.
Store(r, v) ==
    /\ keyvalue' = Stored(v)
    /\ read' = [s \in Readers |->
                   IF s = r THEN [read[r] EXCEPT !.at = "take", !.seen = @ \cup {v}]
                   ELSE IF Reading(s) THEN [read[s] EXCEPT !.seen = @ \cup {v}]
                   ELSE read[s]]
    /\ UNCHANGED <<vars, line, gpio>>

FindsUp(r) ==
    /\ read[r].at = "look" /\ line = "high"
    /\ Store(r, INVALKEY)

FindsDown(r) ==
    /\ read[r].at = "look" /\ line = "low"
    /\ read' = [read EXCEPT ![r].at = "spin"]
    /\ UNCHANGED <<vars, line, gpio, keyvalue>>

FindsLetGo(r) ==
    /\ read[r].at = "spin" /\ line = "high"
    /\ Store(r, KEY0_VALUE)

Take(r) ==
    /\ read[r].at = "take"
    /\ read' = [read EXCEPT ![r].at = "done", ![r].value = keyvalue]
    /\ UNCHANGED <<vars, line, gpio, keyvalue>>

\* With a value, or without one when it could not be copied.
KeyReturn(r) ==
    /\ read[r].at = "done"
    /\ read' = [read EXCEPT ![r] = NoRead]
    /\ UNCHANGED <<vars, line, gpio, keyvalue>>

KeyStep ==
    \/ PressOrLetGo
    \/ \E r \in Readers :
          KeyRead(r) \/ FindsUp(r) \/ FindsDown(r) \/ FindsLetGo(r) \/ Take(r) \/ KeyReturn(r)

-----------------------------------------------------------------------------
(* Properties.                                                             *)

\* A read returns what it has found itself, or what a read that overlaps it has:
\* never what an earlier one left in keyvalue (key.c:110-117).
KeyAnswers == \A r \in Readers : read[r].at = "done" => read[r].value \in read[r].seen
=============================================================================
