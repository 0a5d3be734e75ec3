\* Three processes, a holder of the semaphore and two in line, and a register
\* of two bytes, so that a read could be torn.
CONSTANTS
    p1 = p1
    p2 = p2
    p3 = p3
    Procs = {p1, p2, p3}
    N = 2
    Byte = {0, 1, 2}
    Written <- MCWritten
SPECIFICATION Spec
INVARIANTS
    TypeOK
    SemaphoreHeld
PROPERTIES
    ImplementsRegister
    CallsReturn
