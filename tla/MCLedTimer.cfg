\* 12_timer: two processes, periods of every kind.
CONSTANTS
    p1 = p1
    p2 = p2
    Procs = {p1, p2}
    NoProc = NoProc
    DefaultPeriod = 1
    Periods <- MCPeriods
SPECIFICATION Spec
INVARIANTS
    TypeOK
    OneOwner
    StoppedIsQuiet
PROPERTIES
    Blinks
    CallsReturn
