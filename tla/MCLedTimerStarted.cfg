\* 12_timer: the close of one process against the start of the next.
CONSTANTS
    p1 = p1
    p2 = p2
    Procs = {p1, p2}
    NoProc = NoProc
    DefaultPeriod = 1
    Periods <- MCPeriods
SPECIFICATION SafeSpec
INVARIANTS
    StartedRuns
