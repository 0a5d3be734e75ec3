\* 15_noblockio: two processes that read, with and without waiting, and poll.
CONSTANTS
    Debounce = 1
    MaxEdges = 2
    f1 = f1
    f2 = f2
    Files = {f1, f2}
    Variant = "noblockio"
SPECIFICATION Spec
INVARIANTS
    TypeOK
    NoLostWakeup
PROPERTIES
    SleeperWoken
