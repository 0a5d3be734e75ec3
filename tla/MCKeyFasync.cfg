\* 16_fasync: liveness of one process with everything the driver offers.
CONSTANTS
    Debounce = 1
    MaxEdges = 2
    f1 = f1
    Files = {f1}
    Variant = "fasync"
SPECIFICATION Spec
PROPERTIES
    ImplementsKeyIrq
    SigioSent
