\* 14_blockio: a read that waits comes back with no key.
CONSTANTS
    Debounce = 1
    MaxEdges = 2
    f1 = f1
    f2 = f2
    Files = {f1, f2}
    Variant = "blockio"
SPECIFICATION SafeSpec
PROPERTIES
    BlockingReadReturnsKey
