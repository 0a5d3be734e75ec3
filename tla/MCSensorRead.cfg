\* 22_spi: a read that fails and does not say so.
CONSTANTS
    Drivers = {"icm20608"}
    MaxFiles = 1
    Readers = {r1}
    Measures <- MCMeasures
SPECIFICATION SpecAll
INVARIANTS
    FailedReadIsNegative
CHECK_DEADLOCK FALSE
