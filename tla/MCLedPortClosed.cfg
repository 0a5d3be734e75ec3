SPECIFICATION Spec
CONSTANTS
    Drivers <- MCAllDrivers
    Words <- MCWords
    None = None
    MaxFiles = 1
INVARIANT LoadClosesLed
