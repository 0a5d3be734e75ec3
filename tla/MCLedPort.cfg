SPECIFICATION Spec
CONSTANTS
    Drivers <- MCDrivers
    Words <- MCWords
    None = None
    MaxFiles = 1
INVARIANTS PortAsAsked PinReady
