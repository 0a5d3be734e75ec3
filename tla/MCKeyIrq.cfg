\* 13_irq: edges enough for a press, a release and a bounce of each.
CONSTANTS
    Debounce = 2
    MaxEdges = 4
SPECIFICATION Spec
INVARIANTS
    TypeOK
    EdgeNotForgotten
    SampleSettled
PROPERTIES
    ImplementsMailbox
    LevelAgreement
