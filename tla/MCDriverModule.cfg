\* Every driver, each call that may fail failing; and the users
\* of the two sensors and of the polled key.
CONSTANTS
    Drivers <- MCDrivers
    MaxFiles = 2
    Readers = {r1, r2}
    Measures <- MCMeasures
SPECIFICATION SpecAll
INVARIANTS
    NothingLeft
    ReleasedOnce
    EntryReady
    HandlersReady
    QuietUnlessLate
    UsersTypeOK
    AnswersTrue
    KeyAnswers
    InputTold
CHECK_DEADLOCK FALSE
