SPECIFICATION Spec
CONSTANTS
    CanFail = TRUE
    UnsignedRange = 256
    Memory = 100
    ArgumentBytes = {0, 1, 5}
    MaxQueue = 2
INVARIANTS
    TypeOK
    WindowOwned
    ReadyInLoop
    CleanExit
    KeptAlive
    RequestsHold
    NeverStranded
PROPERTIES
    CanComeBack
    ExitEnds
    NoGhost
CHECK_DEADLOCK FALSE
