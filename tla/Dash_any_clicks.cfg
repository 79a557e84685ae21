SPECIFICATION Spec
CONSTANTS
    Service = {nginx}
    TaskKilled = {nginx}
    Forking = {nginx}
    Proc = {p1, p2}
    NoProc = NoProc
    MaxCalls = 2
INVARIANTS
    TypeOK
    HandleWatched
    CleanStopSweeps
PROPERTIES
    ExitObserved
    DownIsShown
