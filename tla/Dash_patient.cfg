SPECIFICATION PatientSpec
CONSTANTS
    Service = {nginx, php}
    TaskKilled = {nginx}
    Forking = {nginx}
    Proc = {p1, p2}
    NoProc = NoProc
    MaxCalls = 2
INVARIANTS
    NoneForgotten
PROPERTIES
    FollowsLifecycle
    TransitionsEnd
    UpIsShown
