SPECIFICATION Spec
CONSTANTS
    Service = {php}
    TaskKilled = {}
    Forking = {}
    Proc = {p1, p2}
    NoProc = NoProc
    MaxCalls = 1
INVARIANTS
    NoneForgotten
