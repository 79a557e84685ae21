SPECIFICATION LoadedSpec
CONSTANTS
    Boot = Boot
    DefaultPort = dflt
    NotNumber = NotNumber
    Untouched = Untouched
    Absent = Absent
    Empty = Empty
    Garbled = Garbled
    None = None
    Call = {c1, c2}
    Port = {dflt}
    Negative = {}
    Editable = {}
    CanFail = FALSE
    CanCrash = FALSE
INVARIANTS
    ConfKept
