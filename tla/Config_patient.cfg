SPECIFICATION PatientSpec
CONSTANTS
    Boot = Boot
    DefaultPort = dflt
    NotNumber = NotNumber
    Untouched = Untouched
    Absent = Absent
    Empty = Empty
    Garbled = Garbled
    None = None
    Call = {c1}
    Port = {dflt, other, minus}
    Negative = {minus}
    Editable = {"phpPort", "autoStart"}
    CanFail = TRUE
    CanCrash = TRUE
INVARIANTS
    TypeOK
    StoresAgree
    Durable
PROPERTIES
    SavedReaches
    ImplementsStore
    SavesEnd
    CallsEnd
