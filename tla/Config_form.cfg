SPECIFICATION PatientSpec
CONSTANTS
    Boot = Boot
    DefaultPort = dflt
    NotNumber = NotNumber
    Untouched = Untouched
    Absent = Absent
    Empty = Empty
    Garbled = Garbled
    None = None
    Call = {c1}
    Port = {dflt, other}
    Negative = {}
    Editable = {"nginxPort", "autoStart"}
    CanFail = FALSE
    CanCrash = FALSE
PROPERTIES
    UntouchedKept
