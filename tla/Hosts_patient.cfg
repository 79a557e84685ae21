SPECIFICATION PatientSpec
CONSTANTS
    Name <- PrefixSites
    Fix = {f1}
    MaxEntries = 2
INVARIANTS
    TypeOK
PROPERTIES
    NoDuplicates
    Noticed
    ImplementsRegistration
