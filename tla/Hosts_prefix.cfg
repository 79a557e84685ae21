SPECIFICATION PatientSpec
CONSTANTS
    Name <- PrefixSites
    Fix = {f1}
    MaxEntries = 2
PROPERTIES
    AllRegisteredIsTrue
