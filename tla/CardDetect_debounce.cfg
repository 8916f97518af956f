SPECIFICATION FairCardSpec
CONSTANTS
    PresentOK = 3
    NotPresentOK = 2
    KeyCodes = {k1}
    NoKey = NoKey
    MmcIn = MmcIn
PROPERTIES InsertionValidated FlagSettles ThreadSettles
