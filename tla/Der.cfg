SPECIFICATION Spec
CONSTANTS
    Base = 16
    MaxOctets = 2
    Word = 256
    Size = 24
    Raws <- MCRaws
    Starts = {0, 1}
INVARIANTS
    TypeOK
    ContentInParent
    ReadsInParent
PROPERTIES
    ImplementsElement
    Returns
CHECK_DEADLOCK FALSE
