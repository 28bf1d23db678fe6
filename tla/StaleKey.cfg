SPECIFICATION Spec
CONSTANTS
    Files <- MCFiles
    Cert <- MCCert
    Paths <- MCPaths
    Times = {1}
    MaxEntries = 2
    KeysInit = 4
    Null = Null
    Garbage = Garbage
    Fresh = {Null}
    Failing = {}
INVARIANTS
    NewKeyObject
CHECK_DEADLOCK FALSE
