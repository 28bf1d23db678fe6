SPECIFICATION Spec
CONSTANTS
    Files <- MCFiles
    Cert <- MCCert
    Paths <- MCPaths
    Times = {1, 2}
    MaxEntries = 3
    KeysInit = 1
    Null = Null
    Garbage = Garbage
    Fresh = {Null, Garbage}
    Failing = {"setup", "opendir", "open", "mmap", "pkey", "md_ctx", "digest"}
INVARIANTS
    TypeOK
    KeysWhole
    AllLoaded
    Released
CHECK_DEADLOCK FALSE
