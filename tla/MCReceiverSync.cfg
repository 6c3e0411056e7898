CONSTANTS
    a = a
    b = b
    h1 = h1
    h2 = h2
    Names = {a, b}
    Sizes = {1, 2}
    Hosts = {h1, h2}
    Sessions = {s1, s2}
    Capacity = 3
    Absent = Absent
    Catalog <- OverlappingCatalog
    Invocations = {{}}
    StartsWith <- ExactPrefixes
    Leaving = {h2}
    MaxFaults = 1
    MaxCrashes = 1
SPECIFICATION Spec
SYMMETRY Symmetry
INVARIANT TypeOK
INVARIANT QueueHasNoDuplicates
INVARIANT LocksHaveSessions
PROPERTY ImplementsFileHandler
PROPERTY OnlyWholeFilesAppear
PROPERTY AllReceivedIsStuck
