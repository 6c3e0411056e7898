CONSTANTS
    a = a
    b = b
    h1 = h1
    h2 = h2
    Names = {a, b}
    Sizes = {1, 2}
    Hosts = {h1, h2}
    Sessions = {s1, s2}
    Capacity = 4
    Absent = Absent
    Catalog <- DisjointCatalog
    Invocations = {{}, {a, b}}
    StartsWith <- ExactPrefixes
    Leaving = {h2}
    MaxFaults = 1
    MaxCrashes = 0
SPECIFICATION EmptySpec
INVARIANT PromiseMeansStored
PROPERTY OfferedIsRetrieved
PROPERTY GetReturns
