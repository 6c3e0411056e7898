CONSTANTS
    a = a
    b = b
    h1 = h1
    h2 = h2
    Names = {a, b}
    Sizes = {1, 2}
    Hosts = {h1, h2}
    Sessions = {s1}
    Capacity = 8
    Absent = Absent
    Catalog <- OverlappingCatalog
    Invocations = {{}}
    StartsWith <- ExactPrefixes
    Leaving = {h2}
    MaxFaults = 0
    MaxCrashes = 0
SPECIFICATION Spec
PROPERTY SharedIsRetrieved
