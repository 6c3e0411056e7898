CONSTANTS
    a = a
    b = b
    h1 = h1
    h2 = h2
    Names = {a, b}
    Sizes = {1, 2}
    Hosts = {h1, h2}
    Sessions = {s1}
    Capacity = 8
    Absent = Absent
    Catalog <- DisjointCatalog
    Invocations = {{}}
    StartsWith <- ExactPrefixes
    Leaving = {}
    MaxFaults = 0
    MaxCrashes = 1
SPECIFICATION Spec
PROPERTY InterruptedIsContinued
