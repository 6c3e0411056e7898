CONSTANTS
    h1 = h1
    h2 = h2
    h3 = h3
    h4 = h4
    a = a
    Hosts = {h1, h2, h3, h4}
    Names = {a}
    Absent = Absent
    Shares <- TwoVersions
    Leaving = {h1}
    MaxFaults = 1
    MaxRestarts = 1
SPECIFICATION Spec
INVARIANT TypeOK
INVARIANT CopiesAreWholeWithin
INVARIANT NothingInvented
PROPERTY ImplementsReplication
PROPERTY Spreads
