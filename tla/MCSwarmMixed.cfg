CONSTANTS
    h1 = h1
    h2 = h2
    h3 = h3
    h4 = h4
    a = a
    Hosts = {h1, h2, h3}
    Names = {a}
    Absent = Absent
    Shares <- OneEmptyHost
    Leaving = {}
    MaxFaults = 0
    MaxRestarts = 1
SPECIFICATION Spec
INVARIANT CopiesAreWhole
