CONSTANTS
    Size = 3
    Absent = Absent
    Unset = Unset
    MaxFaults = 2
    MaxCrashes = 1
    MaxEdits = 2
SPECIFICATION Spec
INVARIANT TypeOK
INVARIANT CountersInStep
INVARIANT NothingLeftBehind
INVARIANT NobodyWaitsForNothing
INVARIANT SameIV
INVARIANT CopyCorrect
PROPERTY ImplementsFileCopy
PROPERTY Copied
CHECK_DEADLOCK FALSE
