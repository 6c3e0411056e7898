CONSTANTS
    Processes = {p1, p2}
    Invocations <- EveryPath
    Ports = {8000}
    Absent = Absent
    Torn = Torn
    MaxStarts = 2
    MaxCrashes = 1
SPECIFICATION Spec
INVARIANT TypeOK
INVARIANT OneIdentity
INVARIANT NothingOutlivesMain
PROPERTY KeyKept
PROPERTY EndsAfterWait
\* A process may hang (EndsAfterReturn) or be started no more.
CHECK_DEADLOCK FALSE
