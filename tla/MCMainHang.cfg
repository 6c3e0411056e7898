CONSTANTS
    Processes = {p1}
    Invocations <- Mistyped
    Ports = {8000}
    Absent = Absent
    Torn = Torn
    MaxStarts = 2
    MaxCrashes = 0
SPECIFICATION Spec
PROPERTY EndsAfterReturn
\* A process that hangs does nothing any more.
CHECK_DEADLOCK FALSE
