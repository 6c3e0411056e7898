\* Two names, files of one or two chunks, two concurrent sessions, one peer,
\* and a device on which two files of two chunks do not fit.
CONSTANTS
    Names = {a, b}
    Sizes = {1, 2}
    Hosts = {h}
    Sessions = {s1, s2}
    Capacity = 3
    Absent = Absent
SPECIFICATION Spec
SYMMETRY Symmetry
INVARIANT TypeOK
INVARIANT OneWriter
INVARIANT LocksAreStreams
INVARIANT StoredMatchesDisk
PROPERTY NoOverwrite
PROPERTY PartialKept
 
