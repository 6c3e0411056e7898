CONSTANTS
    sharer = sharer
    syncer = syncer
    getter = getter
    Hosts = {sharer, getter}
    Files = {f}
    Absent = Absent
    Sharing = {sharer}
    Fetching = {getter}
    Trusts <- Everyone
    Slots = {i1}
    MaxErrors = 1
    MaxFaults = 1
    MaxEdits = 0
SPECIFICATION Spec
PROPERTY AnnouncedAgain
\* Hosts whose chains have ended do nothing any more.
CHECK_DEADLOCK FALSE
