CONSTANTS
    sharer = sharer
    syncer = syncer
    getter = getter
    Hosts = {sharer, syncer, getter}
    Files = {f}
    Absent = Absent
    Sharing = {sharer, syncer}
    Fetching = {syncer, getter}
    Trusts <- OneSided
    Slots = {i1, i2}
    MaxErrors = 1
    MaxFaults = 1
    MaxEdits = 1
SPECIFICATION SomeSpec
INVARIANT TypeOK
INVARIANT OnlyTrusted
INVARIANT OffersWereShared
INVARIANT OwnSourceWasRemoved
PROPERTY ImplementsOffers
PROPERTY Announced
