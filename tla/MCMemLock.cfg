CONSTANTS
    g1 = g1
    g2 = g2
    u1 = u1
    Guards <- MCGuards
    Users <- MCUsers
    Keys = {1, 2, 3}
    KeyLists <- MCKeyLists
    Nobody = nobody
SPECIFICATION FairSpec
INVARIANTS
    TypeOK
    LockedGuardHoldsItsKeys
    NothingIsLeaked
    ConflictIsForeign
PROPERTIES
    TryNeverBlocks
    ImplementsKeyLocks
