SPECIFICATION Spec
CONSTANTS
    h1 = h1
    h2 = h2
    k1 = k1
    k2 = k2
    k3 = k3
    NullKey = NullKey
    Holders <- MCHolders
    Keys <- MCKeys
    Values = {1, 2}
    Hash <- MCHash
    Capacities = {2}
    MaxNest = 2
    MaxChanges = 5
SYMMETRY MCSymmetry
INVARIANTS
    FindsEntries
    AddFindsSlot
    LockedByLoop
PROPERTIES
    LoopsComplete
    BreaksOnlyMarked
    MapSemantics
CHECK_DEADLOCK FALSE
