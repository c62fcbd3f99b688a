SPECIFICATION Spec
CONSTANTS
    k1 = k1
    k2 = k2
    k3 = k3
    p1 = p1
    p2 = p2
    Null = Null
    Procs <- MCProcs2
    Keys <- MCKeys3
    Slots <- MCSlots
    Slot <- MCSlot3
    KeySize <- MCUnits
    ModSize <- MCModSize3
    DataSize = 7
    MaxAgeOn = TRUE
    Wrap = 8
    RefFloor <- MCRefFloor
SYMMETRY MCSymmetry
INVARIANTS
    PublishedIntact
    UndisturbedReads
