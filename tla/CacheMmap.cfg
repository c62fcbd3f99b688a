SPECIFICATION FairSpec
CONSTANTS
    k1 = k1
    k2 = k2
    k3 = k3
    p1 = p1
    p2 = p2
    Null = Null
    Procs <- MCProcs2
    Keys <- MCKeys2
    Slots <- MCSlots
    Slot <- MCSlot2
    KeySize <- MCUnits
    ModSize <- MCModSize2
    DataSize = 5
    MaxAgeOn = FALSE
    Wrap = 8
    RefFloor <- MCRefFloor
INVARIANTS
    TypeOK
    LockDiscipline
    RefcountExact
PROPERTIES
    ResetEnds
