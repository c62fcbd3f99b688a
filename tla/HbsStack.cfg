SPECIFICATION Spec
CONSTANTS
    h1 = h1
    h2 = h2
    h3 = h3
    o1 = o1
    o2 = o2
    o3 = o3
    o4 = o4
    a = a
    b = b
    Null = Null
    Handles <- MCHandles
    Objs <- MCObjs
    Elems <- MCElems
    RcMax = 3
    Capacities <- MCCapacities
    MaxLen = 2
SYMMETRY MCSymmetry
INVARIANTS
    MemorySafe
    CountsExact
PROPERTIES
    ValueSemantics
