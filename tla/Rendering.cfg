CONSTANTS
    a = a
    b = b
    c = c
    p = p
    q = q
    Templates = {a, b, c}
    SizeOf <- MCSizeOf
    Limits <- MCLimits
    Names = {p, q}
    Rewritten <- MCRewritten
    MaxTime = 2
    MaxDepth = 3
SYMMETRY Symmetry
SPECIFICATION Spec
INVARIANTS
    StatsAgree
    TemplatesKeepMap
    LimitsKept
PROPERTY
    RecentlyUsedStay
