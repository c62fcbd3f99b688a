CONSTANTS
    p1 = p1
    p2 = p2
    short = short
    long1 = long1
    long2 = long2
    long3 = long3
    NoOne = NoOne
    NoModule = NoModule
    Procs = {p1, p2}
    Templates = {short, long1, long2, long3}
    Long = {long1, long2, long3}
    Hash <- MCHash
    Versions = {1, 2}
    MaxAge = 1
    Capacity = 2
    MaxTime = 1
    MaxFaults = 1
SPECIFICATION Spec
INVARIANT
    RunsOwnModule
PROPERTY
    TransactionsEnd
\* Once a gc has thrown with its transaction open, every process may come to wait for it.
CHECK_DEADLOCK FALSE
