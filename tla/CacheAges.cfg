CONSTANTS
    w1 = w1
    w2 = w2
    k1 = k1
    k2 = k2
    k3 = k3
    None = None
    Workers = {w1, w2}
    Keys = {k1, k2, k3}
    Hash <- MCHash
    Messages <- MCMessages
    Capacities = {0, 1, 3}
    ShardCount = 2
    MinTTL = 1
    MaxTTL = 2
    TicksPerSecond = 2
    Width = 65536
    MaxTime = 4
SPECIFICATION Spec
INVARIANTS TypeOK CapacityHeld
PROPERTIES RefinesKept
SYMMETRY Symmetry
