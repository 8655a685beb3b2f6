SPECIFICATION Spec
CONSTANTS
    a1 = a1
    a2 = a2
    t1 = t1
    t2 = t2
    t3 = t3
    w1 = w1
    w2 = w2
    Workers = {w1, w2}
    People = {a1, a2}
    Tokens = {t1, t2, t3}
    MaxHashes = 3
    None = none
SYMMETRY Symmetry
INVARIANTS TypeOK SessionsCurrent AdminRemains ServedWithAdmin DeletedStayOut
PROPERTIES ForcedChangeStands RefinesStanding
