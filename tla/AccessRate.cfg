SPECIFICATION Spec
CONSTANTS
    g1 = g1
    g2 = g2
    g3 = g3
    c1 = c1
    c2 = c2
    c3 = c3
    Goroutines = {g1,g2,g3}
    Clients = {c1,c2,c3}
    Burst = 2
    MaxInFlight = 2
    MaxClients = 2
    Stale = 1
    MaxTime = 3
    MaxAgain = 2
    None = none
SYMMETRY Symmetry
INVARIANTS TypeOK RateBound ResourcesBounded
PROPERTIES PatientServed
