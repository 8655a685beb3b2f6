SPECIFICATION Spec
CONSTANTS
    n1 = n1
    u1 = u1
    u2 = u2
    g1 = g1
    g2 = g2
    g3 = g3
    Goroutines = {g1, g2}
    Names = {n1}
    Upstreams = {u1, u2}
    Settings <- MCSettings
    Wishes = {FALSE, TRUE}
    MaxStates = 2
    MaxTurns = 2
    None = none
SYMMETRY Symmetry
INVARIANTS TypeOK CachesApart NoNeedlessExchange FailsAfterAll AnswersOfTheirTime NobodyAbandoned
PROPERTIES RefinesAnswers
