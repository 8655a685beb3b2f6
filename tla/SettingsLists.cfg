SPECIFICATION Spec
CONSTANTS
    l1 = l1
    l2 = l2
    o1 = o1
    o2 = o2
    t1 = t1
    t2 = t2
    s1 = s1
    s2 = s2
    ticker = ticker
    manual = manual
    First <- MCFirst
    Lists = {l1, l2}
    Options = {o1}
    Startups = {t1}
    Savers = {s1}
    Reloaders = {ticker}
    Ticker = ticker
    MaxRevision = 3
    MaxContents = 0
    None = none
INVARIANTS LiveLists
