CONSTANTS
    Labels = {"a", "b", "*"}
    Star = "*"
    Types = {"A", "CNAME", "NS"}
    Data = {"d1", "d2"}
    Own = "own"
    None = None
    ZoneInputs <- MCZoneInputs
    RecordInputs <- MCRecordInputs
    ListInputs <- MCListInputs
    Questions <- MCQuestions
    MaxLines = 2
SPECIFICATION Spec
INVARIANTS TypeOK BlockedByLists AnsweredByClosest
\* A process that cannot build its stores ends.
CHECK_DEADLOCK FALSE
