SPECIFICATION FairSpec
CONSTANTS
    Setups = {p1, p2}
    Lists <- MCAllLists
    Callers <- MCCallers
INVARIANTS TypeOK SchemaOneAhead RaisesOnlyWhenCutShort FinishedSchema FinishedRecorded RecordsContiguous
PROPERTY EventuallySetUp
