SPECIFICATION Spec
CONSTANTS
    Setups = {p1, p2}
    Lists <- MCSaverLists
    Callers <- MCAllCall
INVARIANT FinishedSchema
