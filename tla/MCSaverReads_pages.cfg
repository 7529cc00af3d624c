SPECIFICATION Spec
CONSTANTS
    MaxId = 3
    Ids <- MCIds
    Scopes <- MCScopes
    Tasks <- MCTasks
    MaxSends = 2
    Kinds <- MCKinds
    Filters = {"loop"}
    Configs <- MCConfigs
    Limits = {2}
INVARIANTS TypeOK PagesComplete TasksHandedOver
PROPERTIES ListAgreesWithGetTuple
