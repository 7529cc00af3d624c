SPECIFICATION Spec
CONSTANTS
    MaxId = 3
    Ids <- MCIds
    Scopes <- MCScopes
    Tasks <- MCTasks
    MaxSends = 1
    Kinds <- MCKinds
    Filters = {}
    Configs <- MCConfigs
    Limits = {3}
PROPERTY ListMigratesEveryThread
