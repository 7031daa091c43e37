CONSTANTS
    id1 = id1
    Id <- id1
    MaxSimChanges = 2
    MaxIfaceChanges = 1
    MaxPushes = 1
    StartupRace = FALSE
    Ctxs <- MCCtxs
    Working <- MCWorking
SPECIFICATION Spec
INVARIANTS NoNilDereference
