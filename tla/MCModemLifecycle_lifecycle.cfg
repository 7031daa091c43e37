CONSTANTS
    id1 = id1
    Id <- id1
    MaxSimChanges = 4
    MaxIfaceChanges = 1
    MaxPushes = 2
    StartupRace = FALSE
    Ctxs <- MCCtxs
    Working <- MCWorking
SPECIFICATION Spec
INVARIANTS ActivationFindsWorkingContext ProxyCoordinatesDocumented
 
