CONSTANTS
    id1 = id1
    Id <- id1
    MaxSimChanges = 1
    MaxIfaceChanges = 1
    MaxPushes = 0
    StartupRace = TRUE
    Ctxs <- MCCtxs
    Working <- MCWorking
SPECIFICATION Spec
INVARIANTS RegistrationsMatchModem
