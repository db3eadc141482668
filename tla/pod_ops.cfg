\* Two operations on one or two threads; three task_init() calls.
SPECIFICATION FairSpec
CONSTANTS
    t1 = t1
    t2 = t2
    t3 = t3
    Tasks = {t1, t2, t3}
    MaxPodOps <- Settings
    DefaultOps = 1
    Ops = {o1, o2}
    MaxAttempts = 2
INVARIANTS
    SettingHonoured
    AdmittedWaitsOnlyForAbandoned
    AttemptsInTurn
    ResultIsLast
PROPERTIES
    OpsEnd
