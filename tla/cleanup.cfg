\* Two operators, two samples in different contexts; the eval may die anywhere.
SPECIFICATION FaultFairSpec
CONSTANTS
    Samples = {s1, s2}
    Tasks = {t1}
    MaxInstall = 1
    MaxUninstall = 1
    MaxInstallAttempts = 1
    Capacity = 1
    MaxCancels = 0
    Cleanup = TRUE
    Cleaners = {c1, c2}
    ListsPending = TRUE
    OtherContext = {s2}
INVARIANTS
    CompleteMeansGone
    InstructionsSuffice
    RecordKept
PROPERTY CrashRecovered
