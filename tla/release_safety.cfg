\* One cancellation per sample; two task_cleanup() calls share the manager.
SPECIFICATION Spec
CONSTANTS
    Samples = {s1, s2}
    Tasks = {t1, t2}
    MaxInstall = 1
    MaxUninstall = 1
    MaxInstallAttempts = 3
    Capacity = 1
    MaxCancels = 1
    Cleanup = TRUE
SYMMETRY Symmetry
INVARIANTS
    TypeOK
    NoSilentLeak
    LeftoverTakenOver
    RemoveFindsRelease
    InstallDeadBeforeUninstall
    HelmInstallsBounded
    BatchesDisjoint
PROPERTIES
    NoResurrection
    KeepsCustody
