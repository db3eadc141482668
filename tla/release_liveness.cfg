\* Capacity for one release: installs wait for the uninstalls of others.
SPECIFICATION FairSpec
CONSTANTS
    Samples = {s1, s2}
    Tasks = {t1}
    MaxInstall = 1
    MaxUninstall = 1
    MaxInstallAttempts = 2
    Capacity = 1
    MaxCancels = 1
    Cleanup = TRUE
PROPERTIES
    UninstallNotStarved
    EventuallySettled
