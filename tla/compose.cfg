SPECIFICATION Spec
CONSTANTS
  Files <- MCFiles
  Load <- MCLoad
  K8sName <- MCNames
  Features = {"image", "badEnv", "health", "slowHealth", "odd", "noTest", "limits",
    "reserve", "pids", "replicas", "emptyResources", "nullDeploy", "mem", "memTera",
    "cpus", "user", "badUser", "seccomp", "noOptions", "apparmor", "none", "host", "networks",
    "hostname", "marked", "ext", "extMem", "extOdd", "extFlat", "extText", "extTwice", "ports"}
  Others = {"limits", "mem", "health", "marked", "ext"}
  TopFeatures = {"none", "volumes", "settings", "networks", "overlay", "nullDriver", "ext", "badExt",
    "listExt", "twice", "secrets"}
  AliasKeys = {"deploy"}
  Orders <- MCOrders
INVARIANTS ConvertedAsDeclared NothingSilentlyDropped DefaultResolved
