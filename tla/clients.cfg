\* Two pod-op threads next to a Release call; clients live two ticks.
SPECIFICATION Spec
CONSTANTS
    Workers = {w1, w2}
    Helpers = {h1}
    Loop = loop
    Calls = {k1}
    Contexts = {ctx}
    RefreshAfter = 2
    MaxTime = 3
SYMMETRY Symmetry
INVARIANTS
    OwnOpenClient
    LoadedOnce
