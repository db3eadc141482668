\* Two callers: the count of the old pod lands on the identity of the new one.
SPECIFICATION Spec
CONSTANTS
    Callers = {c1, c2}
    MaxUid = 3
    MaxRestarts = 1
    MaxAttempts = 2
INVARIANT NoMissedRestart
