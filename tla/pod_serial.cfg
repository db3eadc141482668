\* One caller: operations on the pod never overlap.
SPECIFICATION Spec
CONSTANTS
    Callers = {c1}
    MaxUid = 3
    MaxRestarts = 2
    MaxAttempts = 3
INVARIANTS
    TypeOK
    NoReRaise
    NoMissedRestart
    FailedExecDiagnosed
