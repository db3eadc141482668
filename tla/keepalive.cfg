\* An interval of three ticks, delays of up to two.
SPECIFICATION FairSpec
CONSTANTS
    Interval = 3
    MaxDelay = 2
    IdleTimeout = 6
INVARIANTS
    KeptAlive
PROPERTIES
    KeepaliveEnds
