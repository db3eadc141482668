\* Empty files to two chunks, three attempts, shells that linger or start late.
SPECIFICATION FairSpec
CONSTANTS
    MaxChunks = 2
    MaxAttempts = 3
INVARIANTS
    WrittenMeansComplete
PROPERTY WriteEnds
