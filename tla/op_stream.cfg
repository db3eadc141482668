\* Up to four data frames and a limit of two units per buffer.
SPECIFICATION FairSpec
CONSTANTS
    Limit = 2
    MaxData = 4
    Codes = {0, 124, 126}
INVARIANTS
    TypeOK
    BuffersLimited
    OutputComplete
    ResultMeansCommandEnded
PROPERTY EndsAfterCommand
