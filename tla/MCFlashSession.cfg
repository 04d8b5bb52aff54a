CONSTANTS
    Chunks = 2
    InfoTries = 3
    DataTries = 4
    VerifyTries = 4
    VersionTries = 5
    MaxNoise = 6
    MaxResets = 1
SPECIFICATION FairSpec
CHECK_DEADLOCK FALSE
INVARIANT TypeOK
INVARIANT Programmed
INVARIANT CommitVerified
INVARIANT RetriesSuffice
PROPERTY ImageSpec
PROPERTY SessionEnds
