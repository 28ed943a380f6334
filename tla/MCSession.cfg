SPECIFICATION FairSpec
CONSTANTS
    MaxTries = 2
    Commands = {"go", "close"}
    MaxCluster = 2
    MaxStamps = 4
INVARIANTS TypeOK IgnoredWasProcessed AckedIsAccounted GameOnlyWhenAccepted OneAttempt
PROPERTY Recovers
CHECK_DEADLOCK FALSE
