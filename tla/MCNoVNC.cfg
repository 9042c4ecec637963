\* Three messages in each direction.
SPECIFICATION FairSpec
CONSTANTS
    MaxSent = 3
PROPERTIES
    KeepsRelay
    BothEnd
    AllArrives
CHECK_DEADLOCK FALSE
