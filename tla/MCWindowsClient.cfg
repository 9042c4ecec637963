\* Two sessions, two bridge processes, two refreshes at a time.
SPECIFICATION FairSpec
CONSTANTS
    MaxSessions = 2
    MaxBridges = 2
    MaxLists = 2
INVARIANTS
    NobodyLeft
    StatusHonest
    ListAgrees
PROPERTIES
    KeepsViewing
    ButtonsReturn
CHECK_DEADLOCK FALSE
