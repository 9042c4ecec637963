\* Three messages of any kind; the log takes six lines, so that it fills up in some runs.
SPECIFICATION FairSpec
CONSTANTS
    MaxMessages = 3
    LogCap = 6
INVARIANTS
    CandidatesFollow
PROPERTIES
    HandlesAll
    Answers
    Exits
CHECK_DEADLOCK FALSE
