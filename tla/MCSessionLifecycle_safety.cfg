\* Two sessions of any types, two deletions of either, under fairness.
SPECIFICATION FairSpec
CONSTANTS
    s1 = s1
    s2 = s2
    d1 = d1
    d2 = d2
    Sessions = {s1, s2}
    Deletes = {d1, d2}
INVARIANTS
    NoContainerLeak
PROPERTIES
    KeepsSessionPromise
    StoppedForGood
    PendingResolves
CHECK_DEADLOCK FALSE
