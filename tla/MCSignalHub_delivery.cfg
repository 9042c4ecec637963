\* Two connections of one session, one of another; c1 relays three messages
\* through a queue of one, c3 one; under fairness.
SPECIFICATION FairSpec
CONSTANTS
    c1 = c1
    c2 = c2
    c3 = c3
    s1 = s1
    s2 = s2
    None = None
    Clients = {c1, c2, c3}
    Session <- TwoSessions
    SendCap = 1
    MaxCasts <- C1C3Cast
    MaxPings <- None0
INVARIANTS
    NoSilentLoss
PROPERTIES
    KeepsGroup
    HungUpLeaves
    EvictedEnds
CHECK_DEADLOCK FALSE
