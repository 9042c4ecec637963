\* Three connections of one session: c2 relays a message, c1 pings twice through a queue of one.
SPECIFICATION Spec
CONSTANTS
    c1 = c1
    c2 = c2
    c3 = c3
    s1 = s1
    s2 = s2
    None = None
    Clients = {c1, c2, c3}
    Session <- OneSession
    SendCap = 1
    MaxCasts <- C2Casts
    MaxPings <- C1Pings
INVARIANTS
    OnlyPongPanics
    NoRoomLeak
    SplitNeedsRace
CHECK_DEADLOCK FALSE
