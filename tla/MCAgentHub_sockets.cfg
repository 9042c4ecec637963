\* Two sockets of one agent, one of which pings, and a connect request, under fairness.
SPECIFICATION FairSpec
CONSTANTS
    a1 = a1
    k1 = k1
    k2 = k2
    None = None
    Pong = Pong
    Agents = {a1}
    Conns = {k1, k2}
    AgentOf <- OneAgent
    Requests = {q1}
    q1 = q1
    Target <- AllForOne
    SendCap = 1
    MaxPings <- OnePing
INVARIANTS
    LatestServes
    OnlyPongPanics
    HeardOnce
    LeftBusy
PROPERTIES
    KeepsPromise
    SocketEnds
    ConnectAnswered
CHECK_DEADLOCK FALSE
