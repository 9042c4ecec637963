\* The daemon of one agent: its first socket may fail in every way, pings and is heard of
\* late; three more are there for what follows from that.
SPECIFICATION DFairSpec
CONSTANTS
    a1 = a1
    k1 = k1
    k2 = k2
    k3 = k3
    k4 = k4
    None = None
    Pong = Pong
    Agents = {a1}
    Conns = {k1, k2, k3, k4}
    Flaky = {k1}
    AgentOf <- OneAgent
    Requests = {}
    Target <- NoTarget
    SendCap = 1
    MaxPings <- OnePing
PROPERTIES
    ComesBack
    RowRepaired
    OnlyLateKicks
CHECK_DEADLOCK FALSE
