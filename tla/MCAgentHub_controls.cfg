\* The claim of docs/deployment.md:100, for agents that read what they are sent.
SPECIFICATION ReadingSpec
CONSTANTS
    a1 = a1
    k1 = k1
    k2 = k2
    q1 = q1
    None = None
    Pong = Pong
    Agents = {a1}
    Conns = {k1, k2}
    AgentOf <- OneAgent
    Requests = {q1}
    Target <- AllForOne
    SendCap = 1
    MaxPings <- NoPings
PROPERTIES
    ConnectControls
CHECK_DEADLOCK FALSE
