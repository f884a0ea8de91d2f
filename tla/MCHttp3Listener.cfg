CONSTANTS
    Reactors = {1, 2}
    Clients = {1, 2}
    Conns = {1, 2}
    Addrs = {1, 2}
    Home <- MCHome
    Ip <- MCIp
    Start <- MCStart
    Batch = 2
    DrainCap = 2
    SockCap = 2
    MailCap = 1
    MaxConns = 2
    PeerBudget = 1
    StormMax = 1
    MaxProbes = 1
    Tokens = {1, 2}
    Erring = {2}
    Closing = {1}
    MaxArrivals <- MCMaxArrivals
    MaxErrors = 1
SPECIFICATION Spec
INVARIANTS TablesExact
PROPERTIES ResetOnlyForDead ListenerProgress
CHECK_DEADLOCK FALSE
