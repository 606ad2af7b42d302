SPECIFICATION FairSpec
CONSTANTS
    Daemons = {d1, d2}
    Clients = {c1, c2}
    Configs <- EveryConfig
    Nobody = Nobody
INVARIANT TypeOK
INVARIANT OneAgent
INVARIANT SocketOwned
INVARIANT CutsOnlyNewcomers
PROPERTY DiesWithLastEditor
CHECK_DEADLOCK FALSE
