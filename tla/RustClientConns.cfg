SPECIFICATION FairSpec
CONSTANTS
    Sources = {a}
    Senders = {}
    TcpServers = {t1}
    RespSeqs = {}
    None = None
    RespDedupSize = 1
    IdMod = 5
    FirstCounters = {4}
    SeqMod = 1
    Timeout = 0
    MaxSessions = 1
    MaxConns = 2
    MaxTime = 1
    Stoppable = TRUE
INVARIANT TypeOK
INVARIANT OneConnPerKey
PROPERTY ToldTasksEnd
PROPERTY ImplementsSourceSessions
