SPECIFICATION Spec
CONSTANTS
    Sources = {a}
    Senders = {}
    TcpServers = {t1}
    RespSeqs = {0}
    None = None
    RespDedupSize = 1
    IdMod = 5
    FirstCounters = {3, 4}
    SeqMod = 3
    Timeout = 1
    MaxSessions = 2
    MaxConns = 2
    MaxTime = 2
    Stoppable = FALSE
INVARIANT ResponseOfItsSession
