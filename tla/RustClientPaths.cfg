SPECIFICATION Spec
CONSTANTS
    Sources = {a, b}
    Senders = {u1}
    TcpServers = {t1}
    RespSeqs = {0}
    None = None
    RespDedupSize = 1
    IdMod = 3
    FirstCounters = {2}
    SeqMod = 1
    Timeout = 0
    MaxSessions = 2
    MaxConns = 1
    MaxTime = 1
    Stoppable = FALSE
SYMMETRY Symmetry
INVARIANT ReverseMapAgrees
INVARIANT IdsDistinct
INVARIANT ResponseOnce
INVARIANT ResponseToOwner
PROPERTY ImplementsSourceSessions
