SPECIFICATION FairSpec
CONSTANTS
    SessionIds = {s1}
    Seqs = {0}
    Listeners = {u1}
    Conns = {}
    Addrs = {a1}
    None = None
    DedupSize = 1
    Timeout = 1
    MaxSessions = 2
    MaxTime = 2
    MaxResponses = 1
    Stoppable = FALSE
INVARIANT OneTargetSocket
PROPERTY ResponseSeqUnique
PROPERTY OnlyIdleRemoved
PROPERTY CancelledHandlerReturns
PROPERTY IdleIsSwept
