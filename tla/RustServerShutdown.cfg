SPECIFICATION FairSpec
CONSTANTS
    SessionIds = {s1}
    Seqs = {0}
    Listeners = {u1}
    Conns = {c1}
    Addrs = {}
    None = None
    DedupSize = 1
    Timeout = 0
    MaxSessions = 1
    MaxTime = 1
    MaxResponses = 1
    Stoppable = TRUE
INVARIANT TypeOK
PROPERTY StopDrains
