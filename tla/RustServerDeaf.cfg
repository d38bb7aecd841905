SPECIFICATION Spec
CONSTANTS
    SessionIds = {s1}
    Seqs = {0}
    Listeners = {u1}
    Conns = {c1}
    Addrs = {a1}
    None = None
    DedupSize = 1
    Timeout = 1
    MaxSessions = 2
    MaxTime = 2
    MaxResponses = 0
    Stoppable = FALSE
INVARIANT LiveSessionServed
