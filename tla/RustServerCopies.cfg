SPECIFICATION Spec
CONSTANTS
    SessionIds = {s1, s2}
    Seqs = {0}
    Listeners = {u1}
    Conns = {c1}
    Addrs = {a1}
    None = None
    DedupSize = 1
    Timeout = 1
    MaxSessions = 2
    MaxTime = 0
    MaxResponses = 1
    Stoppable = FALSE
SYMMETRY Symmetry
INVARIANT AtMostOnce
INVARIANT OneTargetSocket
INVARIANT ResponseRouting
INVARIANT ClosedConnForgotten
PROPERTY ImplementsTargetSessions
