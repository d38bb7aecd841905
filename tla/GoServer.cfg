SPECIFICATION FairSpec
CONSTANTS
    Ids = {i1}
    Seqs = {0}
    Udp = Udp
    Conns = {c1}
    None = None
    DedupSize = 1
    SeqSpan = 2
    MaxSessions = 1
    MaxResponses = 1
CHECK_DEADLOCK FALSE
INVARIANT TypeOK
INVARIANT SocketsClosed
INVARIANT ReturnedClosed
PROPERTY StopReturns
PROPERTY CancelledHandlerReturns
