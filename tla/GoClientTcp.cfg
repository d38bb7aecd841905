SPECIFICATION FairSpec
CONSTANTS
    Listener = Listener
    Sweeper = Sweeper
    Stopper = Stopper
    None = None
    UpCap = 1
    MaxPackets = 2
    MaxResponses = 1
    MaxConns = 2
    Answered = {1}
CHECK_DEADLOCK FALSE
INVARIANT TypeOK
INVARIANT ReturnedClosed
PROPERTY StopReturns
PROPERTY CancelledReaderReturns
