SPECIFICATION Spec
CONSTANTS
    Base = 3
    IdLen = 2
    SeqLen = 2
    MaxFrame = 10
    MaxDatagram = 6
    ip1 = ip1
    ip2 = ip2
    name = name
    Ips <- MCIps
    AnyIp = AnyIp
    NoHost = NoHost
    Unparsable = Unparsable
    Absent = Absent
    Refused = Refused
    DEFAULT_DEDUP_WINDOW = 2
    DEFAULT_SESSION_TIMEOUT = 60
    ClientArgs <- MCClientArgs
    ClientYaml <- MCClientYaml
    ServerArgs <- MCServerArgs
    ServerYaml <- MCServerYaml
    RespDedupSize = 2
    Draws = {8}
    PayloadLen <- MCPayloadLen
    MaxResponses = 3
    ResponseLen <- MCResponseLen
    MaxSessions = 2
    MaxTargets = 3
    MaxConns = 2
    MaxFaults = 2
CHECK_DEADLOCK FALSE
INVARIANT TypeOK
INVARIANT FramesIntact
INVARIANT DeadPathsAreOld
PROPERTY RefusedOnlyLate
PROPERTY UnheardExplained
PROPERTY ImplementsLossyRelay
