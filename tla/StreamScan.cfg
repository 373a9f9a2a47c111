SPECIFICATION FairSpec
CONSTANTS
    h1 = h1
    h2 = h2
    h3 = h3
    p1 = p1
    p2 = p2
    NoHost = NoHost
    NoPort = NoPort
    HostList <- MCHostList
    Excluded <- MCExcluded
    Ports <- MCPorts
    OpenPorts <- MCOpenPorts
    MinHostgroup = 3
    MaxHostgroup = 2
    OutCap = 2
INVARIANTS
    TypeOK
    DoneIsLast
    ClosedWhenAllDone
    HostgroupBound
PROPERTIES
    EachHostScanned
    StreamEnds
