SPECIFICATION FairBSpec
CONSTANTS
    p1 = p1
    p2 = p2
    p3 = p3
    NoPort = NoPort
    NoWorker = NoWorker
    Workers = {w1, w2}
    Ports <- MCPorts
    Reply <- MCReply
INVARIANTS
    TypeOK
    OneResultPerPort
    NoSendOnClosed
    SendNeverBlocks
    PromptCancel
    CompleteUnlessCanceled
    ReturnsWhatWasFound
PROPERTIES
    HostScanSpec
    ScanReturns
