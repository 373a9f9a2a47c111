SPECIFICATION PSSpec
CONSTANTS
    p1 = p1
    p2 = p2
    s1 = s1
    s2 = s2
    NoPort = NoPort
    NoReply = NoReply
    Target = "address"
    MaxAnswers = 1
    Probes <- MCProbes
    SourcePorts <- MCSourcePorts
    Ports = 2
    MaxStray = 2
    Proxies <- MCProxies
    IdSpace = 4
INVARIANTS
    VerdictHasAnswer
    RelayVerdict
    Justified
PROPERTIES
    ProbesReport
    ListenersEnd
    ProbeEnds
