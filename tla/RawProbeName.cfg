SPECIFICATION FairSpec
CONSTANTS
    p1 = p1
    p2 = p2
    s1 = s1
    s2 = s2
    NoPort = NoPort
    NoReply = NoReply
    Target = "short name"
    MaxAnswers = 1
    Probes <- MCProbes
    SourcePorts <- MCSourcePorts
INVARIANT
    NeverCrashes
