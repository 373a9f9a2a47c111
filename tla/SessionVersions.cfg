SPECIFICATION Spec
CONSTANTS
    p1 = p1
    p2 = p2
    r1 = r1
    target = target
    stranger = stranger
    http = http
    ssh = ssh
    w1 = w1
    w2 = w2
    NoHost = NoHost
    Loopback = Loopback
    PortList <- MCPortList
    PortStates = {"open", "filtered"}
    Requests <- MCVersionRequests
    MaxOSTries = 2
    SynProbes = 3
    ClosedProbes = 2
    MaxMatches = 2
    Path <- MCPath
    Others <- MCOthers
    MaxHops = 3
    Retries = 1
    MaxForeign = 1
    Database <- MCDatabase
    ExcludePorts = {}
    Intensities = {8, 9}
    ScriptIDs <- MCScriptIDs
    Selected <- MCSelected
    Matching <- MCMatching
    ScriptWorkers <- MCWorkers
INVARIANTS
    AnswerGivesVersion
