SPECIFICATION FairSpec
CONSTANTS
    N = 4
    Workers = {w1, w2}
    StreamBuffer = 1
    Methods <- MCMethods
    Answers <- MCAnswers
INVARIANTS
    TypeOK
    NoSendOnClosed
PROPERTIES
    SweepSpec
    CanceledDiscoveryEnds
    DiscoveryEnds
