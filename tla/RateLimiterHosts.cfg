SPECIFICATION FairSpec
CONSTANTS
    c1 = c1
    c2 = c2
    c3 = c3
    l1 = l1
    l2 = l2
    NoCaller = NoCaller
    Callers <- MCCallers
    Limiters <- MCLimiters
    LimiterOf <- MCLimiterOf
    Interval = 2
    MaxRounds = 2
    MaxTime = 4
INVARIANT
    SpacedOverall
