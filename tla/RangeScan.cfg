SPECIFICATION FairSpec
CONSTANTS
    Width = 3
    MaxHostBits = 2
    NoCIDR = NoCIDR
    Original = Original
    Spoofed = Spoofed
    Calls <- MCCalls
    LocalRanges <- MCLocalRanges
    ExcludeRanges <- MCExcludeRanges
    ExcludeAddrs <- MCExcludeAddrs
INVARIANTS
    TypeOK
    TriesAllOrFails
    ScansSpoofed
    MACRestored
PROPERTIES
    Returns
