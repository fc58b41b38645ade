SPECIFICATION FairSpec
CONSTANTS
    t1 = t1
    t2 = t2
    Threads = {t1, t2}
    NoThread = NoThread
    Latencies = {1}
    Steps = {1}
    Rates = {}
    RoundLimits = {2}
    DurationMax = 1
    MaxEndpoints = 2
    MaxSends = 2
INVARIANTS RoundLandsAll
PROPERTIES CallsReturn
