SPECIFICATION Spec
CONSTANTS
    t1 = t1
    t2 = t2
    Threads = {t1}
    NoThread = NoThread
    Latencies = {0, 2}
    Steps = {1}
    Rates = {"sometimes"}
    RoundLimits = {}
    DurationMax = 2
    MaxEndpoints = 2
    MaxSends = 3
INVARIANTS TypeOK Conservation Deadlines AtMostOneOvertake
