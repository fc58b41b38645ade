SPECIFICATION Spec
CONSTANTS
    t1 = t1
    t2 = t2
    Threads = {t1, t2}
    NoThread = NoThread
    Latencies = {1}
    Steps = {1}
    Rates = {}
    RoundLimits = {}
    DurationMax = 1
    MaxEndpoints = 4
    MaxSends = 2
SYMMETRY Symmetry
INVARIANTS UniqueEndpoints AgreedOrder
