SPECIFICATION Spec
CONSTANTS
    t1 = t1
    t2 = t2
    Threads = {t1, t2}
    MaxGuards = 3
    MaxAllocs = 2
    MaxDeallocs = 1
CHECK_DEADLOCK FALSE
SYMMETRY Symmetry
INVARIANTS ExactCounts DepthIsLive VerdictIsRight NoAbort GlobalIsSum
PROPERTIES PanicUnchanged
