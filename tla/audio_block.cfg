SPECIFICATION BlockSpec
CONSTANTS
    Threads = {t1}
    Audio = t1
    BlockDuration = 1
    MaxWarmup = 1
    MaxIterations = 3
    MaxTime = 3
    MaxSamples = 30
    Precision = 11
    MaxExponent = 17
    MaxGuards = 2
    MaxAllocs = 2
    MaxDeallocs = 1
    Numerals <- MCNumerals
    Ticks <- MCTicks
    DurationEnd = 200
    MaxText = 4
CHECK_DEADLOCK FALSE
INVARIANTS BudgetAgrees ParseIsRight ReportIsExact PercentileIsRank
