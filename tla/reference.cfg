SPECIFICATION FairSpec
CONSTANTS
    Bytes = {"text", "invalid"}
    Capacity = 1
    MaxBytes = 2
    SampleBytes = 2
    Numbers = {16, 24}
    FromBits <- MCFromBits
    Samples = {0, 1, 3}
    MaxBlock = 2
    Frames <- MCFrames
    MaxSide = 14
    UsizeEnd = 65536
INVARIANTS DecodeIsWhole StreamInfoIsRight PcmVerdict FrameVerdict WindowReflects
PROPERTIES ImplementsCapturedRun WritesProceed CallReturns
