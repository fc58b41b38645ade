SPECIFICATION Spec
CONSTANTS
    sample_rate = 8
    channels = 2
    Wave <- MCWave
    Frequencies <- MCFrequencies
    Amplitudes = {1, 2}
    BlockSizes = {1}
    Buffers <- MCBuffers
    MaxFrames = 2
    MaxAccepted = 2
INVARIANTS PhaseContinuous StatisticsCover
