SPECIFICATION FairSpec
CONSTANTS
    Producers = {p1, p2, p3}
    Consumers = {c1, c2}
    MaxGestures = 1
    MaxSize = 2
    MaxSent = 2
    Octets <- MCOctets
    Values14 <- MCValues14
INVARIANTS Lossless GesturesWhole WireIsSound
PROPERTIES Delivered
