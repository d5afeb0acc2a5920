SPECIFICATION FairSpec
CONSTANTS
    r1 = r1
    r2 = r2
    s1 = s1
    s2 = s2
    Reg = {r1, r2}
    Service = {s1, s2}
    ServiceOf <- TwoServices
    Frames <- AllFrames
    Cap = 1
    Backlogs <- EitherBacklog
    FatalAfter = 2
    MaxIndex = 2
    MaxBreaks = 1
PROPERTIES
    Converges
    ConvergesFromEvents
