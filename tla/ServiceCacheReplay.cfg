SPECIFICATION Spec
CONSTANTS
    r1 = r1
    r2 = r2
    s1 = s1
    s2 = s2
    Reg = {r1, r2}
    Service = {s1, s2}
    ServiceOf <- OneService
    Frames <- Churn
    Cap = 1
    Backlogs <- NoBacklog
    FatalAfter = 0
    MaxIndex = 2
    MaxBreaks = 1
INVARIANT InstalledNotStale
