SPECIFICATION FairSpec
CONSTANTS
    CommandLines <- FourLines
    Minute = 4
    MaxFailures = 4
INVARIANTS
    IInv
    Truthful
    
PROPERTY GivesUp
CHECK_DEADLOCK FALSE
