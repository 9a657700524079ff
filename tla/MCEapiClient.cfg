CONSTANTS
    Op <- MCOp
    Client <- MCClient
    Name <- MCName
    ClientOf <- MCClientOf
    NameOf <- MCNameOf
    BlockLen = 1
    Rejects = {"open", "stage", "stageRich", "diff", "timer", "commit", "abort"}
    Preloads <- MCPreloads
    Faults = {"lost", "cancel", "crash"}
    MaxStray = 1
SPECIFICATION FairSpec
INVARIANTS TypeOK SlotHeldByOne
PROPERTY ExpiredOpenReturns
