CONSTANTS
    Op <- IsolatedOp
    Client <- IsolatedClient
    Name <- IsolatedName
    ClientOf <- IsolatedClientOf
    NameOf <- IsolatedNameOf
    Kind <- IsolatedKind
    Before <- IsolatedBefore
    Preloads <- IsolatedPreloads
    BlockLen = 2
    Rejects = {"open", "stage", "stageRich", "diff", "commit", "abort"}
    Faults = {"lost", "cancel", "crash"}
    MaxStray = 1
SPECIFICATION FairApplySpec
INVARIANTS ApplyTypeOK BlockAtomic SuccessApplied
PROPERTIES ImplementsAtomicApply EveryOperationReturns
