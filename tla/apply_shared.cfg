CONSTANTS
    Op <- SharedOp
    Client = {"c1"}
    Name = {"n1"}
    ClientOf <- SharedClientOf
    NameOf <- SharedNameOf
    Kind <- SharedKind
    Before = {}
    Preloads <- NoPreload
    BlockLen = 2
    Rejects = {"open", "stage", "diff"}
    Faults = {}
    MaxStray = 0
SPECIFICATION FairApplySpec
INVARIANTS FreshSession FailedNotApplied NoResidue
