CONSTANTS
    Op <- TwiceOp
    Client <- TwiceOp
    Name = {"n1"}
    ClientOf <- TwiceClientOf
    NameOf <- TwiceNameOf
    Kind <- TwiceKind
    Before <- TwiceAtOnce
    Preloads <- NoPreload
    BlockLen = 2
    Rejects = {"stage"}
    Faults = {}
    MaxStray = 0
SPECIFICATION ApplySpec
INVARIANT BlockAtomic
