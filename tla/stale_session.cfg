CONSTANTS
    Op <- TwiceOp
    Client <- TwiceOp
    Name = {"n1"}
    ClientOf <- TwiceClientOf
    NameOf <- TwiceNameOf
    Kind <- TwiceKind
    Before <- TwiceInOrder
    Preloads <- NoPreload
    BlockLen = 2
    Rejects = {"commit"}
    Faults = {}
    MaxStray = 0
SPECIFICATION ApplySpec
INVARIANT FreshSession
