CONSTANTS
    VlanIdMax = 4
    VniMax = 100
    DistanceMax = 3
    SeqMax = 20
    MaskMax = 4
    HalfMax = 2
    NumberMax = 8
    LongerNames <- MCLongerNames
    MacForm <- MCMacForm
    Unicast <- MCUnicast
    Canonical <- MCCanonical
    Inputs <- MCInputs
    Drifts <- MCDrifts
    Kinds = {"staticRoute"}
    MaxDrift = 0
    MaxLate = 0
SPECIFICATION LifeSpec
INVARIANT NoOrphans
