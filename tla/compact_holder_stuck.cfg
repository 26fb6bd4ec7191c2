CONSTANTS
    Nodes = {A, B}
    Witness = Witness
    None = None
    MaxU64 = 1500
    MaxTick = 11
    MaxEpoch = 4
    MaxIncarnation = 2

SPECIFICATION Spec
INVARIANT AlreadyHoldsMeansHolds
