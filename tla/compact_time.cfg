CONSTANTS
    Nodes = {A, B}
    Witness = Witness
    None = None
    MaxU64 = 1500
    MaxTick = 7
    MaxEpoch = 2
    MaxIncarnation = 2
SPECIFICATION FairSpec
PROPERTIES AuthorityRunsOut
