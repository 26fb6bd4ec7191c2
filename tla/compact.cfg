CONSTANTS
    Nodes = {A, B}
    Witness = Witness
    None = None
    MaxU64 = 1500
    MaxTick = 11
    MaxEpoch = 4
    MaxIncarnation = 2
SYMMETRY Interchangeable
SPECIFICATION Spec
INVARIANTS TypeOK SingleWriter EffectiveIsCurrent EpochNamesOneWriter FailoverStaysPossible
PROPERTIES SuccessionExcludesPriorHolder ImplementsWriterAuthority
