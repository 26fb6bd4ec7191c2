CONSTANTS
    Nodes = {A, B}
    Witness = Witness
    None = None
    MaxU64 = 100
    Guard = 1
    Lease = 2
    MaxAge = 1
    Skew = 1
    MaxTime = 1
    MaxEpoch = 3
    MaxRestarts = 1
    MaxEvidence = 2
SYMMETRY Interchangeable
SPECIFICATION Spec
INVARIANTS SingleWriter LateEffectIsStale
