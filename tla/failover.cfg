CONSTANTS
    Nodes = {A, B}
    Witness = Witness
    None = None
    MaxU64 = 100
    Guard = 1
    Lease = 2
    MaxAge = 2
    Skew = 1
    MaxTime = 3
    MaxEpoch = 2
    MaxRestarts = 1
    MaxEvidence = 1
SYMMETRY Interchangeable
SPECIFICATION Spec
INVARIANTS TypeOK EffectiveIsCurrent SingleWriter LateEffectIsStale
PROPERTIES EffectsNeverRegress
