CONSTANTS
    Nodes = {A, B}
    Witness = Witness
    None = None
    MaxU64 = 100
    Guard = 1
    Lease = 1
    MaxAge = 1
    Skew = 1
    MaxTime = 2
    MaxEpoch = 2
    MaxRestarts = 1
    MaxEvidence = 1
SYMMETRY Interchangeable
SPECIFICATION Spec
PROPERTIES ImplementsWriterAuthority
