CONSTANTS
    Node = Node
    Other = Other
    Workload = Workload
    Policy = Policy
    OtherPolicy = OtherPolicy
    None = None
    Capabilities <- MCCapabilities
    Holders <- MCHolders
    MaxTime = 3
    MaxIncarnation = 2
    MaxInFlight = 1
SPECIFICATION Spec
INVARIANT StagedRecordConfirms
