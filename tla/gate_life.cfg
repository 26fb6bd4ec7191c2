CONSTANTS
    Node = Node
    Other = Other
    Workload = Workload
    Policy = Policy
    OtherPolicy = OtherPolicy
    None = None
    Capabilities <- MCCapabilities
    Holders <- MCHolders
    MaxTime = 3
    MaxIncarnation = 2
    MaxInFlight = 2
SPECIFICATION Spec
INVARIANTS TypeOK DurableBeforePrepared OpenedIsBehind EffectInsideLease
PROPERTIES EpochsOpenUpwards EffectsMoveForward FencedUntilNewEpoch
