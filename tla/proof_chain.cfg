CONSTANTS
    A = A
    B = B
    W = W
    X = X
    None = None
    MaxU64 = 4
    RawPolicies <- MCRawPolicies
    Strangers <- MCStrangers
    VoteLists <- MCVoteLists
    LeaseLength = 1
    MaxTime = 3
    MaxEpoch = 2
    MaxAlterations = 1
SPECIFICATION Spec
PROPERTIES VotesPinTheGrant PriorHolderIsExcluded SuccessiveQuorumsIntersect EpochsRise
SYMMETRY Interchangeable
\* every bound reached and no bundle left to alter: the chain may stop
CHECK_DEADLOCK FALSE
