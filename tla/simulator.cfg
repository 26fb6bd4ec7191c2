CONSTANTS
    States = {0, 1, 2}
    Start = 0
    Actions <- AllActions
    Promotions = {"promote-a"}
    Systems <- ThreeSystems
    Depths = {}
    CommandLines <- Lines
    Usize <- Values
    None = None
SPECIFICATION FairSimSpec
INVARIANTS SimTypeOK ExitCodeTellsSafety
PROPERTIES Answers
CHECK_DEADLOCK FALSE
