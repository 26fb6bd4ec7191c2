CONSTANTS
    States = {0, 1, 2}
    Start = 0
    Actions <- AllActions
    Promotions = {"promote-a"}
    Systems <- AllSystems
    Depths = {0, 1, 2, 3}
SPECIFICATION Spec
INVARIANTS TypeOK ReportIsExact ViolationsReplay RoundsAreProductive ExhaustedIsComplete
CHECK_DEADLOCK FALSE
