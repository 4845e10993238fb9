SPECIFICATION Spec
CONSTANTS
    Profiles = {dev, uat}
    QueryFails = "yes"
    MaxModals = 2
    MaxOrphans = 1
CHECK_DEADLOCK FALSE
INVARIANTS NoDirectDuringHandover ExitStopsDirect
PROPERTY SwitchUnderNoDirect
