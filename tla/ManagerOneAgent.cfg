SPECIFICATION Spec
CONSTANTS
    Profiles = {dev, uat}
    QueryFails = "no"
    MaxModals = 2
    MaxOrphans = 0
CHECK_DEADLOCK FALSE
INVARIANT OneAgent
