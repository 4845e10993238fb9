SPECIFICATION MCFairSpec
CONSTANTS
    Phones = {p, q}
    Wifi = Wifi
    None = None
    Scanners = {"hardware", "adb"}
    Roaming = FALSE
INVARIANTS
    AllTypesOK
    LocalExclusion
    OwnProbeAvoidsScan
    ReadyIsFresh
    ModelIsPhones
    LabelCountsRows
    ButtonBack
PROPERTIES
    ProbesGoOn
    ScanGetsLock
    EveryRunEnds
