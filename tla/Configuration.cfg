SPECIFICATION MCSpec
CONSTANTS
    Origins = {dev, uat, x}
    Dev = dev
    Uat = uat
    Customs = {x}
    Workers = {"service", "direct"}
    LegacyOrigins = {dev, uat}
    LegacyRows = {dev}
    HandEdits = {"", "uat"}
    Unbound = Unbound
    Clients = {c1, c2}
    Secrets = {s1, s2}
    None = None
    Torn = Torn
    Plaintext = TRUE
INVARIANTS
    AllTypesOK
    RowsAtHome
    BoundOrRefused
    SwitchOpens
    KeptAsAsked
    EnvNamesFiles
