SPECIFICATION MCFairSpec
CONSTANTS
    Nobody = Nobody
    Margin = 2
    MaxLatency = 2
    Life = 4
    MaxTime = 5
    MaxTokens = 3
    apk = apk
    dast = dast
    job1 = job1
    job2 = job2
    NoRow = NoRow
    Clients = {apk, dast}
    Jobs = {job1, job2}
    Owner <- OneJobEach
    Dast = {dast}
    MaxLease = 1
    MaxCrashes = 1
    AcceptsExpired = TRUE
    OtherAgents = FALSE
PROPERTIES
    CacheMonotone
    ReturnedAlive
    RetryFresh
    RequestsEnd
    ResultsDelivered
    WorkersReturn
