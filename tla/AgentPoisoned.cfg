SPECIFICATION FairSpec
CONSTANTS
    apk = apk
    dast = dast
    job1 = job1
    job2 = job2
    NoRow = NoRow
    Workers = {apk, dast}
    Jobs = {job2}
    Owner <- OnlyDast
    Dast = {dast}
    MaxLease = 2
    MaxCrashes = 0
    AcceptsExpired = TRUE
    OtherAgents = TRUE
PROPERTY Independent
