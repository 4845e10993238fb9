SPECIFICATION Spec
CONSTANTS
    apk = apk
    dast = dast
    job1 = job1
    job2 = job2
    NoRow = NoRow
    Workers = {apk, dast}
    Jobs = {job1, job2}
    Owner <- OneJobEach
    Dast = {dast}
    MaxLease = 2
    MaxCrashes = 1
    AcceptsExpired = TRUE
    OtherAgents = TRUE
INVARIANT OwnRowsGone
PROPERTIES CheckpointOutlivesScan ImplementsDelivery
