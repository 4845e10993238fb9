---------------------------- MODULE ScannerAgent ----------------------------
(***************************************************************************)
(* The worker process of the RADAR scanner agent: one Windows process with *)
(* one asyncio loop that runs the logical workers (APK always, DAST when   *)
(* enabled, service.py) over ONE shared SQLite outbox (outbox.py).  Every  *)
(* worker flushes the outbox, claims a job under a lease, scans it while a *)
(* renewal task keeps the lease, stores the result, flushes again          *)
(* (job_runner.py), and sleeps after any failure.                          *)
(*                                                                         *)
(* A step is the code between two awaits; the environment is the RADAR     *)
(* backend (external), the network, and crashes of the process, which lose *)
(* everything but the two SQLite tables.                                   *)
(***************************************************************************)
EXTENDS Naturals, FiniteSets

CONSTANTS
    Workers,        \* logical workers of the process
    Jobs,           \* scan jobs known to RADAR
    Owner,          \* Owner[j]: the worker whose agent id job j is for
    Dast,           \* the workers that keep scan checkpoints
    NoRow,          \* no such row, no post outstanding, no job held
    MaxLease,       \* bound: leases RADAR gives out for one job
    MaxCrashes,     \* bound: crashes of the process
    AcceptsExpired, \* RADAR takes a result whose lease has expired, unless re-leased
    OtherAgents     \* an agent on another machine may run a queued job

ASSUME ConstantsAssumption ==
    /\ Owner \in [Jobs -> Workers]
    /\ Dast \subseteq Workers
    /\ MaxLease \in Nat
    /\ MaxCrashes \in Nat
    /\ {AcceptsExpired, OtherAgents} \subseteq BOOLEAN
    /\ NoRow \notin [job : Jobs, token : 0..MaxLease, at : Nat]
    /\ NoRow \notin Jobs \X (0..MaxLease)

VARIABLES
    rows,         \* SQLite pending_result: rows[j] is the row of job j, or NoRow
    checkpoints,  \* SQLite scan_checkpoint: the jobs that have a row
    pc,           \* where each worker's coroutine is suspended
    afterRun,     \* the flush is the last call of run(), the scan returned a result
    batch,        \* rows of the list_pending snapshot not yet delivered
    post,         \* the row whose POST /result is outstanding
    answer,       \* what RADAR did with that POST
    hold,         \* the claim: <<job, lease token>>
    renewal,      \* the lease renewal task
    status,       \* RADAR: the state of each job
    lease,        \* RADAR: the newest lease token of each job (0: never leased)
    accepted,     \* RADAR: the <<job, token>> whose result it answered with 2xx
    late,         \* POSTs the agent gave up on that may still reach RADAR
    crashes       \* crashes so far

store    == <<rows, checkpoints>>
worker   == <<pc, afterRun, batch, post, answer, hold, renewal>>
radar    == <<status, lease, accepted, late>>
vars     == <<rows, checkpoints, pc, afterRun, batch, post, answer, hold, renewal,
              status, lease, accepted, late, crashes>>

Tokens  == 0..MaxLease
Results == Jobs \X Tokens
Row     == [job : Jobs, token : Tokens, at : Nat]
Id(r)   == <<r.job, r.token>>
Own(w)  == {j \in Jobs : Owner[j] = w}

TypeOK ==
    /\ rows \in [Jobs -> Row \cup {NoRow}]
    /\ checkpoints \subseteq Jobs
    /\ pc \in [Workers -> {"wait", "flush", "submit", "claim", "start", "scan",
                           "join", "retry"}]
    /\ afterRun \in [Workers -> BOOLEAN]
    /\ batch \in [Workers -> SUBSET Row]
    /\ post \in [Workers -> Row \cup {NoRow}]
    /\ answer \in [Workers -> {"none", "sent", "ok", "error"}]
    /\ hold \in [Workers -> Results \cup {NoRow}]
    /\ renewal \in [Workers -> {"off", "waiting", "calling"}]
    /\ status \in [Jobs -> {"queued", "leased", "done"}]
    /\ lease \in [Jobs -> Tokens]
    /\ accepted \subseteq Results
    /\ late \subseteq Results
    /\ crashes \in Nat

-----------------------------------------------------------------------------
(* The outbox (outbox.py).                                                 *)

Pending == {rows[j] : j \in {i \in Jobs : rows[i] # NoRow}}

\* created_at has a resolution of one second: a new row is as old as the
\* newest row or younger than every row.
NewStamps ==
    {n \in {r.at : r \in Pending} \cup {r.at + 1 : r \in Pending} \cup {0} :
        \A r \in Pending : r.at <= n}

\* put(): insert, or replace token and payload and keep created_at.
Put(j, token) ==
    \E at \in (IF rows[j] = NoRow THEN NewStamps ELSE {rows[j].at}) :
        rows' = [rows EXCEPT ![j] = [job |-> j, token |-> token, at |-> at]]

Delete(j) == rows' = [rows EXCEPT ![j] = NoRow]

Oldest(S) == {r \in S : \A q \in S : r.at <= q.at}

-----------------------------------------------------------------------------
Init ==
    /\ rows = [j \in Jobs |-> NoRow]
    /\ checkpoints = {}
    /\ pc = [w \in Workers |-> "wait"]
    /\ afterRun = [w \in Workers |-> FALSE]
    /\ batch = [w \in Workers |-> {}]
    /\ post = [w \in Workers |-> NoRow]
    /\ answer = [w \in Workers |-> "none"]
    /\ hold = [w \in Workers |-> NoRow]
    /\ renewal = [w \in Workers |-> "off"]
    /\ status = [j \in Jobs |-> "queued"]
    /\ lease = [j \in Jobs |-> 0]
    /\ accepted = {}
    /\ late = {}
    /\ crashes = 0

(* _worker_loop: nothing starts before RADAR accepted a heartbeat.         *)
HeartbeatAccepted(w) ==
    /\ pc[w] = "wait"
    /\ pc' = [pc EXCEPT ![w] = "flush"]
    /\ UNCHANGED <<store, afterRun, batch, post, answer, hold, renewal, radar, crashes>>

\* The flush at the top of the loop goes on to claim; the flush that ends
\* run() returns to the top of the loop.
FlushDone(w) ==
    /\ pc' = [pc EXCEPT ![w] = IF afterRun[w] THEN "flush" ELSE "claim"]
    /\ afterRun' = [afterRun EXCEPT ![w] = FALSE]

\* Any exception in the loop body: log it and sleep retry_delay_seconds.
Raise(w) ==
    /\ pc' = [pc EXCEPT ![w] = "retry"]
    /\ afterRun' = [afterRun EXCEPT ![w] = FALSE]
    /\ batch' = [batch EXCEPT ![w] = {}]
    /\ post' = [post EXCEPT ![w] = NoRow]
    /\ answer' = [answer EXCEPT ![w] = "none"]
    /\ hold' = [hold EXCEPT ![w] = NoRow]

RetryDelay(w) ==
    /\ pc[w] = "retry"
    /\ pc' = [pc EXCEPT ![w] = "flush"]
    /\ UNCHANGED <<store, afterRun, batch, post, answer, hold, renewal, radar, crashes>>

(* flush_outbox: a snapshot of the rows, then one POST per row, oldest     *)
(* first; a row is deleted after its POST and the first failure ends the   *)
(* flush.                                                                  *)
ListPending(w) ==
    /\ pc[w] = "flush"
    /\ batch' = [batch EXCEPT ![w] = Pending]
    /\ IF Pending = {} THEN FlushDone(w)
       ELSE pc' = [pc EXCEPT ![w] = "submit"] /\ UNCHANGED afterRun
    /\ UNCHANGED <<store, post, answer, hold, renewal, radar, crashes>>

Submit(w) ==
    /\ pc[w] = "submit"
    /\ post[w] = NoRow
    /\ \E r \in Oldest(batch[w]) : post' = [post EXCEPT ![w] = r]
    /\ answer' = [answer EXCEPT ![w] = "sent"]
    /\ UNCHANGED <<store, pc, afterRun, batch, hold, renewal, radar, crashes>>

\* Mutant: the delivered row is never deleted.
SubmitReturns_KeepsRow(w) ==
    /\ pc[w] = "submit"
    /\ answer[w] = "ok"
    /\ batch' = [batch EXCEPT ![w] = @ \ {post[w]}]
    /\ post' = [post EXCEPT ![w] = NoRow]
    /\ answer' = [answer EXCEPT ![w] = "none"]
    /\ IF batch[w] = {post[w]} THEN FlushDone(w) ELSE UNCHANGED <<pc, afterRun>>
    /\ UNCHANGED <<store, hold, renewal, radar, crashes>>

SubmitReturns(w) ==
    /\ pc[w] = "submit"
    /\ answer[w] = "ok"
    /\ Delete(post[w].job)
    /\ batch' = [batch EXCEPT ![w] = @ \ {post[w]}]
    /\ post' = [post EXCEPT ![w] = NoRow]
    /\ answer' = [answer EXCEPT ![w] = "none"]
    /\ IF batch[w] = {post[w]} THEN FlushDone(w) ELSE UNCHANGED <<pc, afterRun>>
    /\ UNCHANGED <<checkpoints, hold, renewal, radar, crashes>>

\* Mutant: the flush skips a refused row and goes on.
SubmitRaises_Skips(w) ==
    /\ pc[w] = "submit"
    /\ answer[w] = "error"
    /\ batch' = [batch EXCEPT ![w] = @ \ {post[w]}]
    /\ post' = [post EXCEPT ![w] = NoRow]
    /\ answer' = [answer EXCEPT ![w] = "none"]
    /\ IF batch[w] = {post[w]} THEN FlushDone(w) ELSE UNCHANGED <<pc, afterRun>>
    /\ UNCHANGED <<store, hold, renewal, radar, crashes>>

\* Mutant: a refused row is given up and deleted.
SubmitRaises_Deletes(w) ==
    /\ pc[w] = "submit"
    /\ answer[w] = "error"
    /\ Delete(post[w].job)
    /\ Raise(w)
    /\ UNCHANGED <<checkpoints, renewal, radar, crashes>>

SubmitRaises(w) ==
    /\ pc[w] = "submit"
    /\ answer[w] = "error"
    /\ Raise(w)
    /\ UNCHANGED <<store, renewal, radar, crashes>>

\* Time-out or broken connection: the worker gives up, the POST may arrive later.
SubmitTimesOut(w) ==
    /\ pc[w] = "submit"
    /\ answer[w] = "sent"
    /\ late' = late \cup {Id(post[w])}
    /\ Raise(w)
    /\ UNCHANGED <<store, renewal, status, lease, accepted, crashes>>

(* claim_job: a long poll; nothing to do goes round the loop, 409 sleeps   *)
(* first, any other failure raises (possibly after RADAR gave a lease).    *)
Lease(j) ==
    /\ status[j] = "queued"
    /\ lease[j] < MaxLease
    /\ status' = [status EXCEPT ![j] = "leased"]
    /\ lease' = [lease EXCEPT ![j] = @ + 1]

ClaimReturns(w) ==
    /\ pc[w] = "claim"
    /\ \E j \in Own(w) :
        /\ Lease(j)
        /\ hold' = [hold EXCEPT ![w] = <<j, lease'[j]>>]
    /\ pc' = [pc EXCEPT ![w] = "start"]
    /\ UNCHANGED <<store, afterRun, batch, post, answer, renewal, accepted, late, crashes>>

ClaimEmpty(w) ==
    /\ pc[w] = "claim"
    /\ \E next \in {"flush", "retry"} : pc' = [pc EXCEPT ![w] = next]
    /\ UNCHANGED <<store, afterRun, batch, post, answer, hold, renewal, radar, crashes>>

ClaimLost(w) ==
    /\ pc[w] = "claim"
    /\ \E j \in Own(w) : Lease(j)
    /\ Raise(w)
    /\ UNCHANGED <<store, renewal, accepted, late, crashes>>

(* run: start the job, then scan it beside a lease renewal task.           *)
StartReturns(w) ==
    /\ pc[w] = "start"
    /\ lease[hold[w][1]] = hold[w][2]
    /\ status[hold[w][1]] = "leased"
    /\ pc' = [pc EXCEPT ![w] = "scan"]
    /\ renewal' = [renewal EXCEPT ![w] = "waiting"]
    /\ UNCHANGED <<store, afterRun, batch, post, answer, hold, radar, crashes>>

StartRaises(w) ==
    /\ pc[w] = "start"
    /\ Raise(w)
    /\ UNCHANGED <<store, renewal, radar, crashes>>

\* run_scan of the DAST client saves and drops its checkpoint as it goes.
Checkpoint(w) ==
    /\ pc[w] = "scan"
    /\ w \in Dast
    /\ LET j == hold[w][1] IN
        checkpoints' = IF j \in checkpoints THEN checkpoints \ {j} ELSE checkpoints \cup {j}
    /\ UNCHANGED <<rows, worker, radar, crashes>>

\* put, delete_checkpoint and stop_renewal.set() run without an await.
ScanReturns(w) ==
    /\ pc[w] = "scan"
    /\ Put(hold[w][1], hold[w][2])
    /\ checkpoints' = checkpoints \ {hold[w][1]}
    /\ afterRun' = [afterRun EXCEPT ![w] = TRUE]
    /\ pc' = [pc EXCEPT ![w] = "join"]
    /\ UNCHANGED <<batch, post, answer, hold, renewal, radar, crashes>>

ScanRaises(w) ==
    /\ pc[w] = "scan"
    /\ pc' = [pc EXCEPT ![w] = "join"]
    /\ UNCHANGED <<store, afterRun, batch, post, answer, hold, renewal, radar, crashes>>

\* Mutant: stop_renewal is never set, the renewal task never ends.
Join_NoStop(w) ==
    /\ pc[w] = "join"
    /\ renewal[w] = "off"
    /\ pc' = [pc EXCEPT ![w] = IF afterRun[w] THEN "flush" ELSE "retry"]
    /\ hold' = [hold EXCEPT ![w] = NoRow]
    /\ UNCHANGED <<store, afterRun, batch, post, answer, renewal, radar, crashes>>

\* finally: await renewal_task.  Then flush, or hand the exception to the loop.
Join(w) ==
    /\ pc[w] = "join"
    /\ renewal[w] = "waiting"
    /\ renewal' = [renewal EXCEPT ![w] = "off"]
    /\ pc' = [pc EXCEPT ![w] = IF afterRun[w] THEN "flush" ELSE "retry"]
    /\ hold' = [hold EXCEPT ![w] = NoRow]
    /\ UNCHANGED <<store, afterRun, batch, post, answer, radar, crashes>>

(* _renew_lease: it waits for stop, calls RADAR when that times out, and   *)
(* looks at stop again only when the call has returned or failed.          *)
RenewCalls(w) ==
    /\ pc[w] = "scan"
    /\ renewal[w] = "waiting"
    /\ renewal' = [renewal EXCEPT ![w] = "calling"]
    /\ UNCHANGED <<store, pc, afterRun, batch, post, answer, hold, radar, crashes>>

RenewReturns(w) ==
    /\ renewal[w] = "calling"
    /\ renewal' = [renewal EXCEPT ![w] = "waiting"]
    /\ UNCHANGED <<store, pc, afterRun, batch, post, answer, hold, radar, crashes>>

-----------------------------------------------------------------------------
(* RADAR (external).  A lease runs out at any time, a result is taken from *)
(* the holder of the newest lease, or again when it was taken before.      *)

Takes(id) ==
    \/ id \in accepted
    \/ /\ lease[id[1]] = id[2]
       /\ \/ status[id[1]] = "leased"
          \/ status[id[1]] = "queued" /\ AcceptsExpired

Accept(id) ==
    /\ Takes(id)
    /\ accepted' = accepted \cup {id}
    /\ status' = [status EXCEPT ![id[1]] = "done"]

RadarAccepts(w) ==
    /\ answer[w] = "sent"
    /\ Accept(Id(post[w]))
    /\ answer' = [answer EXCEPT ![w] = "ok"]
    /\ UNCHANGED <<store, pc, afterRun, batch, post, hold, renewal, lease, late, crashes>>

RadarRejects(w) ==
    /\ answer[w] = "sent"
    /\ ~Takes(Id(post[w]))
    /\ answer' = [answer EXCEPT ![w] = "error"]
    /\ UNCHANGED <<store, pc, afterRun, batch, post, hold, renewal, radar, crashes>>

\* A POST the agent gave up on arrives after all, or never.
LateArrives ==
    /\ \E id \in late :
        /\ late' = late \ {id}
        /\ Accept(id)
    /\ UNCHANGED <<store, worker, lease, crashes>>

LateVanishes ==
    /\ \E id \in late : late' = late \ {id}
    /\ UNCHANGED <<store, worker, status, lease, accepted, crashes>>

LeaseExpires ==
    /\ \E j \in Jobs :
        /\ status[j] = "leased"
        /\ status' = [status EXCEPT ![j] = "queued"]
    /\ UNCHANGED <<store, worker, lease, accepted, late, crashes>>

\* Another machine's agent leases the queued job and completes it.
OtherAgentRuns ==
    /\ OtherAgents
    /\ \E j \in Jobs :
        /\ status[j] = "queued"
        /\ lease[j] < MaxLease
        /\ status' = [status EXCEPT ![j] = "done"]
        /\ lease' = [lease EXCEPT ![j] = @ + 1]
    /\ UNCHANGED <<store, worker, accepted, late, crashes>>

-----------------------------------------------------------------------------
(* The process dies (service stop, WinSW restart, power loss): the tables  *)
(* stay, the coroutines start again, POSTs on the wire may still arrive.   *)
Restart ==
    /\ crashes < MaxCrashes
    /\ crashes' = crashes + 1
    /\ pc' = [w \in Workers |-> "wait"]
    /\ afterRun' = [w \in Workers |-> FALSE]
    /\ batch' = [w \in Workers |-> {}]
    /\ post' = [w \in Workers |-> NoRow]
    /\ answer' = [w \in Workers |-> "none"]
    /\ hold' = [w \in Workers |-> NoRow]
    /\ renewal' = [w \in Workers |-> "off"]
    /\ late' = late \cup {Id(post[w]) : w \in {v \in Workers : answer[v] = "sent"}}
    /\ UNCHANGED <<status, lease, accepted>>

Crash == Restart /\ UNCHANGED store

\* Mutant: the checkpoint is deleted before the result is stored.
CrashAfterPut_Swapped ==
    /\ \E w \in Workers :
        /\ pc[w] = "scan"
        /\ checkpoints' = checkpoints \ {hold[w][1]}
    /\ Restart
    /\ UNCHANGED rows

\* put and delete_checkpoint are two commits; the process dies between them.
CrashAfterPut ==
    /\ \E w \in Workers :
        /\ pc[w] = "scan"
        /\ Put(hold[w][1], hold[w][2])
    /\ Restart
    /\ UNCHANGED checkpoints

-----------------------------------------------------------------------------
\* What a worker does as soon as its await returns.
WorkerStep(w) ==
    \/ HeartbeatAccepted(w) \/ ListPending(w) \/ Submit(w) \/ SubmitReturns(w)
    \/ SubmitRaises(w) \/ RetryDelay(w) \/ ClaimReturns(w) \/ ClaimEmpty(w)
    \/ StartReturns(w) \/ StartRaises(w) \/ ScanReturns(w) \/ ScanRaises(w) \/ Join(w)

\* What the network and RADAR do to it.
Outside(w) ==
    \/ SubmitTimesOut(w) \/ ClaimLost(w) \/ Checkpoint(w)
    \/ RenewCalls(w) \/ RenewReturns(w) \/ RadarAccepts(w) \/ RadarRejects(w)

Environment ==
    \/ LateArrives \/ LateVanishes \/ LeaseExpires \/ OtherAgentRuns
    \/ Crash \/ CrashAfterPut

Next ==
    \/ \E w \in Workers : WorkerStep(w) \/ Outside(w)
    \/ Environment

Spec == Init /\ [][Next]_vars

(* Every await of a worker ends: heartbeats and claims are polled, scans,  *)
(* start calls and renewals have time-outs.  A result that is posted again *)
(* and again is one day answered: taken if RADAR can take it, else refused.*)
Fairness ==
    \A w \in Workers :
        /\ WF_vars(WorkerStep(w))
        /\ WF_vars(RenewReturns(w))
        /\ SF_vars(RadarRejects(w))
        /\ SF_vars(RadarAccepts(w))

FairSpec == Spec /\ Fairness

-----------------------------------------------------------------------------
(* PROPERTIES *)

\* A worker that claims, starts or scans a job has no result of its own left
\* in the outbox: its flush passed only because RADAR took each of them, and
\* no other worker writes rows of its jobs (job_runner.py, service.py loop).
OwnRowsGone ==
    \A w \in Workers : pc[w] \in {"claim", "start", "scan"} =>
        \A j \in Own(w) : rows[j] = NoRow

\* A checkpoint goes only while its job is being scanned, never before the
\* result that replaces it is in the outbox, not even across a crash.
CheckpointOutlivesScan ==
    [][\A j \in checkpoints \ checkpoints' :
        \E w \in Workers : hold[w] # NoRow /\ hold[w][1] = j
                          /\ (pc'[w] = "scan" \/ rows'[j] # NoRow)]_vars

\* Every behaviour of the agent, its crashes and RADAR is one of the outbox as
\* ResultDelivery promises it.
Delivery == INSTANCE ResultDelivery WITH
    Results <- Results, pending <- {Id(r) : r \in Pending}, delivered <- accepted
ImplementsDelivery == Delivery!Spec

\* Whatever the two workers, time-outs and restarts do, a stored result is in
\* the end taken by RADAR and removed.
ResultsDelivered == \A j \in Jobs : []<>(rows[j] = NoRow)

\* A worker always comes back to asking for work: no flush, renewal task or
\* failed call holds it for ever.
WorkersReturn == \A w \in Workers : []<>(pc[w] = "claim")

\* docs/architecture.md:165: the APK and the DAST worker are independent tasks,
\* so a worker with no result of its own pending is never kept from claiming.
Independent ==
    \A w \in Workers : []<>(pc[w] = "claim" \/ \E j \in Own(w) : rows[j] # NoRow)

=============================================================================
