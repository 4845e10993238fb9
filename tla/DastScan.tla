------------------------------ MODULE DastScan ------------------------------
(***************************************************************************)
(* One DAST job as DastScannerClient.run_scan executes it (dast_client.py) *)
(* against the local DAST engine (external): the project's material is     *)
(* fetched from RADAR and pushed into the engine, a scan is started or the *)
(* scan of an earlier, interrupted run is resumed from its checkpoint, and *)
(* the scan is polled until it ends, is cancelled or is too late.          *)
(*                                                                         *)
(* The job runs again after a crash of the agent, when RADAR hands it out  *)
(* under a new lease; a stored result ends it (ScannerAgent delivers it).  *)
(* The engine forgets its scans, not its material, when it restarts.       *)
(***************************************************************************)
EXTENDS Naturals, FiniteSets

CONSTANTS
    Projects,     \* RADAR projects
    Scans,        \* ids the engine gives to scans
    Kinds,        \* types of the job: "config_sync", "collection_sync", "scan", "legacy"
    None,         \* no scan, no checkpoint, no reply, no result
    MaxRuns,      \* bound: claims of the job by this agent
    MaxVersion,   \* bound: changes of the project's material in RADAR
    MaxPolls,     \* polls that fit in dast_timeout_seconds
    MaxRestarts,  \* bound: restarts of the engine
    Faults        \* calls may fail or time out

Resource == {"config", "collection"}
Material == [Resource -> 0..MaxVersion]
Ended    == {"Pass", "Fail", "N/A", "Cancelled", "Error"}
Verdicts == {"pass", "fail", "warning", "error"}
FetchPc  == [config |-> "fetch config", collection |-> "fetch collection"]
PushPc   == [config |-> "post config", collection |-> "post collection"]

Checkpoint == [project : Projects, scan : Scans]
Reply      == [scan : Scans, status : Ended \cup {"Running"}]
Result     == [verdict : Verdicts, scan : Scans \cup {None}]

ASSUME ConstantsAssumption ==
    /\ Kinds \subseteq {"config_sync", "collection_sync", "scan", "legacy"}
    /\ {MaxRuns, MaxVersion, MaxPolls, MaxRestarts} \subseteq Nat
    /\ Faults \in BOOLEAN
    /\ None \notin Scans \cup Checkpoint \cup Reply \cup Result

VARIABLES
    kind,        \* job_type
    project,     \* project_id of the claimed job
    pc,          \* the call run_scan is about to make
    checkpoint,  \* SQLite scan_checkpoint row of the job (durable)
    result,      \* what run_scan returned, stored in the outbox (durable)
    got,         \* material fetched from RADAR in this run
    polled,      \* the scan _poll_scan polls
    on404,       \* what its allow_missing argument makes of a 404
    left,        \* polls left before its deadline
    cancel,      \* the cancel_requested event
    reply,       \* the engine's answer to POST /scan, not yet read
    scan,        \* engine: the state of every scan
    of,          \* engine: the project of every scan
    engine,      \* engine: the version of each resource it holds
    radar,       \* RADAR: the current version of each resource
    base,        \* ghost: RADAR's versions when the job was claimed
    lost,        \* ghost: scans whose start the agent never learnt, or whose
                 \*   project the job has left
    runs,        \* claims so far
    restarts     \* engine restarts so far

run     == <<got, polled, on404, left, cancel>>
durable == <<checkpoint, result>>
local   == <<scan, of, engine, restarts>>
ghost   == <<base, lost, runs>>
vars    == <<kind, project, pc, checkpoint, result, got, polled, on404, left,
             cancel, reply, scan, of, engine, radar, base, lost, runs, restarts>>

TypeOK ==
    /\ kind \in Kinds
    /\ project \in Projects
    /\ pc \in {"idle", "fetch config", "fetch collection", "post config",
               "post collection", "look", "post scan", "poll"}
    /\ checkpoint \in Checkpoint \cup {None}
    /\ result \in Result \cup {None}
    /\ got \in Material
    /\ polled \in Scans \cup {None}
    /\ pc = "poll" => polled \in Scans
    /\ on404 \in {"restart", "error"}
    /\ left \in 0..MaxPolls
    /\ cancel \in {"clear", "set"}
    /\ reply \in Reply \cup {None}
    /\ scan \in [Scans -> Ended \cup {"none", "Running", "gone"}]
    /\ of \in [Scans -> Projects]
    /\ engine \in Material
    /\ radar \in Material
    /\ base \in Material
    /\ lost \subseteq Scans
    /\ runs \in Nat
    /\ restarts \in Nat

Init ==
    /\ kind \in Kinds
    /\ project \in Projects
    /\ pc = "idle"
    /\ checkpoint = None
    /\ result = None
    /\ got = [r \in Resource |-> 0]
    /\ polled = None
    /\ on404 = "error"
    /\ left = 0
    /\ cancel = "clear"
    /\ reply = None
    /\ scan = [s \in Scans |-> "none"]
    /\ of = [s \in Scans |-> project]
    /\ engine = [r \in Resource |-> 0]
    /\ radar = [r \in Resource |-> 0]
    /\ base = [r \in Resource |-> 0]
    /\ lost = {}
    /\ runs = 0
    /\ restarts = 0

-----------------------------------------------------------------------------
(* The run of a claimed job.                                               *)

Claim ==
    /\ pc = "idle"
    /\ result = None
    /\ runs < MaxRuns
    /\ runs' = runs + 1
    /\ project' \in Projects
    /\ lost' = lost \cup {s \in Scans : of[s] # project' /\ scan[s] # "none"}
    /\ base' = radar
    /\ cancel' = "clear"
    /\ pc' = IF kind = "scan" THEN "look"
             ELSE IF kind = "collection_sync" THEN FetchPc["collection"] ELSE FetchPc["config"]
    /\ UNCHANGED <<kind, durable, got, polled, on404, left, reply, local, radar>>

\* The result is put into the outbox, then the checkpoint is deleted.
Return(verdict, s) ==
    /\ result' = [verdict |-> verdict, scan |-> s]
    /\ checkpoint' = None
    /\ pc' = "idle"

VerdictOf(status) ==
    IF status = "Pass" THEN "pass"
    ELSE IF status = "Fail" THEN "fail"
    ELSE IF status \in {"N/A", "Cancelled"} THEN "warning"
    ELSE "error"

\* Any HTTP, decoding or validation error on the way becomes an error result.
CallFails ==
    /\ Faults
    /\ pc # "idle"
    /\ Return("error", None)
    /\ lost' = IF reply = None THEN lost ELSE lost \cup {reply.scan}
    /\ reply' = None
    /\ UNCHANGED <<kind, project, run, local, radar, base, runs>>

\* get_dast_config, get_dast_collection: what RADAR holds at that moment.
Fetch(r) ==
    /\ pc = FetchPc[r]
    /\ got' = [got EXCEPT ![r] = radar[r]]
    /\ pc' = IF kind = "legacy" /\ r = "config" THEN "fetch collection"
             ELSE IF kind = "legacy" THEN "post config" ELSE PushPc[r]
    /\ UNCHANGED <<kind, project, durable, polled, on404, left, cancel, reply, local,
                   radar, ghost>>

\* A project without APIs: the engine keeps its collection.
FetchEmpty ==
    /\ pc = "fetch collection"
    /\ kind = "collection_sync"
    /\ Return("pass", None)
    /\ UNCHANGED <<kind, project, run, reply, local, radar, ghost>>

\* Mutant: the legacy job starts its scan without pushing the collection.
Push_ConfigOnly(r) ==
    /\ pc = PushPc[r]
    /\ engine' = [engine EXCEPT ![r] = got[r]]
    /\ IF kind = "legacy"
       THEN pc' = "look" /\ UNCHANGED durable
       ELSE Return("pass", None)
    /\ UNCHANGED <<kind, project, run, reply, scan, of, restarts, radar, ghost>>

Push(r) ==
    /\ pc = PushPc[r]
    /\ engine' = [engine EXCEPT ![r] = got[r]]
    /\ IF kind = "legacy"
       THEN /\ pc' = IF r = "config" THEN "post collection" ELSE "look"
            /\ UNCHANGED durable
       ELSE Return("pass", None)
    /\ UNCHANGED <<kind, project, run, reply, scan, of, restarts, radar, ghost>>

StartPolling(s, if404) ==
    /\ polled' = s
    /\ on404' = if404
    /\ left' = MaxPolls
    /\ pc' = "poll"

StartAfresh == checkpoint' = None /\ pc' = "post scan"

\* Mutant: a checkpoint of any project is resumed.
Look_AnyProject ==
    /\ pc = "look"
    /\ IF checkpoint # None
       THEN StartPolling(checkpoint.scan, "restart") /\ UNCHANGED checkpoint
       ELSE StartAfresh /\ UNCHANGED <<polled, on404, left>>
    /\ UNCHANGED <<kind, project, result, got, cancel, reply, local, radar, ghost>>

\* _start_or_resume_scan: a checkpoint of another project is dropped.
Look ==
    /\ pc = "look"
    /\ IF checkpoint # None /\ checkpoint.project = project
       THEN StartPolling(checkpoint.scan, "restart") /\ UNCHANGED checkpoint
       ELSE StartAfresh /\ UNCHANGED <<polled, on404, left>>
    /\ UNCHANGED <<kind, project, result, got, cancel, reply, local, radar, ghost>>

\* The engine takes POST /scan?wait=0 and answers with the new scan.
EngineStarts ==
    /\ pc = "post scan"
    /\ reply = None
    /\ \E s \in Scans, st \in Ended \cup {"Running"} :
        /\ scan[s] = "none"
        /\ scan' = [scan EXCEPT ![s] = st]
        /\ of' = [of EXCEPT ![s] = project]
        /\ reply' = [scan |-> s, status |-> st]
    /\ UNCHANGED <<kind, project, pc, durable, run, engine, restarts, radar, ghost>>

\* Mutant: the scan is polled without being remembered.
StartReturns_NoCheckpoint ==
    /\ pc = "post scan"
    /\ reply # None
    /\ IF reply.status = "Running"
       THEN /\ StartPolling(reply.scan, "error")
            /\ UNCHANGED durable
       ELSE Return(VerdictOf(reply.status), reply.scan) /\ UNCHANGED <<polled, on404, left>>
    /\ reply' = None
    /\ UNCHANGED <<kind, project, got, cancel, local, radar, ghost>>

\* The scan is remembered before it is polled, with no await in between.
StartReturns ==
    /\ pc = "post scan"
    /\ reply # None
    /\ IF reply.status = "Running"
       THEN /\ checkpoint' = [project |-> project, scan |-> reply.scan]
            /\ StartPolling(reply.scan, "error")
            /\ UNCHANGED result
       ELSE Return(VerdictOf(reply.status), reply.scan) /\ UNCHANGED <<polled, on404, left>>
    /\ reply' = None
    /\ UNCHANGED <<kind, project, got, cancel, local, radar, ghost>>

-----------------------------------------------------------------------------
(* _poll_scan: deadline, then the cancel event, then GET, then a sleep.    *)

PollTooLate ==
    /\ pc = "poll"
    /\ left = 0
    /\ Return("error", None)
    /\ UNCHANGED <<kind, project, run, reply, local, radar, ghost>>

\* 404: a resumed scan is started afresh, a scan of this run is an error.
ScanMissing ==
    /\ IF on404 = "restart" THEN StartAfresh /\ UNCHANGED result ELSE Return("error", None)
    /\ UNCHANGED <<kind, project, run, reply, local, radar, ghost>>

PollCancel ==
    /\ pc = "poll"
    /\ left > 0
    /\ cancel = "set"
    /\ IF scan[polled] = "gone" THEN ScanMissing
       ELSE /\ \E st \in {scan[polled]} \cup (IF scan[polled] = "Running"
                                              THEN {"Cancelled"} ELSE {}) :
                /\ scan' = [scan EXCEPT ![polled] = st]
                /\ Return(VerdictOf(st), polled)
            /\ UNCHANGED <<kind, project, run, reply, of, engine, restarts, radar, ghost>>

\* Mutant: the deadline is computed again on every round.
PollRunning_NoDeadline ==
    /\ pc = "poll"
    /\ left > 0
    /\ cancel = "clear"
    /\ scan[polled] = "Running"
    /\ UNCHANGED vars

PollRunning ==
    /\ pc = "poll"
    /\ left > 0
    /\ cancel = "clear"
    /\ scan[polled] = "Running"
    /\ left' \in 0..(left - 1)
    /\ UNCHANGED <<kind, project, pc, durable, got, polled, on404, cancel, reply, local,
                   radar, ghost>>

PollGone ==
    /\ pc = "poll"
    /\ left > 0
    /\ cancel = "clear"
    /\ scan[polled] = "gone"
    /\ ScanMissing

PollEnded ==
    /\ pc = "poll"
    /\ left > 0
    /\ cancel = "clear"
    /\ scan[polled] \in Ended
    /\ Return(VerdictOf(scan[polled]), polled)
    /\ UNCHANGED <<kind, project, run, reply, local, radar, ghost>>

\* The lease renewal of the run learns that RADAR wants the job cancelled.
CancelRequested ==
    /\ pc # "idle"
    /\ cancel = "clear"
    /\ cancel' = "set"
    /\ UNCHANGED <<kind, project, pc, durable, got, polled, on404, left, reply, local,
                   radar, ghost>>

-----------------------------------------------------------------------------
(* The engine, RADAR and the crashes of the agent.                         *)

EngineEnds ==
    /\ \E s \in Scans, st \in Ended :
        /\ scan[s] = "Running"
        /\ scan' = [scan EXCEPT ![s] = st]
    /\ UNCHANGED <<kind, project, pc, durable, run, reply, of, engine, restarts, radar, ghost>>

EngineRestarts ==
    /\ restarts < MaxRestarts
    /\ restarts' = restarts + 1
    /\ scan' = [s \in Scans |-> IF scan[s] = "none" THEN "none" ELSE "gone"]
    /\ UNCHANGED <<kind, project, pc, durable, run, reply, of, engine, radar, ghost>>

MaterialChanges ==
    /\ \E r \in Resource :
        /\ radar[r] < MaxVersion
        /\ radar' = [radar EXCEPT ![r] = @ + 1]
    /\ UNCHANGED <<kind, project, pc, durable, run, reply, local, ghost>>

\* Another job of the worker synchronises the material between two runs.
OtherJobSyncs ==
    /\ pc = "idle"
    /\ \E r \in Resource : engine' = [engine EXCEPT ![r] = radar[r]]
    /\ UNCHANGED <<kind, project, pc, durable, run, reply, scan, of, restarts, radar, ghost>>

\* The process dies, or SQLite fails: the run is over without a result.
Crash ==
    /\ pc # "idle"
    /\ pc' = "idle"
    /\ lost' = IF reply = None THEN lost ELSE lost \cup {reply.scan}
    /\ reply' = None
    /\ got' = [r \in Resource |-> 0]
    /\ polled' = None
    /\ on404' = "error"
    /\ left' = 0
    /\ cancel' = "clear"
    /\ UNCHANGED <<kind, project, durable, local, radar, base, runs>>

-----------------------------------------------------------------------------
Poll == PollTooLate \/ PollCancel \/ PollRunning \/ PollGone \/ PollEnded

Proceed ==
    \/ \E r \in Resource : Fetch(r) \/ Push(r)
    \/ FetchEmpty \/ Look \/ EngineStarts \/ StartReturns \/ Poll

RunStep == Proceed \/ CallFails

Next ==
    \/ Claim \/ RunStep \/ CancelRequested
    \/ EngineEnds \/ EngineRestarts \/ MaterialChanges \/ OtherJobSyncs \/ Crash

Spec == Init /\ [][Next]_vars

\* Every call of a run is answered, or fails when the engine has no id to give.
\* No other failure is owed to the run: it must end without.
FairSpec ==
    /\ Spec
    /\ WF_vars(Proceed)
    /\ WF_vars(pc = "post scan" /\ CallFails)

-----------------------------------------------------------------------------
(* PROPERTIES *)

\* While the job has no result, every scan the engine still runs for its
\* project is the one in the checkpoint, or its start is being answered: after a
\* crash it will be resumed.  (dast_client.py:222-249; lost scans excepted)
NoOrphanScan ==
    \A s \in Scans \ lost :
        (scan[s] = "Running" /\ result = None) =>
            \/ checkpoint # None /\ checkpoint.scan = s /\ checkpoint.project = of[s]
            \/ reply # None /\ reply.scan = s

\* A verdict is that of a scan of the job's own project which the engine had
\* ended with it; resumed, cancelled and forgotten scans give no other.
VerdictIsOurs ==
    [][(result = None /\ result' # None /\ result'.verdict # "error"
            /\ kind \in {"scan", "legacy"}) =>
        LET s == result'.scan IN
            /\ s # None
            /\ of[s] = project
            /\ scan'[s] = "gone" \/ VerdictOf(scan'[s]) = result'.verdict]_vars

\* A scan of a legacy job runs with material no older than RADAR's at the claim,
\* whatever the order of changes, crashes and other jobs (dast_client.py:199-210).
LegacyStartsFresh ==
    [][\A s \in Scans : (scan[s] = "none" /\ scan'[s] # "none" /\ kind = "legacy") =>
        \A r \in Resource : engine[r] >= base[r]]_vars

\* run_scan returns: polling ends at the latest at its deadline, even when the
\* engine restarts and the scan of a resumed run is started a second time.
RunEnds == []<>(pc = "idle")

\* docs/architecture.md:122-124: after a restart the agent goes on polling
\* instead of creating a new scan while the engine holds the old one.
NoSecondScan ==
    [][\A s, t \in Scans :
        (scan[s] = "Running" /\ of[s] = project) => ~(scan[t] = "none" /\ scan'[t] # "none")]_vars

=============================================================================
