------------------------------ MODULE ApkProbe ------------------------------
(***************************************************************************)
(* Who talks to the local APK Scanner (external) at the same time: the     *)
(* heartbeat coroutine and run_scan of ScannerClient, in one asyncio loop  *)
(* (scanner_client.py), and the diagnostics of the Manager, in a process   *)
(* of its own (diagnostics.py).                                            *)
(*                                                                         *)
(* GET /device may switch the device's ADB channel as a side effect, so no *)
(* device probe may run while a testcase runs.  A step is the code between *)
(* two awaits; the scanner works on a request until it has answered it,    *)
(* whether or not the client is still waiting.                             *)
(***************************************************************************)
EXTENDS Sequences

VARIABLES
    hb,         \* the await the heartbeat coroutine is at
    status,     \* its scanner_status
    scan,       \* the await run_scan is at
    lock,       \* _probe_lock: held by the heartbeat across awaits, or free
    queue,      \* coroutines waiting for it, first come, first served
    inProgress, \* _scan_in_progress
    diag,       \* the request check_scanner of the diagnostics is at
    health,     \* the scanner's answer to each client's GET /health
    device,     \* GET /device of each client: "none", "sent", "running" or "answered"
    orphans,    \* device probes the scanner runs for clients that gave up
    job         \* POST /scan: "none", "sent", "running" or "answered"; an
                \*   abandoned scan runs on as "orphan"

coroutines == <<hb, status, scan, lock, queue, inProgress>>
scanner    == <<health, device, orphans, job>>
vars       == <<hb, status, scan, lock, queue, inProgress, diag, health, device, orphans, job>>

Clients  == {"heartbeat", "diagnostics"}
Requests == {"none", "sent", "running", "answered"}

TypeOK ==
    /\ hb \in {"rest", "health", "lock", "device", "testcases", "send"}
    /\ status \in {"unavailable", "busy", "ready"}
    /\ scan \in {"idle", "lock", "post"}
    /\ lock \in {"free", "heartbeat"}
    /\ queue \in Seq({"heartbeat", "scan"})
    /\ inProgress \in {"yes", "no"}
    /\ diag \in {"idle", "health", "device"}
    /\ health \in [Clients -> {"none", "busy", "free"}]
    /\ device \in [Clients -> Requests]
    /\ orphans \subseteq Clients
    /\ job \in Requests \cup {"orphan"}

Init ==
    /\ hb = "rest"
    /\ status = "unavailable"
    /\ scan = "idle"
    /\ lock = "free"
    /\ queue = <<>>
    /\ inProgress = "no"
    /\ diag = "idle"
    /\ health = [c \in Clients |-> "none"]
    /\ device = [c \in Clients |-> "none"]
    /\ orphans = {}
    /\ job = "none"

-----------------------------------------------------------------------------
(* heartbeat_payload: GET /health, then the device and the catalog under   *)
(* the probe lock unless the scanner or this process is busy.              *)

HeartbeatStarts ==
    /\ hb = "rest"
    /\ hb' = "health"
    /\ status' = "unavailable"
    /\ UNCHANGED <<scan, lock, queue, inProgress, diag, scanner>>

\* asyncio.Lock: the first waiter goes on when the lock is free.
Granted(coroutine) ==
    /\ lock = "free"
    /\ queue # <<>>
    /\ Head(queue) = coroutine
    /\ queue' = Tail(queue)

\* Inside the lock: look at the flag once more, then ask for the device.
Probe ==
    IF inProgress = "yes"
    THEN hb' = "send" /\ status' = "busy" /\ UNCHANGED <<lock, device>>
    ELSE /\ hb' = "device"
         /\ UNCHANGED status
         /\ lock' = "heartbeat"
         /\ device' = [device EXCEPT !["heartbeat"] = "sent"]

\* Mutant: only the flag counts, not what the scanner says.
HealthReturns_FlagOnly ==
    /\ hb = "health"
    /\ health["heartbeat"] # "none"
    /\ health' = [health EXCEPT !["heartbeat"] = "none"]
    /\ IF inProgress = "yes"
       THEN hb' = "send" /\ status' = "busy" /\ UNCHANGED queue
       ELSE hb' = "lock" /\ status' = "ready" /\ queue' = Append(queue, "heartbeat")
    /\ UNCHANGED <<scan, lock, inProgress, diag, device, orphans, job>>

HealthReturns ==
    /\ hb = "health"
    /\ health["heartbeat"] # "none"
    /\ health' = [health EXCEPT !["heartbeat"] = "none"]
    /\ IF health["heartbeat"] = "busy" \/ inProgress = "yes"
       THEN hb' = "send" /\ status' = "busy" /\ UNCHANGED queue
       ELSE hb' = "lock" /\ status' = "ready" /\ queue' = Append(queue, "heartbeat")
    /\ UNCHANGED <<scan, lock, inProgress, diag, device, orphans, job>>

LockAcquired ==
    /\ hb = "lock"
    /\ Granted("heartbeat")
    /\ Probe
    /\ UNCHANGED <<scan, inProgress, diag, health, orphans, job>>

\* The snapshot is kept; the catalog is fetched under the same lock.
DeviceReturns ==
    /\ hb = "device"
    /\ device["heartbeat"] = "answered"
    /\ device' = [device EXCEPT !["heartbeat"] = "none"]
    /\ hb' = "testcases"
    /\ UNCHANGED <<status, scan, lock, queue, inProgress, diag, health, orphans, job>>

\* With or without a catalog, async with releases the lock.
TestcasesReturn ==
    /\ hb = "testcases"
    /\ lock' = "free"
    /\ hb' = "send"
    /\ UNCHANGED <<status, scan, queue, inProgress, diag, scanner>>

\* What happens to a probe whose client stops waiting.
Abandon(c) ==
    /\ device' = [device EXCEPT ![c] = "none"]
    /\ IF device[c] = "running"
       THEN orphans' = orphans \cup {c}
       ELSE UNCHANGED orphans

\* Mutant: a failing probe keeps the lock.
DeviceRaises_KeepsLock ==
    /\ hb = "device"
    /\ Abandon("heartbeat")
    /\ status' = "unavailable"
    /\ hb' = "send"
    /\ UNCHANGED <<scan, lock, queue, inProgress, diag, health, job>>

\* An error or time-out of GET /device: the scanner counts as unavailable.
DeviceRaises ==
    /\ hb = "device"
    /\ Abandon("heartbeat")
    /\ status' = "unavailable"
    /\ lock' = "free"
    /\ hb' = "send"
    /\ UNCHANGED <<scan, queue, inProgress, diag, health, job>>

HealthRaises ==
    /\ hb = "health"
    /\ health' = [health EXCEPT !["heartbeat"] = "none"]
    /\ hb' = "send"
    /\ UNCHANGED <<status, scan, lock, queue, inProgress, diag, device, orphans, job>>

\* The model of the device is resolved and the heartbeat is posted, or fails.
HeartbeatSent ==
    /\ hb = "send"
    /\ hb' = "rest"
    /\ UNCHANGED <<status, scan, lock, queue, inProgress, diag, scanner>>

-----------------------------------------------------------------------------
(* run_scan: raise the flag under the lock, POST /scan, drop the flag.     *)

ScanStarts ==
    /\ scan = "idle"
    /\ scan' = "lock"
    /\ queue' = Append(queue, "scan")
    /\ UNCHANGED <<hb, status, lock, inProgress, diag, scanner>>

\* Mutant: the scan does not wait for the probe that holds the lock.
ScanLocks_NoWait ==
    /\ scan = "lock"
    /\ queue' = SelectSeq(queue, LAMBDA c : c # "scan")
    /\ inProgress' = "yes"
    /\ scan' = "post"
    /\ job' = IF job = "orphan" THEN job ELSE "sent"
    /\ UNCHANGED <<hb, status, lock, diag, health, device, orphans>>

\* Mutant: the scan holds the lock for as long as it runs.
ScanLocks_HoldsLock ==
    /\ scan = "lock"
    /\ Granted("scan")
    /\ lock' = "scan"
    /\ inProgress' = "yes"
    /\ scan' = "post"
    /\ job' = IF job = "orphan" THEN job ELSE "sent"
    /\ UNCHANGED <<hb, status, diag, health, device, orphans>>

\* The scanner refuses a scan while it still runs an abandoned one.
ScanLocks ==
    /\ scan = "lock"
    /\ Granted("scan")
    /\ inProgress' = "yes"
    /\ scan' = "post"
    /\ job' = IF job = "orphan" THEN job ELSE "sent"
    /\ UNCHANGED <<hb, status, lock, diag, health, device, orphans>>

ScanReturns ==
    /\ scan = "post"
    /\ job \in {"answered", "orphan", "sent"}
    /\ job' = IF job = "orphan" THEN job ELSE "none"
    /\ inProgress' = "no"
    /\ scan' = "idle"
    /\ UNCHANGED <<hb, status, lock, queue, diag, health, device, orphans>>

\* scanner_timeout_seconds is over: the scanner goes on with the testcase.  Neither
\* a GET /health (5 s) nor the hand-over of a free lock lasts as long as that.
ScanTimesOut ==
    /\ scan = "post"
    /\ job = "running"
    /\ \A c \in Clients : health[c] = "none"
    /\ hb # "lock"
    /\ job' = "orphan"
    /\ inProgress' = "no"
    /\ scan' = "idle"
    /\ UNCHANGED <<hb, status, lock, queue, diag, health, device, orphans>>

-----------------------------------------------------------------------------
(* check_scanner of the Manager's diagnostics: GET /health, and GET /device *)
(* unless that said busy.                                                   *)

DiagnosticsStart ==
    /\ diag = "idle"
    /\ diag' = "health"
    /\ UNCHANGED <<coroutines, scanner>>

DiagnosticsHealth ==
    /\ diag = "health"
    /\ health["diagnostics"] # "none"
    /\ health' = [health EXCEPT !["diagnostics"] = "none"]
    /\ IF health["diagnostics"] = "busy"
       THEN diag' = "idle" /\ UNCHANGED device
       ELSE diag' = "device" /\ device' = [device EXCEPT !["diagnostics"] = "sent"]
    /\ UNCHANGED <<coroutines, orphans, job>>

DiagnosticsDone ==
    /\ diag = "device"
    /\ \/ device["diagnostics"] = "answered"
          /\ device' = [device EXCEPT !["diagnostics"] = "none"]
          /\ UNCHANGED orphans
       \/ device["diagnostics"] # "answered" /\ Abandon("diagnostics")
    /\ diag' = "idle"
    /\ UNCHANGED <<coroutines, health, job>>

-----------------------------------------------------------------------------
(* The APK Scanner: every request is a thread of its own.                  *)

HealthAnswered ==
    /\ \E c \in Clients :
        /\ health[c] = "none"
        /\ IF c = "heartbeat" THEN hb = "health" ELSE diag = "health"
        /\ health' = [health EXCEPT ![c] = IF job \in {"running", "orphan"}
                                           THEN "busy" ELSE "free"]
    /\ UNCHANGED <<coroutines, diag, device, orphans, job>>

DeviceStep ==
    /\ \E c \in Clients :
        \/ device[c] = "sent" /\ device' = [device EXCEPT ![c] = "running"]
        \/ device[c] = "running" /\ device' = [device EXCEPT ![c] = "answered"]
    /\ UNCHANGED <<coroutines, diag, health, orphans, job>>

OrphanEnds ==
    /\ \/ /\ \E c \in orphans : orphans' = orphans \ {c}
          /\ UNCHANGED job
       \/ /\ job = "orphan"
          /\ job' = IF scan = "post" THEN "answered" ELSE "none"
          /\ UNCHANGED orphans
    /\ UNCHANGED <<coroutines, diag, health, device>>

TestcaseStep ==
    /\ \/ job = "sent" /\ job' = "running"
       \/ job = "running" /\ job' = "answered"
    /\ UNCHANGED <<coroutines, diag, health, device, orphans>>

-----------------------------------------------------------------------------
Heartbeat ==
    \/ HeartbeatStarts \/ HealthReturns \/ HealthRaises \/ LockAcquired
    \/ DeviceReturns \/ DeviceRaises \/ TestcasesReturn \/ HeartbeatSent

Scan == ScanLocks \/ ScanReturns \/ ScanTimesOut

Next ==
    \/ Heartbeat \/ ScanStarts \/ Scan
    \/ DiagnosticsStart \/ DiagnosticsHealth \/ DiagnosticsDone
    \/ HealthAnswered \/ DeviceStep \/ OrphanEnds \/ TestcaseStep

Spec == Init /\ [][Next]_vars

\* Every await of the heartbeat has a time-out; so has the acquisition of a
\* lock whose holder goes on.  Nothing says that a testcase ever ends.
Fairness ==
    /\ WF_vars(Heartbeat)
    /\ WF_vars(ScanLocks)
    /\ WF_vars(HealthAnswered)
    /\ WF_vars(DeviceStep)

FairSpec == Spec /\ Fairness

-----------------------------------------------------------------------------
(* PROPERTIES *)

\* The two coroutines of the agent never have a probe (device or catalog) and a
\* scan request outstanding at the same time (scanner_client.py:235, 279).
LocalExclusion == ~(hb \in {"device", "testcases"} /\ scan = "post")

\* The scanner never works on a probe the heartbeat waits for while it works on a
\* testcase, not even on one the agent has given up: the scanner's busy, the flag
\* and the lock together leave no gap (scanner_client.py:224-244).
OwnProbeAvoidsScan == job \in {"running", "orphan"} => device["heartbeat"] # "running"

\* docs/architecture.md:115-116: heartbeats go on while a testcase runs, however
\* long it takes.
HeartbeatsGoOn == []<>(hb = "send")

\* A claimed scan gets past the probe lock.
ScanGetsLock == scan = "lock" ~> scan = "post"

=============================================================================
