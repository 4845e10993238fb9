# A formal model of the VNPAY RADAR Scanner Agent

TLA+ modules, TLC configurations and TLAPS proofs for the scanner agent in
`src/radar_agent`. File names below are relative to that directory; line numbers
are those of the modelled commit, and `PROJECT.json` maps every definition to
its lines.

1. [The system](#1-the-system): inventory, interactions, what is hard, what must hold
2. [The modules](#2-the-modules): state and actions against the code
3. [Runs, bounds, results](#3-runs-bounds-results)
4. [Fairness](#4-fairness)
5. [Proofs](#5-proofs)
6. [Findings](#6-findings)
7. [Not modelled](#7-not-modelled), [8. Plan](#8-plan), [9. Running it](#9-running-it)

## 1. The system

The agent is a Windows program that takes scan jobs from the RADAR backend, runs
them on a scanner of the same machine and sends the results back. It is three
processes, plus the installer, and three services outside the repository.

```
   RADAR backend       SSO            APK Scanner   DAST engine
        |  claim/start/  | token           | /scan       | /scan, polls
        |  renew/result  |                 | /device     |
   +----+----------------+-----------------+-------------+----+
   | worker process: one asyncio loop                         |
   |   APK worker, DAST worker: heartbeat + flush/claim/run   |
   |   shared: TokenProvider, ResultOutbox (SQLite)           |
   +----------------------------------------------------------+
        ^ service (SCM/WinSW)   ^ direct process
   +----+-----------------------+-----------+    +-----------+    +-------+
   | Manager: Qt thread, tasks, tray        |--->| Updater   |--->| Setup |
   +----------------------------------------+    +-----------+    +-------+
```

### Inventory

| Component | State | Operations | What makes it correct |
|---|---|---|---|
| Worker loop, job runner (`service.py`, `job_runner.py`) | per worker: the await it is at, the claim, the renewal task | heartbeat, flush, claim, start, scan, renew, store, retry | every result reaches RADAR once, no worker is held for ever |
| Result outbox (`outbox.py`) | SQLite: `pending_result`, `scan_checkpoint`, `profile_metadata` | put, list, delete, checkpoints, profile binding | a row stays until RADAR has taken that result; rows go only to their own environment |
| DAST client (`dast_client.py`) | the checkpoint of a job, the poll in progress | sync config and collection, start or resume, poll, cancel | one scan per job, found again after a crash; the verdict is that scan's; material is fresh |
| APK scanner client (`scanner_client.py`, `device_identity.py`) | `_probe_lock`, `_scan_in_progress`, last snapshot and catalog, model cache | heartbeat payload, run_scan | no device probe beside a testcase; heartbeats go on; ready is from a fresh device, the model is the phone's |
| Diagnostics (`diagnostics.py`) | coroutines of a run, its results; in the Manager the table and the button | checks of SSO, scanner, device, DAST, RADAR | every run ends; table, line and results agree; the button comes back |
| Token provider, RADAR client (`token_provider.py`, `radar_client.py`) | cached token, its expiry, a lock | get_token, requests with one retry on 401 | no dead token is handed out, a newer one is not overwritten, requests end |
| Manager (`manager.py`) | one UI thread, tasks by key, dialogs, direct process, update lock, `.env` copy | service operations, run directly, save, diagnostics, update, exit | one agent at a time; no stray process; an update meets a quiet machine |
| Tray, single instance (`desktop_shell.py`) | menu state | tray actions | locked during an update |
| Service control (`service_control.py`, `install-service.ps1`) | the SCM's | query, start/stop/restart, install | an operation ends |
| Profiles, settings (`environment_profiles.py`, `settings.py`) | `.env`, the outbox files, the binding in each | origin and database path of a profile, switch, install, run | a row goes only to its own RADAR; the profile saved can be opened |
| Configuration, secrets (`config_store.py`, `secret_store.py`) | `.env`, two DPAPI files | save, install, load | the three files fit together after a save; `.env` never names a file that is not there |
| Update (`update_service.py`, `updater.py`, `installer.nsi`) | downloaded Setup, registry status | check, download, hand over, poll, retry | only a verified Setup runs; what is shown is what happened |
| Paths, entry points, theme, build scripts | - | - | - |

### Interactions

* The two workers are coroutines of one loop and share the outbox, the token
  cache and the HTTP client. Each flushes **all** rows, not only its own.
* Each worker has a heartbeat coroutine and, during a scan, a lease renewal
  coroutine. The heartbeat of the APK worker probes the same scanner run_scan uses.
* The service and the direct process are the same worker program over the same
  `.env` and database; the Manager starts and stops both.
* The Manager's diagnostics talk to the scanner from another process, beside the
  agent. Its dialogs run nested event loops in which task results and tray
  actions are still delivered.
* Manager, Updater and Setup hand an update on; the last two meet in the registry.
* The Manager and `install-service.ps1` both write `.env` and the secret, and both
  choose the outbox file of a profile; the worker reads what they left and binds
  the file it opens to its RADAR origin.
* Diagnostics run in a thread of the Manager and report by queued signals, one per
  check and one for the run.

### What is hard

*Interleaving*: two flushes over one table, heartbeat against scan, nested dialogs.
*Failure*: a POST that times out but arrives, a crash between two commits, a scan
start whose answer is lost, a script that ends half way, a configuration of three
files written one after the other. *Ordering*: material fetched and pushed in four
calls, token refreshes that overtake each other, two workers binding one file.
*Time-outs*: a probe or a testcase that outlives its client. *Staleness*: buttons,
`/health` answers, token expiry, service status, the device snapshot and the model
cache, the database path the Manager keeps. The list with lines, and the
property for each, is `PROJECT.json` under `hazards`.

## 2. The modules

A step of a model is the code between two awaits (asyncio), between two blocking
calls or two events of the Qt loop (Manager), or a step of the environment.

| Module | What it is |
|---|---|
| `ScannerAgent` | workers, outbox, leases, renewal, crashes: the core |
| `ResultDelivery` | abstract: what the outbox promises RADAR; `ScannerAgent` implements it |
| `DastScan` | one DAST job over all its claims, with its engine |
| `ApkProbe` | who probes the device while a testcase runs |
| `Heartbeat` | what a heartbeat reports: ready testcases, the phone's model |
| `Diagnostics` | a run of the checks, its signals and its table |
| `TokenAuth` | the shared token and the 401 retry |
| `ManagerControl` | the Manager, the service, the direct process, the update lock |
| `SelfUpdate` | download, Updater, Setup and the registry between them |
| `ProfileOutbox` | which outbox file belongs to which RADAR: choice, binding, refusal |
| `ConfigSave` | the three files of a configuration and the writes of a save |
| `ScannerAgentProofs`, `DastScanProofs`, `ApkProbeProofs`, `TokenAuthProofs`, `ManagerControlProofs`, `SelfUpdateProofs` | theorems of the module each is named for |
| `ScannerClientsProofs` | theorems of `Heartbeat` and `Diagnostics`, as `MCScannerClients` composes them |
| `ConfigurationProofs` | theorems of `ProfileOutbox` and `ConfigSave`, and of their composition `MCConfiguration` |
| `MCScannerAgent` | the workers and jobs of `ScannerAgent`'s instances for TLC |
| `MCAgentTokens` | an instance of `TokenAuth` and, for its liveness, `ScannerAgent` |
| `MCScannerClients` | an instance of `ApkProbe`, `Heartbeat` and `Diagnostics` |
| `MCManagerUpdate` | an instance of `SelfUpdate` and, for its liveness, `ManagerControl` |
| `MCConfiguration` | an instance of `ProfileOutbox` and `ConfigSave` |

The last four MC modules put models of one subject under one configuration. Their variable
`story` says which model a behaviour is of; the variables of the others keep their
initial values. So each model is checked alone, with its own properties, and the
number of states is the sum and not the product. Where two models have fairness, a condition
of the MC module stands for one of each: a story is never left, so it is fair to the one that
is told. The other modules are checked as they are.

`DastScan` is the inside of the single step `ScanReturns`/`Checkpoint` of
`ScannerAgent`: there a DAST scan saves and drops its checkpoint as it likes, in
`DastScan` it does so as the code does. `TokenAuth` is what happens inside each
HTTP call of it. `ApkProbe` details the APK worker's scan and heartbeat.

### ScannerAgent

`rows` and `checkpoints` are the SQLite tables and survive `Crash`; the rest of
the worker state (`pc`, `batch`, `post`, `hold`, `renewal`) does not. `pc` is the
await: `wait` for the first accepted heartbeat, `flush`, `submit`, `claim`,
`start`, `scan`, `join` (of the renewal task), `retry` (the sleep after an
exception). `batch` is the snapshot of `list_pending`, kept over the awaits of
the flush as in the code. A row carries job, lease token and the one-second
`created_at`, by which the flush orders; rows with the same stamp are posted in
either order. The first failing POST ends the flush (`SubmitRaises`), a POST that
times out may still arrive (`late`). RADAR is external and assumed to behave as the
agent needs: a result is taken from the holder of the newest lease, one already
taken is taken again with 2xx, any other is refused, and a taken result closes its
job for good; a lease may expire at any time. `OtherAgents` and `AcceptsExpired` widen
or narrow what it may do. That a job is never queued again matters: `delete` goes by job
id, and with two workers the row could otherwise be the next result of the job by then.

### DastScan

`pc` is the call the run is about to make. `kind` is the job type: `config_sync`
and `collection_sync` push one resource, `scan` scans with what the engine holds,
`legacy` pushes both and scans. `checkpoint` and `result` are durable. `reply` is
the engine's answer to `POST /scan` before the agent has read it, so a crash can fall
between. `on404` is the `allow_missing` argument of `_poll_scan`. The ghosts `base`
(material at the claim) and `lost` (scans whose start the agent never learnt of)
serve the properties alone.

### ApkProbe

Each await of `heartbeat_payload` and `run_scan` is a value of `hb` and `scan`;
`queue` is the FIFO of `asyncio.Lock`. The scanner's side (external) has the requests it
works on, including those whose client gave up (`orphans`, `job = "orphan"`).
`ScanTimesOut` assumes that neither a 5 s `GET /health` nor a hand-over of
the lock lasts as long as `scanner_timeout_seconds`. The heartbeat's catalog request
is a step, its normalisation is data.

### Heartbeat

The same coroutine as in `ApkProbe`, seen from its data. A phone stands for its hardware
serial, its ADB serial on USB and its model; `Wifi` is the ADB serial of whichever phone has
the scanner's address. `payload`, `catalog` and `models` are `_last_device_payload`,
`_last_testcase_catalog` and `_device_models`. The payload keeps what later steps tell apart:
the phone on USB, whether Wi-Fi is online, the reported hardware serial and model, and the
device types whose needs the channels meet (`Serves`, the conditions of
`_capability_status`). `phone` in it, `fresh` and `sent` are there for the properties. ADB (external)
answers with the phone that has the serial *now*. `Scanners` are the two generations of
the scanner's API; `Roaming` lets the address pass to another phone.

### Diagnostics

`at` is the await of each check's coroutine, `token` the result of `token_task`, `events` the
queue of Qt signals in order of emission. The UI's side has the flag, the button, the steps,
the rows, `_diagnostic_results` and the line under the table. A check ends by its time-outs,
so each request is one step with either verdict. `update` is the part of `ManagerControl`
that locks the UI; `tray` says whether the tray menu of the platform answers while the
question of an update is open, which is the only way to start a run behind it.
`Replaced` is the Setup that ends the Manager with a run under way.

### TokenAuth

Tokens are numbers in order of issue; `ends` is the SSO's view of their life,
`expires` the agent's, counted from the arrival of the answer. `Tick` lets an issued
token wait at most `MaxLatency`. All tokens have one lifetime, as one service account's
have: with changing lifetimes a malformed `expires_in`, which stores the token
before it raises, could give the new token an expiry of the old one's that is too late.

### ManagerControl

`ui` is a blocking `query_service` call of the UI thread: while it lasts no event
is taken, but the service goes on. `modals` is the stack of open dialogs; only the
innermost is answered, and the code behind `exec()` goes on then. A window action
needs no open dialog, a tray action only the update lock off. `status` is the "status"
task of `_tasks` and its unread result; `shown` and `shownDirect` are what the
buttons reflect. `todo` is what the PowerShell script of an operation still has
to do, command by command, also after the Manager has ended. `env` is `.env`,
`conf` the Manager's copy of it, `boot` the profile an installation will write.
`orphans` counts running processes whose handle was overwritten. Dialogs with
nothing behind them are left out, `kill` is taken to succeed within its 3 s, and
the package is an installed one (a portable one has its own `.env`).

### ProfileOutbox

An origin is a URL after `normalize_radar_origin`; a row is the origin whose RADAR leased the
job. `exists`, `meta` and `rows` are the files, `profile_metadata.radar_origin` and the two
tables of each. `env` is `.env`, which the Manager, the script and, by `HandEdits`, an administrator write;
`conf` is the Manager's copy. A worker reads `.env` (`Load`), opens the file and reads the binding (`Read`),
looks for rows of an older release (`CheckLegacy`) and writes the binding (`Bind`): four
steps, since SQLite commits none of them together and the other worker may open the
same file between them. The file is chosen three times: `DatabasePath` for a
profile that changes, `Selected` for one that does not, `ScriptFile` by
`install-service.ps1`. `InitOld` is an installation before the profiles, one `agent.db` and no
environment in `.env`; `InitNew` one by the script. `LegacyRows` are the origins whose rows that
`agent.db` may hold: DEV alone, by the message of `outbox.py:64-66`.

### ConfigSave

`env`, `secret` and `key` are the three files; `Torn` is a file whose write has not ended. `pc`
is the place in `save_settings`: the secret, its ACL (`icacls` may fail), the key of the DAST
engine, the replacement of `.env`. Secrets are written in place and may be left torn, by a
Manager that dies or by a write that fails (`WriteFails`); `.env` is replaced as a whole by the
Manager but written in place by the script. A save that fails before its first write (the form
does not validate, DPAPI has an error) changes nothing and is no step. A save may run beside an
installation, and with `Plaintext` a secret may stand in clear in `.env`. Four variables are
history. `wanted` is what the saves that *succeeded* were asked for, field by field, taken from the
form and never from a file: a blank secret asks for the one wanted before. `unsure` are
the fields in doubt: a secret that a failed save had written or begun, all of them after a
script that died or when a save began beside one, the secret while it stands in clear. A
save that succeeds takes from it what was typed. `beside` and `cut` say whether the save began
beside the script and whether a writer was ever cut short.

### SelfUpdate

`manager` is an open Manager of either version, idle, downloading, about to hand over or
locked after it; its service and direct process are reduced to what keeps files in use
(`ManagerControl` has the rest). `setup` and `exit` are the process the Updater started last: the
place in the installer's section and, as exit code, how it ended. `reg` is what both
read and write in the registry; `seen` the status a poll has read before it asks whether
the process runs. Between the two the Setup may go on, but not through its
two-second sleep (`SetupClosesManager`). A silent Setup skips a file it cannot write, as NSIS does
unless told otherwise (external; `SetupCopies`). A machine on which the newer version was installed and
replaced by an older one without a Setup is not an initial state, nor is a Setup run by hand.
The Updater's window may be closed in its first 250 ms, too, and then no Setup is ever started
(`CloseUpdater`); a Setup that cannot delete the Manager may abort whoever holds the file (`SetupAborts`).

## 3. Runs, bounds, results

| Run (`cfg`) | Properties | States | Shows |
|---|---|---|---|
| agent_safety (`AgentSafety`) | OwnRowsGone, CheckpointOutlivesScan, ImplementsDelivery | 320 k | no result lost, replaced or stored twice; checkpoints outlive scans |
| agent_tokens (`AgentTokens`) | CacheMonotone, ReturnedAlive, RetryFresh, RequestsEnd (`TokenAuth`); ResultsDelivered, WorkersReturn (`ScannerAgent`) | 302 k | the token cache moves forward, tokens are alive, a retry is a new token, requests end; results arrive, workers come back, across a crash |
| dast (`Dast`) | NoOrphanScan, VerdictIsOurs, LegacyStartsFresh, RunEnds | 959 k | checkpoint, verdict and material fit the job; run_scan always returns |
| scanner_clients (`ScannerClients`) | AllTypesOK, LocalExclusion, OwnProbeAvoidsScan, ProbesGoOn, ScanGetsLock (`ApkProbe`); ReadyIsFresh, ModelIsPhones (`Heartbeat`); LabelCountsRows, ButtonBack, EveryRunEnds (`Diagnostics`) | 496 k | the agent does not probe beside its own testcase, and no one starves at the lock; a heartbeat reports no stale testcase and no other phone's model; runs of the checks end and are shown as they ended |
| manager_safety (`ManagerSafety`) | NoDirectDuringHandover, ExitStopsDirect, SwitchUnderNoDirect | 2.2 M | the tracked process is down at hand-over, at exit and when the profile changes |
| manager_update (`ManagerUpdate`) | OutcomeTrue, FailedStep, OnlyVerifiedRuns, ManagerReplaced, SetupSupervised, UpdateEnds (`SelfUpdate`); StatusHeals, OperationEnds (`ManagerControl`) | 185 k | the Updater shows what its Setup did, over any number of attempts; buttons heal, operations end |
| configuration (`Configuration`) | AllTypesOK, RowsAtHome, BoundOrRefused, SwitchOpens (`ProfileOutbox`); KeptAsAsked, EnvNamesFiles (`ConfigSave`) | 1.1 M | rows stay with their RADAR, every switch can be opened, one worker refuses what is not its own; the files hold what saves that succeeded were asked for, but for what is in doubt |

Five more runs end in a violation: [section 6](#6-findings). Types are checked by TLC where no
theorem states them (`AllTypesOK`); those of the other modules are proved (`TypeCorrect`).

Bounds and why they are enough:

* *ScannerAgent*: two workers and a job each are the whole of the process (it never has
  more workers); two leases per job give a stale and a current token (for liveness,
  `AgentTokens`, one: a result is delivered or not whatever its number); one crash falls in every
  state, a second starts from states the first reached. `created_at` grows only
  relative to other rows.
* *DastScan*: two claims allow a crash and a resume or a second start; two projects tell
  a foreign checkpoint from an own one; two scans tell a resumed from a second one (an engine
  out of ids fails the call); one material change and one engine restart
  fall anywhere; `MaxPolls` is the time-out, small so that it is reached.
* *ApkProbe* and *Diagnostics* have no bound: the models are finite.
* *Heartbeat*: two phones, since the question is whether one is taken for the other, and both
  generations of the scanner; no other bound.
* *ProfileOutbox*: the two presets and one custom origin (a second custom one differs from it as the presets
  do); both workers. Two parts: `switch`, everything the Manager and the script can do from a new or
  a DEV installation, with no bound; `edits`, one worker and an `.env` edited by hand among
  the two presets, from an installation of either. The theorems hold beyond both.
* *ConfigSave*: two clients with two secrets, so that a mixture is one; no bound on saves, installations,
  failures and deaths.
* *TokenAuth*: two coroutines, one that refreshes and one that meets it at every step (the theorems hold for any number), three tokens, so that a refused,
  a refreshed and a third one exist; `Margin = MaxLatency = 2 < Life`
  is the tightest ratio the code allows (30 s read time-out, 30 s margin).
* *SelfUpdate*: `MaxPolls = 2` for the 20 of the code: one poll that still finds no final status and one
  that gives up. Attempts, downloads and restarts are unbounded, the model being finite.
* *ManagerControl*: two profiles, so that a switch is one; two nested dialogs, a third
  would repeat the second (the tray opens result and exit dialogs above
  another); one lost process, so that one can be lost. For liveness (`ManagerUpdate`) there is one
  profile, since neither property speaks of them, and no lost process, which neither property looks at.

`CHECK_DEADLOCK FALSE` stands where the modelled part really ends: the DAST job has its
result or its claims are used up, the Manager has ended, or it is locked for an Updater that
is gone.

## 4. Fairness

Only steps the program or its time-outs guarantee are fair; crashes, time-outs
themselves, cancellations, lease expiry and operators' clicks never are.

* `ScannerAgent`: WF on each worker's own continuation and on the return of a renewal
  call (all have HTTP time-outs); SF on RADAR's answer to a result that is posted
  again and again (RADAR is up infinitely often, not always). That RADAR also refuses, one day,
  what it cannot take is used by `poisoned_outbox` alone.
* `DastScan`: WF on the answers of the run's calls, and on the failure of a scan start
  the engine has no id left for. Any other failure of a call may happen and is owed to
  nobody, so that polling has to end by its own deadline.
* `ApkProbe`: WF on the heartbeat, on the hand-over of the lock (FIFO), on the scanner's
  answer to `/health` and its work on a probe. No fairness on testcases.
* `Diagnostics`: WF on the checks, whose requests have time-outs of 5 to 20 s, and on the delivery
  of queued signals, which nested event loops go on with. No fairness on the operator or an update.
* `Heartbeat`, `ProfileOutbox` and `ConfigSave` have safety properties only.
* `TokenAuth`: SF on the lock (FIFO, but a client may find it taken again and
  again), WF on the end of fetches and sends (time-outs).
* `SelfUpdate`: WF on the Updater's timer; SF on the Setup, whose waits are all limited (30 s, 60
  times 500 ms), since a poll may stand in its way again and again. No fairness on the operator.
* `ManagerControl`: WF on blocking queries, on the status task, on the steps of a script (time-outs
  of 30, 40 and 90 s) and on the operator answering a dialog that is open; SF on the refresh (the timer
  or the delivery of a status) and on the delivery and the closing of an operation's result, which
  a blocking call may hold up again and again. No fairness on the SCM, on the download or on Setup.

That something ends is stated as `[]<>` of its having ended, which is what `P ~> ~P` says of its being under way.

## 5. Proofs

| Theorem | Property | Assumes |
|---|---|---|
| `ScannerAgentProofs!TypeCorrect` | TypeOK | - |
| `ScannerAgentProofs!SafeInvariant` | the inductive invariant | - |
| `ScannerAgentProofs!OwnRowsGoneHolds` | OwnRowsGone | - |
| `ScannerAgentProofs!CheckpointOutlivesScanHolds` | CheckpointOutlivesScan | - |
| `ScannerAgentProofs!Implementation` | ImplementsDelivery | - |
| `ScannerAgentProofs!NeverRefusedHolds` | RADAR never refuses a result | `AcceptsExpired`, `~OtherAgents`: RADAR takes a result whose lease ran out, and no other machine's agent gets the job |
| `DastScanProofs!TypeCorrect`, `NoOrphanScanHolds`, `VerdictIsOursHolds`, `LegacyStartsFreshHolds` | the same names | - |
| `DastScanProofs!SecondOnlyBesideLost` | a second scan is started only beside one that was lost | - |
| `DastScanProofs!NoSecondScanOtherwise` | NoSecondScan | one project, and no run ends between the engine's answer and `put_checkpoint` |
| `TokenAuthProofs!TypeCorrect`, `CacheMonotoneHolds`, `RetryFreshHolds`, `ReturnedAliveHolds` | the same names | for the last, `LatencyAssumption`: an answer takes no longer than the margin |
| `TokenAuthProofs!LockHandedOn` | the lock is held exactly while a token is fetched, by the one that fetches | - |
| `ApkProbeProofs!TypeCorrect`, `LocalExclusionHolds`, `OwnProbeAvoidsScanHolds`, `QueueHolds` | the same names; the last: the lock's queue holds those that wait, each once | - |
| `ScannerClientsProofs!AllTypesHold`, `ReadyIsFreshHolds`, `ModelIsPhonesHolds` | AllTypesOK, ReadyIsFresh, ModelIsPhones | for the last, `~Roaming`: an address stays with its phone |
| `ScannerClientsProofs!LabelCountsRowsHolds`, `ButtonBackHolds` | the same names | - |
| `ScannerClientsProofs!RunNeverStuck` | no circle among the checks of a run | - |
| `ManagerControlProofs!TypeCorrect`, `NoDirectDuringHandoverHolds`, `ExitStopsDirectHolds`, `SwitchUnderNoDirectHolds` | the same names | - |
| `ManagerControlProofs!OperationShownHolds` | a result is shown by exactly one dialog, and no script goes on without the flag | - |
| `ConfigurationProofs!TypeCorrect`, `AllTypesHold` | TypeOK, AllTypesOK | - |
| `ConfigurationProofs!SwitchesAreSafe` | RowsAtHome, BoundOrRefused, EnvOpens | `ManagerOnly`: the installation was DEV's, nobody edits `.env` |
| `ConfigurationProofs!BindingIsSafe` | RowsAtHome, BoundOrRefused | `OneWorker`: the service alone; rows without a binding are DEV's |
| `ConfigurationProofs!SwitchOpensHolds` | SwitchOpens | - (the story begins with DEV) |
| `ConfigurationProofs!DeliveredAtHome` | RowsAtHome, BoundOrRefused | rows without a binding are DEV's |
| `ConfigurationProofs!EnvNamesFilesHolds` | EnvNamesFiles | - |
| `ConfigurationProofs!KeptAsAskedHolds` | KeptAsAsked | - |
| `SelfUpdateProofs!TypeCorrect`, `OutcomeTrueHolds`, `FailedStepHolds`, `ManagerReplacedHolds`, `OnlyVerifiedRunsHolds`, `SetupSupervisedHolds` | the same names | `PollsAssumption`: at least two polls follow the exit |

All hold for any workers, jobs, scans, projects, coroutines, origins, profiles, depths of dialogs, phones, polls and bounds. The constants'
assumptions are named in the modules and evaluated by every run.

*ScannerAgent.* That a row is dropped only once RADAR has its result is not inductive: what a worker is about to
delete was read several awaits ago. The invariant says that every row in a
snapshot, a post or among the late POSTs is either still the row of the table or
already taken by RADAR; that the token in it is not newer than the job's lease; and that a
worker past its flush has no row of its own. The last is what makes `put` never meet an older
row, hence the refinement: `Store` of `ResultDelivery` wants no
pending result of the job. `NeverRefusedHolds` is the other side of the finding `poisoned_outbox`: what the two
workers hold or have stored is of the newest lease as long as a job with a row is not given
out again (`LeaseInv`), so that crashes, time-outs and late POSTs alone never make a row RADAR has to refuse; it takes
another agent, or a RADAR that insists on a running lease.

*DastScan.* `NoOrphanScan` follows from a relation of `pc`, `checkpoint` and `reply`:
while polling, the polled scan is the checkpoint's; a reply exists only between
`POST /scan` and `put_checkpoint`. Freshness follows from `got >= base` for what
was fetched in this run and `engine >= base` once it is pushed.
`SecondOnlyBesideLost` says when the finding `dast_second_scan` can happen: only beside a scan whose answer
never became a checkpoint, or whose job was another project's for a time. Without these two, `NoSecondScanOtherwise`,
the sentence the run refutes is true.

*TokenAuth.* Only the lock's holder has a reply outstanding, the newest token
issued; therefore the cache grows. What a client sends has been issued, so an answer it waits for
is newer (`RetryInv`), and a retry takes nothing else. `expires` is at most `MaxLatency` beyond the
SSO's own expiry, which the margin covers. `LockHandedOn` is the safety half of `RequestsEnd`: no way out of a fetch, a failure or a cancellation
included, leaves the lock behind.

*ApkProbe.* The heartbeat's probe and a scan exclude each other because both follow from holding the
lock: between `_probe_lock` and the flag set under it there is no await. That the scanner works on no
probe of ours beside a testcase needs more, for a testcase may outlive its client: either `/health` has
said that it is over, or the heartbeat stood at the lock before it was given up (`GapInv`).

*Heartbeat.* A status of ready is set behind `/health` and leaves the two awaits at which the device
is still to be read only with `fresh` or as something else. For the model, what
the snapshot says is of one phone, and the cache holds a model only under that phone's
own serials (`PhoneInv`); the identity and the ADB serial of a snapshot are such serials.

*Diagnostics.* The counts in the label are read from what the UI thread has heard (`seen`), not from what
the checks have found (`results`), and between the two stand the queued signals. The invariant (`RunInv`)
ties the three together: the signals in the queue are in the order in which one check emits them, each
tells what the worker knows (`SignalsInv`); a result nobody has heard of is in the queue, and a row has a verdict
exactly when it was heard of (`BoardInv`); a run without checks has its end in the queue, behind every verdict
(`LabelInv`). So the summary, which is the last signal, finds all rows filled, and an error finds no check left.
What a row held before a run, or what `.env` says meanwhile, does not
matter: `run_checks` clears the table from the same steps it hands to the thread. `ButtonInv` is that a run and the lock of
an update exclude each other unless a run was started from the tray behind the question. `RunNeverStuck`
is the safety half of `EveryRunEnds`: the device waits for the scanner, `check_radar` for the token, and
neither is ever waited for in vain (`ChecksInv`), so that time-outs are all that liveness needs.

*ManagerControl.* Each of the three facts was checked some dialogs earlier than it is needed. The
invariant is about the stack of dialogs: the questions of an update and of a profile switch are
opened by the window only, which takes input only while no dialog is open; hence they are outermost
and alone, and while one is open no update is under way. A blocking query holds the event loop, so
what was read before it still stands behind it. From that the two facts about the tracked process (`Down`) are kept by every step.
`OperationShownHolds` is the safety half of `OperationEnds`: the flag that refuses further operations is
"shown" exactly while one dialog is open, at whatever depth, whose closing resets it.

*ProfileOutbox.* `SwitchesAreSafe` and `SwitchOpensHolds`: every file is given to one origin (`DatabasePath` is injective but for
`agent.db`, which only DEV is given), what `.env`, the Manager and a worker hold is such a pair, hence a
binding made between `Read` and `Bind` of another worker is the same. `BindingIsSafe` drops that: `.env` may
pair any origin with any file, and then what keeps rows at home is the refusal alone. It
holds for one worker; with two that open one file at once it does not (section 6). `DeliveredAtHome` puts the two together for the
stories the run tells: any workers through the Manager, the service alone under an administrator's edits.

*ConfigSave.* A save writes secret, key and `.env` in this order, and may fail or die between any two. `SaveInv` says
what each point of it may rely on: the secret is there once it was written, the key once it was
written if the form wants DAST, and what the script copied names a key that is there; a half written secret has its
writer at it, or one that was cut short. No write ever takes a secret or a key away. That the
files hold what was asked for (`KeptInv`) has a part for each field: while it is in no doubt, its file holds what is
wanted unless it is being written just now (`ClientInv`, `SecretInv`, `KeyInv`), and a script under way has a
copy of the same, so that it restores nothing else. A save beside the script has put every field in
doubt (`AloneInv`); a save that comes to its last write has written what was typed (`FormInv`), which is
why what it takes out of doubt is as wanted. The proof found an assumption that was missing: the content of a key is none of
the values for nothing and for a torn file (`ConfigSave!ConstantsAssumption`).

*SelfUpdate.* The Updater reads the registry first and asks for the process afterwards, so what
it concludes from may be older than the exit. The invariant bounds by how much: once begun,
a running Setup owns the registry; from its sleep of two seconds on, no poll still holds anything
older than that Setup's first write; polls are counted from the exit; hence behind an exit with a
final status only the first poll can still hold `installing`, and it is never the one
that gives up, for at least two are made. A success leaves no way to another Setup, so nothing
overwrites it and the Manager it installed stays. `FailedStep` and `OutcomeTrue` follow for
each of the two polls that conclude.

Every invariant and every action property of a passing run has a theorem, and so has the refinement. Only
model-checked: liveness (`ResultsDelivered`, `WorkersReturn`, `RunEnds`, `ProbesGoOn`, `ScanGetsLock`, `EveryRunEnds`, `RequestsEnd`, `StatusHeals`,
`OperationEnds`, `UpdateEnds`), for fairness and ENABLED are beyond the prover.

## 6. Findings

Each is a run that ends in a counterexample to a sentence of the repository; the
quotes are in `PROJECT.json`. For the first two, section 5 proves under which conditions they cannot happen.

| Run | What happens |
|---|---|
| poisoned_outbox | a result RADAR refuses for good blocks the claims of *both* workers, since every flush posts all rows and stops at the first failure |
| dast_second_scan | a crash between the engine's answer and `put_checkpoint` starts a second scan beside the first |
| service_beside_direct | service start and direct start overlap: both run |
| config_blank_secret | a save with the secret left blank changes it: one in clear in `.env` gives way to an old `client-secret.dpapi`, for the form has no field for it |
| diagnostics_total | Save or Reload during a run of the checks replaces `_active_diagnostic_steps`: the line counts to another total than its table has rows, and may read 5/4 |

`BlankKeeps` fails without a secret in clear, too (`Plaintext = FALSE`): a save of another client and secret
fails at `icacls`, the operator saves the first client again with the field blank, and `.env`
names that client over the secret of the other (`config_store.py:98-118`).

Other behaviour met while modelling. For the first group TLC gives a counterexample to the formula named
here, under the constants named; no sentence of the repository speaks of these cases, and the
runs check properties that hold without them:

* a second press of Run directly overwrites the handle of a running process, which then outlives the
  Manager (`alive = "no" => orphans = 0` with `MaxOrphans = 1`; `manager.py:1294`);
* an installation whose `agent.db` was bound to UAT before the profiles existed locks Development
  out: the file is given to DEV because it exists (`EnvOpens` with the origin of UAT in `LegacyOrigins`; `environment_profiles.py:99`);
* two workers that read different origins from an `.env` edited between their starts, with one new file: both
  find no binding, the second `INSERT OR IGNORE` is ignored, and it runs on the other's outbox
  (`BoundOrRefused` with both workers and `HandEdits`; `outbox.py:68`);
* with a scanner that reports no hardware serial the model is cached by the Wi-Fi address, and asked
  of whoever has it now: a phone that gets the address of another is reported with that one's
  model (`ModelIsPhones` with `Roaming = TRUE`; `scanner_client.py:206`, `216`);
* a save while the installation script runs may leave the client of one and the secret of the
  other (`KeptAsAsked` without the fields that `unsure` has from `beside`; `manager.py:1265`);
* a run of the checks that is started from the tray behind the question of an update, and ends while
  it is downloaded, leaves "Run checks" disabled (`ButtonBack` without its `~tray`; `manager.py:1442`).

The second group is part of the runs:

* a crash between `put` and `delete_checkpoint` (`job_runner.py:64-65`) leaves the checkpoint
  of a delivered job for ever; it counts as a pending item afterwards;
* a job of type `scan` fetches neither config nor collection (`dast_client.py:184`);
* a 404 while polling a scan this run started ends the job with an error, only a
  resumed one is started again (`dast_client.py:284`);
* diagnostics read `/health`, a testcase starts, their `GET /device` runs beside it (`diagnostics.py:187`);
* a device probe that outlasts its 20 s may run on in the scanner beside the next
  testcase (`scanner_client.py:239`), which no lock in the agent can prevent;
* the profile switch is held back by the service status `running` alone, not by a
  service that is starting or stopping (`manager.py:926`);
* the checks before the update's question are not made again after it, while the
  tray stays open under it (`manager.py:1120`, `1136`);
* a secret or key half written by a save that failed is accepted by the next one with the field
  blank, which looks only whether the file exists (`config_store.py:117`);
* once the Updater is started only Setup ends the Manager's lock (`manager.py:1201`): an Updater that
  cannot start its Setup, or is closed before it has, leaves a Manager that can neither work nor exit;
* a direct process that a killed Manager left behind keeps `radar-scanner-agent.exe` in use: the silent
  Setup of a retry skips the file and still reports success (`installer.nsi:179`, `216`).

## 7. Not modelled

* The heartbeat payload of the DAST worker (`dast_client.py:31-92`): a single request for the catalog
  between reading `_scan_in_progress` and sending, so that it may say ready while a scan has just begun; RADAR
  gives the worker no second job, its loop being busy with the first.
* The text checks of the testcase catalog (`scanner_client.py:36-67`), the choice among the properties of a
  phone, the release check and its URL rules, the quoting of `.env` values: pure functions on text.
* The pause after a 409 of `claim_job` (it only delays), cancellation at shutdown (a
  `Crash` covers its effect on the tables), log views, window building.
* DPAPI, TLS, paths, entry points, theme, build scripts: I/O without state of their own.

## 8. Plan

Done, in the order of their weight: `ScannerAgent` with `ResultDelivery` (results must not be lost),
`DastScan`, `ApkProbe`, `TokenAuth`, `ManagerControl`, `SelfUpdate`, then `ProfileOutbox`, `ConfigSave`,
`Heartbeat` and `Diagnostics`; proofs of all safety properties of the runs.

What liveness rests on is proved where it is about waiting: `QueueHolds`, `LockHandedOn`, `OperationShownHolds`,
`RunNeverStuck`; and of two findings, when they can happen (`NeverRefusedHolds`, `NoSecondScanOtherwise`). Next, proofs:
the same for the poll of `DastScan` and the end of `SelfUpdate`. Next, composition: `DastScan` as a refinement of one worker of `ScannerAgent`
(checkpoint and result of a job); `SelfUpdate` with the hand-over of `ManagerControl`. Next, models: the
heartbeat of the DAST worker, the release check as operators against a reference.

## 9. Running it

```
tlc -workers 2 -config AgentSafety.cfg MCScannerAgent
tlapm ScannerAgentProofs.tla
```

The module of each configuration is in `PROJECT.json` under `runs`; a name there that ends
in a violation is expected to.
