----------------------------- MODULE SelfUpdate -----------------------------
(***************************************************************************)
(* An update of an installed agent: the Manager downloads the Setup of the *)
(* newest release and starts the Updater (update_service.py), the Updater  *)
(* runs the Setup and follows it through the registry (updater.py), and    *)
(* the Setup closes the Manager, replaces the files and restarts the       *)
(* service (installer.nsi).  A failed Setup reopens the Manager beside the *)
(* Updater's window, so a second download and a retry may overlap.         *)
(***************************************************************************)
EXTENDS Naturals

CONSTANT MaxPolls    \* polls after the Setup's exit before the Updater gives up

ASSUME PollsAssumption == MaxPolls \in Nat \ {0, 1}

VARIABLES
    manager,     \* closed, idle in one of the two versions, or updating
    partial,     \* the .partial file in the updates directory
    installer,   \* the Setup file in the updates directory
    updater,     \* the Updater's window
    saw,         \* saw_installing_state
    polls,       \* post_exit_polls
    failed,      \* index of the step shown as failed, 0 for none
    seen,        \* the status a poll has read, before it looks at the process
    setup,       \* the section's place in the Setup the Updater started last
    exit,        \* whether that process runs, and how it ended
    upgrade,     \* $R9: a working service was found
    reg,         \* LastUpdateState, LastUpdateVersion, LastUpdateStage
    files,       \* versions of the executables in the installation
    svc,         \* the Windows service; "stale" is a registration without files
    direct       \* a direct process: of the open Manager, or left by a killed one

download == <<partial, installer>>
window   == <<updater, saw, polls, failed, seen>>
process  == <<setup, exit, upgrade>>
machine  == <<files, svc, direct>>
vars     == <<manager, partial, installer, updater, saw, polls, failed, seen, setup,
              exit, upgrade, reg, files, svc, direct>>

\* UPDATE_STEPS and _STAGE_INDEX: "start" is before the first write of the Setup,
\* "copying" the File instruction of the stage installing_files.
Stages == {"start", "closing_manager", "checking_service", "stopping_service",
           "installing_files", "copying", "starting_service", "verifying"}
StageIndex ==
    [s \in Stages |-> IF s \in {"start", "closing_manager"} THEN 1
                      ELSE IF s \in {"checking_service", "stopping_service"} THEN 2
                      ELSE IF s \in {"installing_files", "copying"} THEN 3
                      ELSE IF s = "starting_service" THEN 4
                      ELSE 5]

Status == [state : {"none", "installing", "success", "failed", "unread"},
           of : {"old", "new"}, stage : Stages]
Unread == [state |-> "unread", of |-> "old", stage |-> "start"]

\* No poll is between its two readings.
NoPoll == seen.state = "unread"

TypeOK ==
    /\ manager \in {"closed", "old", "new", "download", "launch", "handed"}
    /\ partial \in {"none", "part", "good", "bad"}
    /\ installer \in {"none", "part", "good"}
    /\ updater \in {"closed", "starting", "running", "failed", "success"}
    /\ saw \in BOOLEAN
    /\ polls \in 0..(MaxPolls - 1)
    /\ failed \in 0..5
    /\ seen \in Status
    /\ setup \in Stages
    /\ exit \in {"none", "running", "ok", "aborted", "died"}
    /\ upgrade \in BOOLEAN
    /\ reg \in Status /\ reg.state # "unread"
    /\ files \in [manager : {"old", "new", "missing"}, agent : {"old", "new"}]
    /\ svc \in {"absent", "running", "stopped", "stale"}
    /\ direct \in {"no", "own", "left"}

\* An installed older version.  Its registry is empty, or tells of that version's
\* own Setup, or of a Setup of the newer one that was refused or killed.
Init ==
    /\ manager \in {"closed", "old"}
    /\ partial \in {"none", "part"}
    /\ installer = "none"
    /\ updater = "closed"
    /\ saw = FALSE
    /\ polls = 0
    /\ failed = 0
    /\ seen = Unread
    /\ setup = "start"
    /\ exit = "none"
    /\ upgrade = FALSE
    /\ reg \in {[state |-> s, of |-> v, stage |-> "closing_manager"] :
                    s \in {"none", "installing", "failed"}, v \in {"old", "new"}}
               \cup {[state |-> "success", of |-> "old", stage |-> "verifying"]}
    /\ files = [manager |-> "old", agent |-> "old"]
    /\ svc \in {"absent", "running", "stopped", "stale"}
    /\ direct = "no"

-----------------------------------------------------------------------------
(* The Manager and its operator (ManagerControl has the details).          *)

Idle == manager \in {"old", "new"}

OpenManager ==
    /\ manager = "closed"
    /\ files.manager # "missing"
    /\ manager' = files.manager
    /\ UNCHANGED <<download, window, process, reg, machine>>

ExitManager ==
    /\ Idle
    /\ manager' = "closed"
    /\ direct' = IF direct = "own" THEN "no" ELSE direct
    /\ UNCHANGED <<download, window, process, reg, files, svc>>

StartAgent ==
    /\ Idle
    /\ \/ svc = "stopped" /\ svc' = "running" /\ UNCHANGED direct
       \/ svc # "running" /\ direct = "no" /\ direct' = "own" /\ UNCHANGED svc
    /\ UNCHANGED <<manager, download, window, process, reg, files>>

StopAgent ==
    /\ \/ Idle /\ svc = "running" /\ svc' = "stopped" /\ UNCHANGED direct
       \/ direct # "no" /\ direct' = "no" /\ UNCHANGED svc
    /\ UNCHANGED <<manager, download, window, process, reg, files>>

\* Update now, offered by a Manager older than the release.
UpdateNow ==
    /\ manager = "old"
    /\ manager' = "download"
    /\ partial' = "none"
    /\ UNCHANGED <<installer, window, process, reg, machine>>

\* Mutant: the release is written to its final name.
Receive_InPlace ==
    /\ manager = "download"
    /\ exit # "running"
    /\ \/ partial = "none" /\ partial' = "part" /\ installer' = "part"
       \/ partial = "part" /\ partial' = "good" /\ installer' = "good"
    /\ UNCHANGED <<manager, window, process, reg, machine>>

\* What arrives goes to .partial; whole, it has the release's checksum or not.
Receive ==
    /\ manager = "download"
    /\ \/ partial = "none" /\ partial' = "part"
       \/ partial = "part" /\ partial' \in {"good", "bad"}
    /\ UNCHANGED <<manager, installer, window, process, reg, machine>>

\* Also when the checksum differs, or the Setup to replace is running.
DownloadFails ==
    /\ manager = "download"
    /\ manager' = "old"
    /\ partial' = "none"
    /\ UNCHANGED <<installer, window, process, reg, machine>>

Downloaded ==
    /\ manager = "download"
    /\ partial = "good"
    /\ exit # "running"
    /\ installer' = "good"
    /\ partial' = "none"
    /\ manager' = "launch"
    /\ UNCHANGED <<window, process, reg, machine>>

\* The direct process is stopped, then the Updater copied next to the Setup and
\* started; the copy fails while an Updater of that version is open.
HandOver ==
    /\ manager = "launch"
    /\ direct' = IF direct = "own" THEN "no" ELSE direct
    /\ \/ /\ updater = "closed"
          /\ updater' = "starting"
          /\ failed' = 0
          /\ manager' = "handed"
       \/ /\ manager' = "old"
          /\ UNCHANGED <<updater, failed>>
    /\ UNCHANGED <<download, saw, polls, seen, process, reg, files, svc>>

-----------------------------------------------------------------------------
(* The Updater.                                                            *)

\* The timer of a new window, or Retry.
StartInstallation ==
    /\ updater \in {"starting", "failed"}
    /\ saw' = FALSE
    /\ polls' = 0
    /\ seen' = Unread
    /\ \/ /\ updater' = "running"
          /\ failed' = 0
          /\ setup' = "start"
          /\ exit' = "running"
          /\ upgrade' = FALSE
       \/ /\ updater' = "failed"
          /\ failed' = 1
          /\ UNCHANGED process
    /\ UNCHANGED <<manager, download, reg, machine>>

PollReads ==
    /\ updater = "running"
    /\ NoPoll
    /\ seen' = reg
    /\ UNCHANGED <<manager, download, updater, saw, polls, failed, process, reg, machine>>

\* Mutant: the status of any version counts.
Relevant_AnyVersion == seen.state # "none"

Relevant == seen.state # "none" /\ seen.of = "new"

Sees(state) == Relevant /\ seen.state = state

\* The rest of a poll: the status read before is used, then forgotten.
Polled ==
    /\ updater = "running"
    /\ ~NoPoll
    /\ saw' = (saw \/ Sees("installing"))
    /\ seen' = Unread
    /\ UNCHANGED <<manager, download, process, reg, machine>>

PollGoesOn ==
    /\ Polled
    /\ exit = "running"
    /\ UNCHANGED <<updater, polls, failed>>

PollSuccess ==
    /\ Polled
    /\ exit # "running"
    /\ Sees("success")
    /\ updater' = "success"
    /\ failed' = 0
    /\ UNCHANGED polls

PollFailure ==
    /\ Polled
    /\ exit # "running"
    /\ Sees("failed")
    /\ updater' = "failed"
    /\ failed' = StageIndex[seen.stage]
    /\ UNCHANGED polls

NoFinalStatus == ~ (Sees("success") \/ Sees("failed"))

\* Mutant: the polls after the exit are not counted.
PollWaits_NotCounted ==
    /\ Polled
    /\ exit # "running"
    /\ NoFinalStatus
    /\ UNCHANGED <<updater, polls, failed>>

PollWaits ==
    /\ Polled
    /\ exit # "running"
    /\ NoFinalStatus
    /\ polls + 1 < MaxPolls
    /\ polls' = polls + 1
    /\ UNCHANGED <<updater, failed>>

\* Mutant: a running Setup is given up as well.
PollGivesUp_Running ==
    /\ Polled
    /\ NoFinalStatus
    /\ updater' = "failed"
    /\ failed' = IF saw' /\ Relevant THEN StageIndex[seen.stage] ELSE 1
    /\ UNCHANGED polls

PollGivesUp ==
    /\ Polled
    /\ exit # "running"
    /\ NoFinalStatus
    /\ polls + 1 >= MaxPolls
    /\ updater' = "failed"
    /\ failed' = IF saw' /\ Relevant THEN StageIndex[seen.stage] ELSE 1
    /\ UNCHANGED polls

\* closeEvent refuses only while the Updater is installing: the window may also be
\* closed before its timer fires.
CloseUpdater ==
    /\ updater \in {"starting", "failed", "success"}
    /\ updater' = "closed"
    /\ UNCHANGED <<manager, download, saw, polls, failed, seen, process, reg, machine>>

-----------------------------------------------------------------------------
(* The Setup, run silently.                                                *)

Runs(at) == exit = "running" /\ setup = at

\* WriteRegStr of the next stage.
Goes(to) == setup' = to /\ reg' = [reg EXCEPT !.stage = to]

\* Mutant: the failure takes a stage of its own.
Fail_NewStage ==
    /\ reg' = [state |-> "failed", of |-> "new", stage |-> "closing_manager"]
    /\ exit' = "aborted"
    /\ manager' = IF manager = "closed" /\ files.manager # "missing"
                  THEN files.manager ELSE manager

\* Abort and .onInstFailed: the stage stays, the Manager is reopened (once).
Fail ==
    /\ reg' = [reg EXCEPT !.state = "failed", !.of = "new"]
    /\ exit' = "aborted"
    /\ manager' = IF manager = "closed" /\ files.manager # "missing"
                  THEN files.manager ELSE manager

SetupBegins ==
    /\ Runs("start")
    /\ setup' = "closing_manager"
    /\ reg' = [state |-> "installing", of |-> "new", stage |-> "closing_manager"]
    /\ UNCHANGED <<manager, download, window, exit, upgrade, machine>>

\* taskkill without /T leaves the direct process; the sleep of two seconds behind
\* it is longer than a poll takes.
SetupClosesManager ==
    /\ Runs("closing_manager")
    /\ NoPoll
    /\ manager' = "closed"
    /\ direct' = IF direct = "own" THEN "left" ELSE direct
    /\ Goes("checking_service")
    /\ UNCHANGED <<download, window, exit, upgrade, files, svc>>

\* A stale registration is deleted, a working service will be stopped.
SetupChecksService ==
    /\ Runs("checking_service")
    /\ \/ svc \in {"absent", "stale"} /\ svc' = "absent" /\ Goes("installing_files")
          /\ UNCHANGED upgrade
       \/ svc \in {"running", "stopped"} /\ upgrade' = TRUE /\ Goes("stopping_service")
          /\ UNCHANGED svc
    /\ UNCHANGED <<manager, download, window, exit, files, direct>>

SetupStopsService ==
    /\ Runs("stopping_service")
    /\ svc' = "stopped"
    /\ Goes("installing_files")
    /\ UNCHANGED <<manager, download, window, exit, upgrade, files, direct>>

\* Mutant: a Manager that was opened again is not noticed.
SetupDeletesManager_Anyway ==
    /\ Runs("installing_files")
    /\ setup' = "copying"
    /\ files' = IF manager = "closed" THEN [files EXCEPT !.manager = "missing"] ELSE files
    /\ UNCHANGED <<manager, download, window, exit, upgrade, reg, svc, direct>>

\* Delete cannot succeed on the executable of a running Manager.
SetupDeletesManager ==
    /\ Runs("installing_files")
    /\ manager = "closed"
    /\ setup' = "copying"
    /\ files' = [files EXCEPT !.manager = "missing"]
    /\ UNCHANGED <<manager, download, window, exit, upgrade, reg, svc, direct>>

\* File /r: a silent Setup skips a file it cannot write, always when it is in use.
SetupCopies ==
    /\ Runs("copying")
    /\ \E m \in {"new", files.manager}, a \in {"new", files.agent} :
        /\ manager # "closed" => m = files.manager
        /\ svc = "running" \/ direct # "no" => a = files.agent
        /\ files' = [manager |-> m, agent |-> a]
    /\ Goes("starting_service")
    /\ UNCHANGED <<manager, download, window, exit, upgrade, svc, direct>>

SetupStartsService ==
    /\ Runs("starting_service")
    /\ svc' = IF upgrade THEN "running" ELSE svc
    /\ Goes("verifying")
    /\ UNCHANGED <<manager, download, window, exit, upgrade, files, direct>>

SetupSucceeds ==
    /\ Runs("verifying")
    /\ files.manager # "missing"
    /\ reg' = [reg EXCEPT !.state = "success", !.of = "new"]
    /\ exit' = "ok"
    /\ manager' = IF manager = "closed" THEN files.manager ELSE manager
    /\ UNCHANGED <<download, window, setup, upgrade, machine>>

\* The places of Abort: the Manager cannot be closed, its executable not be deleted for
\* whatever reason, a service script fails, an executable is missing.
SetupAborts ==
    /\ exit = "running"
    /\ \/ setup = "closing_manager" /\ NoPoll
       \/ setup = "checking_service" /\ svc = "stale"
       \/ setup = "stopping_service"
       \/ setup = "installing_files" /\ files.manager # "missing"
       \/ setup = "starting_service" /\ upgrade
       \/ setup = "verifying" /\ files.manager = "missing"
    /\ Fail
    /\ UNCHANGED <<download, window, setup, upgrade, machine>>

\* Killed, or unable to start: nothing more is written.
SetupDies ==
    /\ exit = "running"
    /\ exit' = "died"
    /\ UNCHANGED <<manager, download, window, setup, upgrade, reg, machine>>

-----------------------------------------------------------------------------
ManagerStep ==
    \/ OpenManager \/ ExitManager \/ StartAgent \/ StopAgent
    \/ UpdateNow \/ Receive \/ DownloadFails \/ Downloaded \/ HandOver

Poll == PollReads \/ PollGoesOn \/ PollSuccess \/ PollFailure \/ PollWaits \/ PollGivesUp

SetupStep ==
    \/ SetupBegins \/ SetupClosesManager \/ SetupChecksService \/ SetupStopsService
    \/ SetupDeletesManager \/ SetupCopies \/ SetupStartsService \/ SetupSucceeds
    \/ SetupAborts

Next == ManagerStep \/ StartInstallation \/ Poll \/ CloseUpdater \/ SetupStep \/ SetupDies

Spec == Init /\ [][Next]_vars

\* The Updater's timer fires, and every wait of the Setup has a limit; a poll may
\* stand between the Setup and its next step again and again.
FairSpec == Spec /\ WF_vars(Poll) /\ SF_vars(SetupStep)

-----------------------------------------------------------------------------
(* PROPERTIES *)

\* The Updater reports success exactly when the Setup it started has ended with
\* it: not for what the registry holds of an earlier Setup, of this version or
\* another, and not when the Setup dies without a word.  (updater.py:287-321)
OutcomeTrue ==
    [][updater = "running" /\ updater' # "running" =>
        (updater' = "success" <=> exit = "ok")]_vars

\* The step shown as failed is the one the Setup was at when it aborted, in
\* whatever attempt.  (updater.py:72-81; .onInstFailed keeps the stage)
FailedStep ==
    [][updater = "running" /\ updater' = "failed" /\ exit = "aborted" =>
        failed' = StageIndex[setup]]_vars

\* Only a whole Setup with the release's checksum is run, also by a Retry that
\* kills the Manager in the middle of the next download.  (update_service.py:180-228)
OnlyVerifiedRuns == exit = "running" => installer = "good"

\* No success is recorded with an old or missing Manager, however often it is
\* opened again while the Setup works.  (docs/updates.md, 0.6.1)
ManagerReplaced == reg.state = "success" /\ reg.of = "new" => files.manager = "new"

\* While a Setup runs its Updater is there and takes no other step: it can be
\* neither closed nor retried.  (updater.py:330-352)
SetupSupervised == exit = "running" => updater = "running"

\* Every installation is concluded by the Updater's window, whatever becomes of
\* the Setup.
UpdateEnds == []<>(updater # "running")

=============================================================================
