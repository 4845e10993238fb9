--------------------------- MODULE ManagerControl ----------------------------
(***************************************************************************)
(* Scanner Manager (manager.py): one UI thread, its background tasks, the  *)
(* Windows service and the direct Agent process it controls, the profile   *)
(* in .env, and the lock around a software update.                         *)
(*                                                                         *)
(* A modal dialog runs a nested event loop: it blocks the window, not the  *)
(* results of tasks, nor the tray menu, whose actions look at the update   *)
(* lock only (TrayController._refresh_actions).  A blocking query_service  *)
(* call is two steps of the UI thread, Query* and its answer, between which*)
(* the service goes on.  Dialogs after which nothing follows are left out.  *)
(* The package is an installed one: Manager and service share one .env.    *)
(***************************************************************************)
EXTENDS Naturals, Sequences

CONSTANTS
    Profiles,     \* environment profiles an operator selects
    QueryFails,   \* "yes": a service query may fail, and then answers "unknown"
    MaxModals,    \* bound: nested dialogs
    MaxOrphans    \* bound: direct processes the Manager lost

ASSUME BoundsAssumption ==
    /\ Profiles # {}
    /\ QueryFails \in {"yes", "no"}
    /\ MaxModals \in Nat
    /\ MaxOrphans \in Nat

VARIABLES
    alive,        \* the Manager: "yes", or "no" once it has ended
    svc,          \* SCM: state of the service
    env,          \* the profile in .env
    conf,         \* the profile in _settings, the Manager's copy of .env
    direct,       \* _direct_process: "none" or "running"
    orphans,      \* running direct processes _direct_process no longer names
    ui,           \* a query_service call of the UI thread and what follows it
    modals,       \* the open dialogs, the innermost last
    op,           \* _operation_running: "none", "running", "shown" (result dialog)
    todo,         \* what the operation's PowerShell script has still to do
    boot,         \* the profile the installation writes to .env
    diag,         \* _diagnostics_running
    status,       \* the "status" task: "idle", "asked" or its unread result
    shown,        \* the service status the buttons reflect
    shownDirect,  \* the direct process the buttons reflect
    update        \* _update_install_running: "none", "downloading", "handed"

agents   == <<svc, direct, orphans>>
worker   == <<op, todo, boot>>
profile  == <<env, conf>>
buttons  == <<shown, shownDirect>>
vars     == <<alive, profile, agents, ui, modals, worker, diag, status, buttons, update>>

Services == {"absent", "stopped", "starting", "running", "stopping"}
Answers  == Services \cup {"unknown"}
Kinds    == {"save", "install", "direct"}
Commands == {"down", "remove", "configure", "create", "up"}

NoProfile == CHOOSE p \in Profiles : TRUE

Idle == [at |-> "idle", kind |-> "save", profile |-> NoProfile, seen |-> "?"]

Calls == [at : {"idle", "first", "switch"}, kind : Kinds, profile : Profiles,
          seen : Answers \cup {"?"}]

Dialogs == [what : {"update", "result", "exit", "switch"}, kind : Kinds,
            profile : Profiles]

Dialog(w) == [what |-> w, kind |-> "save", profile |-> NoProfile]

TypeOK ==
    /\ alive \in {"yes", "no"}
    /\ svc \in Services
    /\ env \in Profiles /\ conf \in Profiles /\ boot \in Profiles
    /\ direct \in {"none", "running"}
    /\ orphans \in 0..MaxOrphans
    /\ ui \in Calls
    /\ modals \in Seq(Dialogs) /\ Len(modals) <= MaxModals
    /\ op \in {"none", "running", "shown"}
    /\ todo \in Seq(Commands)
    /\ diag \in {"no", "yes"}
    /\ status \in Answers \cup {"idle", "asked"}
    /\ shown \in Answers
    /\ shownDirect \in {"none", "running"}
    /\ update \in {"none", "downloading", "handed"}

Init ==
    /\ alive = "yes"
    /\ svc \in {"absent", "stopped", "running"}
    /\ env \in Profiles /\ conf = env /\ boot = env
    /\ direct = "none"
    /\ orphans = 0
    /\ ui = Idle
    /\ modals = <<>>
    /\ op = "none"
    /\ todo = <<>>
    /\ diag = "no"
    /\ status = "asked"
    /\ shown = "unknown"
    /\ shownDirect = "none"
    /\ update = "none"

-----------------------------------------------------------------------------
(* The event loop.                                                         *)

Locked == update # "none"

\* The UI thread takes an event (a nested loop does, too).
Loop == alive = "yes" /\ ui.at = "idle"

TrayFree   == Loop /\ ~Locked
WindowFree == Loop /\ ~Locked /\ modals = <<>>

Top  == modals[Len(modals)]
Rest == SubSeq(modals, 1, Len(modals) - 1)

Open(d) == Len(modals) < MaxModals /\ modals' = Append(modals, d)

\* refresh_status: a query already running is not started again.
Refresh == status' = IF status = "idle" THEN "asked" ELSE status

-----------------------------------------------------------------------------
(* The status task and its 4 s timer.                                      *)

RefreshTimer ==
    /\ Loop
    /\ Refresh
    /\ UNCHANGED <<alive, profile, agents, ui, modals, worker, diag, buttons, update>>

Answered(answer) == answer = svc \/ (QueryFails = "yes" /\ answer = "unknown")

StatusSampled ==
    /\ alive = "yes"
    /\ status = "asked"
    /\ \E answer \in Answers : Answered(answer) /\ status' = answer
    /\ UNCHANGED <<alive, profile, agents, ui, modals, worker, diag, buttons, update>>

Apply(answer) ==
    IF Locked THEN UNCHANGED buttons
    ELSE shown' = answer /\ shownDirect' = direct

\* Mutant: the task's key stays in _tasks.
StatusApplied_KeepsKey ==
    /\ Loop
    /\ status \in Answers
    /\ Apply(status)
    /\ UNCHANGED <<alive, profile, agents, ui, modals, worker, diag, status, update>>

StatusApplied ==
    /\ Loop
    /\ status \in Answers
    /\ Apply(status)
    /\ status' = "idle"
    /\ UNCHANGED <<alive, profile, agents, ui, modals, worker, diag, update>>

-----------------------------------------------------------------------------
(* Service operations on a worker thread; one at a time.                   *)

\* _run_operation: a second operation is ignored.
RunOperation(commands, p) ==
    IF op = "none" THEN op' = "running" /\ todo' = commands /\ boot' = p
    ELSE UNCHANGED worker

ServiceAction ==
    /\ TrayFree
    /\ \E commands \in {<<"up">>, <<"down">>, <<"down", "up">>} : RunOperation(commands, boot)
    /\ UNCHANGED <<alive, profile, agents, ui, modals, diag, status, buttons, update>>

\* The SCM state a command starts from, passes through and ends in.
Step == [up     |-> [from |-> "stopped", via |-> "starting", goal |-> "running"],
         down   |-> [from |-> "running", via |-> "stopping", goal |-> "stopped"],
         remove |-> [from |-> "stopped", via |-> "absent",   goal |-> "absent"],
         create |-> [from |-> "absent",  via |-> "stopped",  goal |-> "stopped"]]

\* The script goes on when the Manager has ended.
Issue ==
    /\ todo # <<>>
    /\ Head(todo) # "configure"
    /\ svc = Step[Head(todo)].from
    /\ svc' = Step[Head(todo)].via
    /\ UNCHANGED <<alive, profile, direct, orphans, ui, modals, worker, diag, status, buttons, update>>

Reached ==
    /\ todo # <<>>
    /\ Head(todo) # "configure"
    /\ \/ svc = Step[Head(todo)].goal
       \/ svc = "absent" /\ Head(todo) = "down"
    /\ todo' = Tail(todo)
    /\ UNCHANGED <<alive, profile, agents, ui, modals, op, boot, diag, status, buttons, update>>

\* install-service.ps1 writes .env with the profile of the bootstrap file.
Configure ==
    /\ todo # <<>>
    /\ Head(todo) = "configure"
    /\ env' = boot
    /\ todo' = Tail(todo)
    /\ UNCHANGED <<alive, conf, agents, ui, modals, op, boot, diag, status, buttons, update>>

\* Errors, and time-outs of 30, 40 and 90 s.
OperationFails ==
    /\ todo # <<>>
    /\ todo' = <<>>
    /\ UNCHANGED <<alive, profile, agents, ui, modals, op, boot, diag, status, buttons, update>>

\* The SCM (external) completes a transition.
SvcSettles ==
    /\ \/ svc = "starting" /\ svc' \in {"running", "stopped"}
       \/ svc = "stopping" /\ svc' = "stopped"
    /\ UNCHANGED <<alive, profile, direct, orphans, ui, modals, worker, diag, status, buttons, update>>

\* The result is shown in a dialog; the operation ends when that is closed.
OperationResult ==
    /\ Loop
    /\ op = "running"
    /\ todo = <<>>
    /\ op' = "shown"
    /\ Open(Dialog("result"))
    /\ UNCHANGED <<alive, profile, agents, ui, todo, boot, diag, status, buttons, update>>

-----------------------------------------------------------------------------
(* Saving the configuration, installing the service, running directly.     *)

\* What follows a saved configuration, by the button pressed: nothing (also when
\* the secret or the executable is missing), an operation, or a process.
Saved(kind, p) ==
    /\ env' = p
    /\ conf' = p
    /\ ui' = Idle
    /\ Refresh
    /\ \/ UNCHANGED <<agents, worker>>
       \/ /\ kind = "install"
          /\ RunOperation(<<"down", "remove", "configure", "create", "up">>, p)
          /\ UNCHANGED agents
       \/ /\ kind = "direct"
          /\ orphans' = IF direct = "running" THEN orphans + 1 ELSE orphans
          /\ direct' = "running"
          /\ UNCHANGED <<svc, worker>>

\* Mutant: the direct process is not looked at.
Save_Anyway(kind, p) ==
    \/ p = conf /\ Saved(kind, p)
    \/ /\ p # conf
       /\ ui' = [at |-> "switch", kind |-> kind, profile |-> p, seen |-> "?"]
       /\ UNCHANGED <<profile, agents, worker, status>>

\* save_configuration up to the query of _allow_environment_switch.
Save(kind, p) ==
    \/ p = conf /\ Saved(kind, p)
    \/ /\ p # conf
       /\ direct = "running"
       /\ ui' = Idle
       /\ UNCHANGED <<profile, agents, worker, status>>
    \/ /\ p # conf
       /\ direct # "running"
       /\ ui' = [at |-> "switch", kind |-> kind, profile |-> p, seen |-> "?"]
       /\ UNCHANGED <<profile, agents, worker, status>>

SaveButton(kind, p) ==
    /\ WindowFree
    /\ kind \in {"save", "install"}
    /\ Save(kind, p)
    /\ UNCHANGED <<alive, modals, diag, buttons, update>>

\* reload_configuration.
ReloadButton ==
    /\ WindowFree
    /\ conf' = env
    /\ Refresh
    /\ UNCHANGED <<alive, env, agents, ui, modals, worker, diag, buttons, update>>

\* start_direct asks for the service status first.
DirectButton(p) ==
    /\ WindowFree
    /\ shownDirect = "none"
    /\ shown # "running"
    /\ direct = "running" => orphans < MaxOrphans
    /\ ui' = [at |-> "first", kind |-> "direct", profile |-> p, seen |-> "?"]
    /\ UNCHANGED <<alive, profile, agents, modals, worker, diag, status, buttons, update>>

QueryReturns ==
    /\ alive = "yes"
    /\ ui.at # "idle"
    /\ ui.seen = "?"
    /\ \E answer \in Answers : Answered(answer) /\ ui' = [ui EXCEPT !.seen = answer]
    /\ UNCHANGED <<alive, profile, agents, modals, worker, diag, status, buttons, update>>

\* query_service raises, its answer blocks the request, or saving fails.
Blocked ==
    /\ alive = "yes"
    /\ ui.at # "idle"
    /\ ui' = Idle
    /\ UNCHANGED <<alive, profile, agents, modals, worker, diag, status, buttons, update>>

DirectAllowed ==
    /\ alive = "yes"
    /\ ui.at = "first"
    /\ ui.seen \notin {"?", "running"}
    /\ Save("direct", ui.profile)
    /\ UNCHANGED <<alive, modals, diag, buttons, update>>

\* With results pending in the old profile the operator is asked.
SwitchAllowed ==
    /\ alive = "yes"
    /\ ui.at = "switch"
    /\ ui.seen \notin {"?", "running"}
    /\ \/ Saved(ui.kind, ui.profile) /\ UNCHANGED modals
       \/ /\ Open([what |-> "switch", kind |-> ui.kind, profile |-> ui.profile])
          /\ ui' = Idle
          /\ UNCHANGED <<profile, agents, worker, status>>
    /\ UNCHANGED <<alive, diag, buttons, update>>

\* stop_direct: terminate, and kill after 8 s.
StopDirectButton ==
    /\ WindowFree
    /\ shownDirect = "running"
    /\ direct' = "none"
    /\ Refresh
    /\ UNCHANGED <<alive, profile, svc, orphans, ui, modals, worker, diag, buttons, update>>

\* A direct process ends by itself.
DirectExits ==
    /\ \/ direct = "running" /\ direct' = "none" /\ UNCHANGED orphans
       \/ orphans > 0 /\ orphans' = orphans - 1 /\ UNCHANGED direct
    /\ UNCHANGED <<alive, profile, svc, ui, modals, worker, diag, status, buttons, update>>

-----------------------------------------------------------------------------
(* Diagnostics, the software update, the exit.                             *)

RunChecks ==
    /\ TrayFree
    /\ diag = "no"
    /\ diag' = "yes"
    /\ UNCHANGED <<alive, profile, agents, ui, modals, worker, status, buttons, update>>

ChecksEnd ==
    /\ Loop
    /\ diag = "yes"
    /\ diag' = "no"
    /\ UNCHANGED <<alive, profile, agents, ui, modals, worker, status, buttons, update>>

UpdateButton ==
    /\ WindowFree
    /\ diag = "no"
    /\ op = "none"
    /\ Open(Dialog("update"))
    /\ UNCHANGED <<alive, profile, agents, ui, worker, diag, status, buttons, update>>

DownloadFails ==
    /\ Loop
    /\ update = "downloading"
    /\ update' = "none"
    /\ Refresh
    /\ UNCHANGED <<alive, profile, agents, ui, modals, worker, diag, buttons>>

\* Mutant: the direct process is left to Setup.
Downloaded_KeepsDirect ==
    /\ Loop
    /\ update = "downloading"
    /\ update' \in {"handed", "none"}
    /\ Refresh
    /\ UNCHANGED <<alive, profile, agents, ui, modals, worker, diag, buttons>>

\* _launch_downloaded_update: the direct process is stopped before the Updater
\* is started, which may fail.
Downloaded ==
    /\ Loop
    /\ update = "downloading"
    /\ direct' = "none"
    /\ update' \in {"handed", "none"}
    /\ Refresh
    /\ UNCHANGED <<alive, profile, svc, orphans, ui, modals, worker, diag, buttons>>

Quit == alive' = "no" /\ modals' = <<>>

\* Setup (external) kills the Manager when it gets that far.
SetupClosesManager ==
    /\ alive = "yes"
    /\ update = "handed"
    /\ Quit
    /\ UNCHANGED <<profile, agents, ui, worker, diag, status, buttons, update>>

ExitAction ==
    /\ TrayFree
    /\ \/ direct = "running" /\ Open(Dialog("exit")) /\ UNCHANGED alive
       \/ direct = "none" /\ Quit
    /\ UNCHANGED <<profile, agents, ui, worker, diag, status, buttons, update>>

-----------------------------------------------------------------------------
(* Answers to dialogs: the code behind exec() goes on.                     *)

Answer(what) == Loop /\ modals # <<>> /\ Top.what = what

Declined ==
    /\ \E what \in {"update", "switch", "exit"} : Answer(what)
    /\ modals' = Rest
    /\ UNCHANGED <<alive, profile, agents, ui, worker, diag, status, buttons, update>>

\* Mutant: the flag is not reset.
ResultClosed_FlagStays ==
    /\ Answer("result")
    /\ modals' = Rest
    /\ conf' = env
    /\ Refresh
    /\ UNCHANGED <<alive, env, agents, ui, worker, diag, buttons, update>>

\* _operation_finished, which reads .env again.
ResultClosed ==
    /\ Answer("result")
    /\ modals' = Rest
    /\ op' = "none"
    /\ conf' = env
    /\ Refresh
    /\ UNCHANGED <<alive, env, agents, ui, todo, boot, diag, buttons, update>>

UpdateConfirmed ==
    /\ Answer("update")
    /\ modals' = Rest
    /\ update' = "downloading"
    /\ UNCHANGED <<alive, profile, agents, ui, worker, diag, status, buttons>>

SwitchConfirmed ==
    /\ Answer("switch")
    /\ modals' = Rest
    /\ Saved(Top.kind, Top.profile)
    /\ UNCHANGED <<alive, diag, buttons, update>>

\* Mutant: the direct process is left running.
ExitConfirmed_KeepsDirect ==
    /\ Answer("exit")
    /\ Quit
    /\ UNCHANGED <<profile, agents, ui, worker, diag, status, buttons, update>>

ExitConfirmed ==
    /\ Answer("exit")
    /\ Quit
    /\ direct' = "none"
    /\ UNCHANGED <<profile, svc, orphans, ui, worker, diag, status, buttons, update>>

-----------------------------------------------------------------------------
QueryAnswered == QueryReturns \/ Blocked \/ DirectAllowed \/ SwitchAllowed

DialogAnswered ==
    \/ Declined \/ ResultClosed \/ UpdateConfirmed \/ SwitchConfirmed \/ ExitConfirmed

Next ==
    \/ RefreshTimer \/ StatusSampled \/ StatusApplied
    \/ ServiceAction \/ Issue \/ Reached \/ Configure \/ OperationFails \/ SvcSettles \/ OperationResult
    \/ \E kind \in {"save", "install"}, p \in Profiles : SaveButton(kind, p)
    \/ \E p \in Profiles : DirectButton(p)
    \/ QueryAnswered \/ ReloadButton \/ StopDirectButton \/ DirectExits
    \/ RunChecks \/ ChecksEnd
    \/ UpdateButton \/ DownloadFails \/ Downloaded \/ SetupClosesManager \/ ExitAction
    \/ DialogAnswered

Spec == Init /\ [][Next]_vars

Refreshed   == RefreshTimer \/ StatusApplied
ScriptStep  == Reached \/ Configure \/ OperationFails
ResultShown == OperationResult \/ ResultClosed

\* PowerShell calls end by their time-outs; Qt delivers queued results and
\* timers in order (strong: a blocking call may hold the UI thread again and
\* again), and the operator answers dialogs.
Fairness ==
    /\ WF_vars(QueryAnswered)
    /\ WF_vars(StatusSampled)
    /\ SF_vars(Refreshed)
    /\ WF_vars(ScriptStep)
    /\ SF_vars(ResultShown)
    /\ WF_vars(DialogAnswered)

FairSpec == Spec /\ Fairness

-----------------------------------------------------------------------------
(* Properties.                                                             *)

\* From the moment the Updater is started the direct process the Manager tracks
\* is down and stays down, whatever dialogs were open when the download ended
\* (docs/updates.md, step 5; manager.py 1187-1200).
NoDirectDuringHandover == update = "handed" => direct = "none"

\* A Manager that has ended, by the tray, the window or Setup, leaves no direct
\* process it tracked behind (manager.py 1562-1575).
ExitStopsDirect == alive = "no" => direct = "none"

\* The buttons do not go on showing another status than that of a service that
\* stays running: a refresh skipped because one was under way is made up for.
StatusHeals ==
    <>[](svc = "running" /\ alive = "yes" /\ ~Locked)
        => <>[](shown \in {"running", "unknown"})

\* An operation ends and lets the next one begin, with any dialogs above it.
OperationEnds == []<>(op = "none" \/ alive = "no")

\* Manager stops the service first, then runs the Agent directly (the message at
\* manager.py 1284): never both.
OneAgent == ~(svc = "running" /\ direct = "running")

\* Another profile is saved only while the direct process the Manager tracks is
\* down, however long the service query and the question about pending results
\* took (docs/operations.md 46, manager.py 914-945).
SwitchUnderNoDirect == [][conf' # conf /\ env' # env => direct = "none"]_vars

=============================================================================
