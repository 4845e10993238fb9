----------------------------- MODULE Diagnostics -----------------------------
(***************************************************************************)
(* One run of the Manager's diagnostics after the other: the checks are    *)
(* coroutines of a worker thread (run_diagnostics, diagnostics.py) which   *)
(* reports by queued Qt signals to the UI thread (manager.py 1335-1454).   *)
(* A software update may lock the UI meanwhile, and the configuration may  *)
(* be saved or read again.                                                 *)
(***************************************************************************)
EXTENDS Naturals, Sequences, FiniteSets

VARIABLES
    at,      \* where the coroutine of each check is
    dast,    \* whether the run checks the DAST engine: its settings
    token,   \* the result of token_task
    results, \* what run_diagnostics returns
    events,  \* signals on their way to the UI thread, in order
    conf,    \* whether the Manager's _settings enable DAST
    running, \* _diagnostics_running
    button,  \* whether "Run checks" is enabled
    steps,   \* _active_diagnostic_steps
    rows,    \* the table
    seen,    \* _diagnostic_results
    label,   \* diagnostic_summary_label
    update,  \* the software update
    tray     \* whether the platform's tray menu answers while a dialog is open

worker == <<at, dast, token, results>>
table  == <<steps, rows, seen, label>>
ui     == <<conf, running, button, table, update, tray>>
vars   == <<worker, events, ui>>

Keys     == {"sso", "scanner", "device", "dast", "radar"}
Verdicts == {"PASSED", "FAILED"}
Steps(on) == IF on THEN Keys ELSE Keys \ {"dast"}

Count(verdict, in)  == Cardinality({k \in Keys : in[k] = verdict})
Concluded(in)       == {k \in Keys : in[k] \in Verdicts}
Label(kind, done, total, passed) ==
    [kind |-> kind, done |-> done, total |-> total, passed |-> passed]

Started(k)      == [kind |-> "started", key |-> k]
Completed(k, v) == [kind |-> "completed", key |-> k, verdict |-> v]
Finished(r)     == [kind |-> "finished", results |-> r]
Failed          == [kind |-> "failed"]

\* What the worker thread may have emitted so far.
Emitted ==
    {Started(k) : k \in Keys} \cup {Completed(k, v) : k \in Keys, v \in Verdicts}
    \cup {Finished(results), Failed}

AllKeys(x) == [k \in Keys |-> x]

\* token_task has the verdict the table gets.
TypeOK ==
    /\ at \in [Keys -> {"none", "start", "token", "request", "end"}]
    /\ dast \in BOOLEAN
    /\ token \in {"none"} \cup Verdicts
    /\ results \in [Keys -> {"none"} \cup Verdicts]
    /\ \A i \in DOMAIN events : events[i] \in Emitted
    /\ token = results["sso"]
    /\ conf \in BOOLEAN
    /\ running \in BOOLEAN
    /\ button \in BOOLEAN
    /\ steps \in {Steps(TRUE), Steps(FALSE)}
    /\ rows \in [Keys -> {"none", "WAITING", "RUNNING"} \cup Verdicts]
    /\ seen \in [Keys -> {"none"} \cup Verdicts]
    /\ label \in [kind : {"idle", "running", "done", "failed"}, done : 0 .. 5, total : 0 .. 5, passed : 0 .. 5]
    /\ update \in {"none", "asked", "downloading", "handed"}
    /\ tray \in BOOLEAN

Init ==
    /\ at = AllKeys("none")
    /\ dast = FALSE
    /\ token = "none"
    /\ results = AllKeys("none")
    /\ events = <<>>
    /\ conf \in BOOLEAN
    /\ running = FALSE
    /\ button = TRUE
    /\ steps = Steps(conf)
    /\ rows = AllKeys("none")
    /\ seen = AllKeys("none")
    /\ label = Label("idle", 0, 0, 0)
    /\ update = "none"
    /\ tray \in BOOLEAN

-----------------------------------------------------------------------------
(* The worker thread: run_diagnostics.                                     *)

Emit(signals) == events' = events \o signals

\* The HTTP client cannot be made: the task fails before any check.
StartFails ==
    /\ at["sso"] = "start"
    /\ at' = AllKeys("none")
    /\ Emit(<<Failed>>)
    /\ UNCHANGED <<dast, token, results, ui>>

\* The tasks run to their first await one after the other.
ChecksStart ==
    /\ at["sso"] = "start"
    /\ at' = [k \in Keys |-> CASE k = "radar"  -> "token"
                              [] k = "device" -> "none"
                              [] k = "dast"   -> IF dast THEN "request" ELSE "end"
                              [] OTHER        -> "request"]
    /\ Emit(<<Started("sso"), Started("scanner"), Started("radar")>>
            \o IF dast THEN <<Started("dast")>> ELSE <<>>)
    /\ UNCHANGED <<dast, token, results, ui>>

\* A check whose last request is answered, in time or not.
Conclude(k, verdict) ==
    /\ at' = [at EXCEPT ![k] = "end"]
    /\ results' = [results EXCEPT ![k] = verdict]
    /\ Emit(<<Completed(k, verdict)>>)

\* Mutant: check_sso is true whenever it has ended.
SsoAnswers_AlwaysTrue ==
    /\ at["sso"] = "request"
    /\ \E v \in Verdicts : Conclude("sso", v)
    /\ token' = "PASSED"
    /\ UNCHANGED <<dast, ui>>

SsoAnswers ==
    /\ at["sso"] = "request"
    /\ \E v \in Verdicts : Conclude("sso", v) /\ token' = v
    /\ UNCHANGED <<dast, ui>>

\* A scanner that is ready is asked for the device; otherwise that is skipped.
ScannerAnswers ==
    /\ at["scanner"] = "request"
    /\ \/ /\ Emit(<<Completed("scanner", "PASSED"), Started("device")>>)
          /\ at' = [at EXCEPT !["scanner"] = "end", !["device"] = "request"]
          /\ results' = [results EXCEPT !["scanner"] = "PASSED"]
       \/ \E v \in Verdicts :
          /\ Emit(<<Completed("scanner", v), Started("device"), Completed("device", "FAILED")>>)
          /\ at' = [at EXCEPT !["scanner"] = "end", !["device"] = "end"]
          /\ results' = [results EXCEPT !["scanner"] = v, !["device"] = "FAILED"]
    /\ UNCHANGED <<dast, token, ui>>

\* check_device, check_dast and the request of check_radar.
Answers ==
    /\ \E k \in {"device", "dast", "radar"}, v \in Verdicts :
        at[k] = "request" /\ Conclude(k, v)
    /\ UNCHANGED <<dast, token, ui>>

\* Mutant: a failing SSO check does not wake check_radar.
RadarGoesOn_OnlyIssued ==
    /\ at["radar"] = "token"
    /\ token = "PASSED"
    /\ at' = [at EXCEPT !["radar"] = "request"]
    /\ UNCHANGED <<dast, token, results, events, ui>>

\* check_radar behind await token_task.
RadarGoesOn ==
    /\ at["radar"] = "token"
    /\ \/ /\ token = "PASSED"
          /\ at' = [at EXCEPT !["radar"] = "request"]
          /\ UNCHANGED <<results, events>>
       \/ token = "FAILED" /\ Conclude("radar", "FAILED")
    /\ UNCHANGED <<dast, token, ui>>

\* asyncio.gather has all results.
Gathered ==
    /\ \A k \in Keys : at[k] = "end"
    /\ at' = AllKeys("none")
    /\ Emit(<<Finished(results)>>)
    /\ UNCHANGED <<dast, token, results, ui>>

-----------------------------------------------------------------------------
(* The UI thread.                                                          *)

Locked == update \in {"downloading", "handed"}
Free   == ~Locked /\ (tray \/ update = "none")

\* Mutant: the table has the steps of the saved settings, not of the form.
RunChecks_SavedSteps ==
    /\ Free
    /\ ~running
    /\ running' = TRUE
    /\ button' = FALSE
    /\ dast' \in BOOLEAN
    /\ UNCHANGED steps
    /\ seen' = AllKeys("none")
    /\ rows' = [k \in Keys |-> IF k \in steps THEN "WAITING" ELSE "none"]
    /\ label' = Label("running", 0, Cardinality(steps), 0)
    /\ at' = AllKeys("start")
    /\ token' = "none"
    /\ results' = AllKeys("none")
    /\ UNCHANGED <<events, conf, update, tray>>

\* The button or the tray; the form need not have been saved.
RunChecks ==
    /\ Free
    /\ ~running
    /\ running' = TRUE
    /\ button' = FALSE
    /\ dast' \in BOOLEAN
    /\ steps' = Steps(dast')
    /\ seen' = AllKeys("none")
    /\ rows' = [k \in Keys |-> IF k \in steps' THEN "WAITING" ELSE "none"]
    /\ label' = Label("running", 0, Cardinality(steps'), 0)
    /\ at' = AllKeys("start")
    /\ token' = "none"
    /\ results' = AllKeys("none")
    /\ UNCHANGED <<events, conf, update, tray>>

Take(kind) ==
    /\ events # <<>>
    /\ Head(events).kind = kind
    /\ events' = Tail(events)

SetRow(k, text) ==
    rows' = IF rows[k] = "none" THEN rows ELSE [rows EXCEPT ![k] = text]

CheckStarted ==
    /\ Take("started")
    /\ SetRow(Head(events).key, "RUNNING")
    /\ UNCHANGED <<worker, conf, running, button, steps, seen, label, update, tray>>

CheckCompleted ==
    /\ Take("completed")
    /\ LET e == Head(events) IN
        /\ SetRow(e.key, e.verdict)
        /\ seen' = [seen EXCEPT ![e.key] = e.verdict]
        /\ label' = Label("running", Cardinality(Concluded(seen')), Cardinality(steps),
                          Count("PASSED", seen'))
    /\ UNCHANGED <<worker, conf, running, button, steps, update, tray>>

\* The common end of _diagnostics_finished and _diagnostics_failed.
Over ==
    /\ running' = FALSE
    /\ button' = (button \/ ~Locked)
    /\ UNCHANGED <<worker, conf, steps, rows, seen, update, tray>>

AllFinished ==
    /\ Take("finished")
    /\ LET r == Head(events).results IN
        label' = Label("done", Cardinality(Concluded(r)), Cardinality(Concluded(r)), Count("PASSED", r))
    /\ Over

\* Mutant: the button stays disabled after an error.
RunFailed_NoButton ==
    /\ Take("failed")
    /\ label' = Label("failed", 0, 0, 0)
    /\ running' = FALSE
    /\ UNCHANGED <<button, worker, conf, steps, rows, seen, update, tray>>

RunFailed ==
    /\ Take("failed")
    /\ label' = Label("failed", 0, 0, 0)
    /\ Over

\* Save, Reload and the end of a service operation set the steps of conf.
Reconfigured ==
    /\ Free
    /\ conf' \in BOOLEAN
    /\ steps' = Steps(conf')
    /\ UNCHANGED <<worker, events, running, button, rows, seen, label, update, tray>>

Ask ==
    /\ update = "none"
    /\ ~running
    /\ update' = "asked"
    /\ UNCHANGED <<worker, events, conf, running, button, table, tray>>

Confirmed ==
    /\ update = "asked"
    /\ update' \in {"downloading", "none"}
    /\ UNCHANGED <<worker, events, conf, running, button, table, tray>>

\* The Updater is opened, or the UI is free again.
Downloaded ==
    /\ update = "downloading"
    /\ update' \in {"handed", "none"}
    /\ UNCHANGED <<worker, events, conf, running, button, table, tray>>

\* Setup ends the Manager with its threads, and the new one is started.
Replaced ==
    /\ update = "handed"
    /\ update' = "none"
    /\ at' = AllKeys("none")
    /\ token' = "none"
    /\ results' = AllKeys("none")
    /\ events' = <<>>
    /\ running' = FALSE
    /\ button' = TRUE
    /\ steps' = Steps(conf)
    /\ rows' = AllKeys("none")
    /\ seen' = AllKeys("none")
    /\ label' = Label("idle", 0, 0, 0)
    /\ UNCHANGED <<dast, conf, tray>>

-----------------------------------------------------------------------------
Checks  == StartFails \/ ChecksStart \/ SsoAnswers \/ ScannerAnswers \/ Answers \/ RadarGoesOn \/ Gathered
Signals == CheckStarted \/ CheckCompleted \/ AllFinished \/ RunFailed

Next == Checks \/ Signals \/ RunChecks \/ Reconfigured \/ Ask \/ Confirmed \/ Downloaded \/ Replaced

Spec == Init /\ [][Next]_vars

\* Requests end by their time-outs (5 to 20 s) and Qt delivers queued signals, to a
\* nested event loop as well.
Fairness == WF_vars(Checks) /\ WF_vars(Signals)

FairSpec == Spec /\ Fairness

-----------------------------------------------------------------------------
(* Properties.                                                             *)

\* While the checks run, the line under the table counts the rows that have a verdict
\* and those that passed (of how many is the subject of LabelTotal); a summary stands
\* under a table whose every row has its verdict and counts them all
\* (manager.py 1425-1437; docs/operations.md 26).
LabelCountsRows ==
    /\ label.kind = "running" =>
        /\ label.done = Cardinality(Concluded(rows))
        /\ label.passed = Count("PASSED", rows)
    /\ label.kind = "done" =>
        /\ Concluded(rows) = {k \in Keys : rows[k] # "none"}
        /\ label.total = Cardinality(Concluded(rows))
        /\ label.passed = Count("PASSED", rows)

\* While the checks run, the line under the table says how many there are in the table
\* (manager.py 1352-1355; docs/operations.md 17-23: a fifth when DAST is enabled).
LabelTotal ==
    label.kind = "running" => label.total = Cardinality({k \in Keys : rows[k] # "none"})

\* With the UI free and no run under way, "Run checks" can be pressed, whatever lock
\* an update held meanwhile, if no run was started behind the update's question
\* (manager.py 1120, 1442; docs/updates.md 78).
ButtonBack == ~tray /\ ~running /\ ~Locked => button

\* Every run ends, with a summary or an error (manager.py 1433-1454).
EveryRunEnds == []<>~running
=============================================================================
