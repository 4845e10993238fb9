-------------------------- MODULE SelfUpdateProofs --------------------------
(* Theorems about SelfUpdate, for any number of polls behind a Setup's exit. *)
EXTENDS SelfUpdate, TLAPS

Is(status, state) == status.state = state /\ status.of = "new"
Same(stage)       == StageIndex[stage] = StageIndex[setup]
Final             == IF exit = "ok" THEN "success" ELSE "failed"

\* There is a whole Setup file wherever one is about to be run.
Verified == updater # "closed" \/ manager = "launch" => installer = "good"

\* The registry is that of the running Setup once it has begun.
Working ==
    exit = "running" /\ setup # "start" => Is(reg, "installing") /\ Same(reg.stage)

\* From the Setup's sleep on, a poll has read nothing older.
Begun ==
    exit = "running" /\ setup \notin {"start", "closing_manager"} =>
        NoPoll \/ Is(seen, "installing")

\* Polls are counted from the exit.
Counted == exit = "running" => polls = 0

\* Behind an exit that left a final status, the first poll may still have read
\* the status before it.
Ended ==
    exit \in {"ok", "aborted"} /\ updater = "running" =>
        /\ Is(reg, Final)
        /\ Same(reg.stage)
        /\ \/ NoPoll
           \/ Is(seen, Final) /\ Same(seen.stage)
           \/ Is(seen, "installing") /\ polls = 0

\* While files are copied no older Manager can be open.
Copied ==
    exit = "running" /\ setup \in {"copying", "starting_service", "verifying"} =>
        manager \in {"closed", "new"} /\ files.manager \in {"missing", "new"}

\* A success is that of the last Setup, and nothing can start another.
Installed ==
    Is(reg, "success") \/ Is(seen, "success") \/ exit = "ok" =>
        /\ exit = "ok"
        /\ Is(reg, "success")
        /\ files.manager = "new"
        /\ manager \in {"closed", "new"}
        /\ updater \in {"running", "success", "closed"}

UpdateInv ==
    /\ SetupSupervised
    /\ Verified
    /\ Working
    /\ Begun
    /\ Counted
    /\ Ended
    /\ Copied
    /\ Installed

-----------------------------------------------------------------------------
\* A stage is shown as one of the five steps.
LEMMA StageIndexRange == StageIndex \in [Stages -> 1..5]
BY DEF StageIndex

\* Writing the next stage leaves a status that a Setup can have written.
LEMMA StageTyped ==
    ASSUME NEW status \in Status, status.state # "unread", NEW to \in Stages
    PROVE  /\ [status EXCEPT !.stage = to] \in Status
           /\ [status EXCEPT !.stage = to].state # "unread"
BY DEF Status

\* So does writing a final state.
LEMMA StateTyped ==
    ASSUME NEW status \in Status, NEW state \in {"success", "failed"}
    PROVE  /\ [status EXCEPT !.state = state, !.of = "new"] \in Status
           /\ [status EXCEPT !.state = state, !.of = "new"].state # "unread"
BY DEF Status

\* A step keeps the types.
LEMMA TypeStep == TypeOK /\ [Next]_vars => TypeOK'
<1> SUFFICES ASSUME TypeOK, [Next]_vars PROVE TypeOK'
  OBVIOUS
<1>a. MaxPolls \in Nat /\ MaxPolls >= 2
  BY PollsAssumption
<1>b. Unread \in Status
  BY DEF Unread, Status, Stages
<1> USE StageIndexRange, <1>a, <1>b DEF TypeOK, download, window, process, machine, Status, Stages
<1>1. ASSUME OpenManager PROVE TypeOK'
  BY <1>1 DEF OpenManager
<1>2. ASSUME ExitManager PROVE TypeOK'
  BY <1>2 DEF ExitManager, Idle
<1>3. ASSUME StartAgent PROVE TypeOK'
  BY <1>3 DEF StartAgent, Idle
<1>4. ASSUME StopAgent PROVE TypeOK'
  BY <1>4 DEF StopAgent, Idle
<1>5. ASSUME UpdateNow PROVE TypeOK'
  BY <1>5 DEF UpdateNow
<1>6. ASSUME Receive PROVE TypeOK'
  BY <1>6 DEF Receive
<1>7. ASSUME DownloadFails PROVE TypeOK'
  BY <1>7 DEF DownloadFails
<1>8. ASSUME Downloaded PROVE TypeOK'
  BY <1>8 DEF Downloaded
<1>9. ASSUME HandOver PROVE TypeOK'
  BY <1>9 DEF HandOver
<1>10. ASSUME StartInstallation PROVE TypeOK'
  <2>1. saw' = FALSE /\ polls' = 0 /\ seen' = Unread
        /\ UNCHANGED <<manager, partial, installer, reg, files, svc, direct>>
    BY <1>10 DEF StartInstallation
  <2>2. polls' \in 0..(MaxPolls - 1)
    BY ONLY <1>a, <2>1
  <2>8. saw' \in BOOLEAN
    BY ONLY <2>1
  <2>3. seen' \in Status
    BY ONLY <1>b, <2>1
  <2>4. updater' \in {"running", "failed"} /\ failed' \in 0..5
    BY <1>10 DEF StartInstallation
  <2>5. setup' \in Stages
    BY <1>10 DEF StartInstallation
  <2>6. exit' \in {"none", "running", "ok", "aborted", "died"}
    BY <1>10 DEF StartInstallation
  <2>7. upgrade' \in BOOLEAN
    BY <1>10 DEF StartInstallation
  <2> HIDE DEF Status, Stages
  <2> QED
    BY <2>1, <2>2, <2>3, <2>4, <2>5, <2>6, <2>7, <2>8
<1>11. ASSUME PollReads PROVE TypeOK'
  BY <1>11 DEF PollReads, NoPoll
<1>12. ASSUME PollGoesOn PROVE TypeOK'
  BY <1>12 DEF PollGoesOn, Polled, Sees, Relevant, NoPoll, Unread
<1>13. ASSUME PollSuccess PROVE TypeOK'
  BY <1>13 DEF PollSuccess, Polled, Sees, Relevant, NoPoll, Unread
<1>14. ASSUME PollFailure PROVE TypeOK'
  BY <1>14 DEF PollFailure, Polled, Sees, Relevant, NoPoll, Unread
<1>15. ASSUME PollWaits PROVE TypeOK'
  BY <1>15 DEF PollWaits, Polled, NoFinalStatus, Sees, Relevant, NoPoll, Unread
<1>16. ASSUME PollGivesUp PROVE TypeOK'
  BY <1>16 DEF PollGivesUp, Polled, NoFinalStatus, Sees, Relevant, NoPoll, Unread
<1>17. ASSUME CloseUpdater PROVE TypeOK'
  BY <1>17 DEF CloseUpdater
<1>18. ASSUME SetupBegins PROVE TypeOK'
  BY <1>18 DEF SetupBegins, Runs, Goes, Fail, NoPoll
<1>19. ASSUME SetupClosesManager PROVE TypeOK'
  BY <1>19 DEF SetupClosesManager, Runs, Goes, Fail, NoPoll
<1>20. ASSUME SetupChecksService PROVE TypeOK'
  <2>1. PICK to \in {"installing_files", "stopping_service"} :
            setup' = to /\ reg' = [reg EXCEPT !.stage = to]
    BY <1>20 DEF SetupChecksService, Goes
  <2>2. setup' \in Stages
    BY <2>1
  <2>3. svc' \in {"absent", "running", "stopped"} /\ upgrade' \in BOOLEAN
    BY <1>20 DEF SetupChecksService
  <2>4. UNCHANGED <<manager, partial, installer, updater, saw, polls, failed, seen, exit,
                    files, direct>>
    BY <1>20 DEF SetupChecksService
  <2> HIDE DEF Status, Stages
  <2>5. reg' \in Status /\ reg'.state # "unread"
    BY <2>1, <2>2, StageTyped
  <2> QED
    BY <2>2, <2>3, <2>4, <2>5
<1>21. ASSUME SetupStopsService PROVE TypeOK'
  BY <1>21 DEF SetupStopsService, Runs, Goes, Fail, NoPoll
<1>22. ASSUME SetupDeletesManager PROVE TypeOK'
  BY <1>22 DEF SetupDeletesManager, Runs, Goes, Fail, NoPoll
<1>23. ASSUME SetupCopies PROVE TypeOK'
  BY <1>23 DEF SetupCopies, Runs, Goes, Fail, NoPoll
<1>24. ASSUME SetupStartsService PROVE TypeOK'
  BY <1>24 DEF SetupStartsService, Runs, Goes, Fail, NoPoll
<1>25. ASSUME SetupSucceeds PROVE TypeOK'
  <2>1. reg' = [reg EXCEPT !.state = "success", !.of = "new"] /\ exit' = "ok"
    BY <1>25 DEF SetupSucceeds
  <2>2. manager' \in {"closed", "old", "new", "download", "launch", "handed"}
    BY <1>25 DEF SetupSucceeds
  <2>3. UNCHANGED <<partial, installer, updater, saw, polls, failed, seen, setup, upgrade,
                    files, svc, direct>>
    BY <1>25 DEF SetupSucceeds
  <2> HIDE DEF Status, Stages
  <2>4. reg' \in Status /\ reg'.state # "unread"
    BY <2>1, StateTyped
  <2> QED
    BY <2>1, <2>2, <2>3, <2>4
<1>26. ASSUME SetupAborts PROVE TypeOK'
  <2>1. reg' = [reg EXCEPT !.state = "failed", !.of = "new"] /\ exit' = "aborted"
    BY <1>26 DEF SetupAborts, Fail
  <2>2. manager' \in {"closed", "old", "new", "download", "launch", "handed"}
    BY <1>26 DEF SetupAborts, Fail
  <2>3. UNCHANGED <<partial, installer, updater, saw, polls, failed, seen, setup, upgrade,
                    files, svc, direct>>
    BY <1>26 DEF SetupAborts
  <2> HIDE DEF Status, Stages
  <2>4. reg' \in Status /\ reg'.state # "unread"
    BY <2>1, StateTyped
  <2> QED
    BY <2>1, <2>2, <2>3, <2>4
<1>27. ASSUME SetupDies PROVE TypeOK'
  BY <1>27 DEF SetupDies, Runs, Goes, Fail, NoPoll
<1>28. CASE UNCHANGED vars
  BY <1>28 DEF vars
<1> QED
  BY <1>1, <1>2, <1>3, <1>4, <1>5, <1>6, <1>7, <1>8, <1>9, <1>10, <1>11, <1>12,
     <1>13, <1>14, <1>15, <1>16, <1>17, <1>18, <1>19, <1>20, <1>21, <1>22, <1>23, <1>24,
     <1>25, <1>26, <1>27, <1>28
  DEF Next, ManagerStep, Poll, SetupStep

\* Every variable keeps its type.
THEOREM TypeCorrect == Spec => []TypeOK
<1>1. Init => TypeOK
  <2> SUFFICES ASSUME Init PROVE TypeOK
    OBVIOUS
  <2>1. polls \in 0..(MaxPolls - 1)
    BY PollsAssumption DEF Init
  <2>2. reg \in Status /\ reg.state # "unread" /\ seen \in Status
    BY DEF Init, Status, Stages, Unread
  <2>3. setup \in Stages
    BY DEF Init, Stages
  <2>4. files \in [manager : {"old", "new", "missing"}, agent : {"old", "new"}]
    BY DEF Init
  <2>5. saw \in BOOLEAN /\ upgrade \in BOOLEAN
    BY DEF Init
  <2>6. /\ manager \in {"closed", "old"} /\ partial \in {"none", "part"}
        /\ installer = "none" /\ updater = "closed" /\ failed = 0 /\ exit = "none"
        /\ svc \in {"absent", "running", "stopped", "stale"} /\ direct = "no"
    BY DEF Init
  <2>7. 0 \in 0..5
    OBVIOUS
  <2> QED
    BY <2>1, <2>2, <2>3, <2>4, <2>5, <2>6, <2>7 DEF TypeOK
<1> QED
  BY <1>1, TypeStep, PTL DEF Spec

-----------------------------------------------------------------------------
\* A step keeps the invariant.
LEMMA InvStep == TypeOK /\ UpdateInv /\ [Next]_vars => UpdateInv'
<1> SUFFICES ASSUME TypeOK, UpdateInv, [Next]_vars PROVE UpdateInv'
  OBVIOUS
<1>a. MaxPolls \in Nat /\ MaxPolls >= 2
  BY PollsAssumption
<1> USE <1>a DEF TypeOK, download, window, process, machine, Status, Stages, NoPoll,
                 UpdateInv, SetupSupervised, Verified, Working, Begun, Counted, Ended, Copied,
                 Installed, Is, Same, Final
<1>1. ASSUME OpenManager PROVE UpdateInv'
  BY <1>1 DEF OpenManager
<1>2. ASSUME ExitManager PROVE UpdateInv'
  BY <1>2 DEF ExitManager, Idle
<1>3. ASSUME StartAgent PROVE UpdateInv'
  BY <1>3 DEF StartAgent, Idle
<1>4. ASSUME StopAgent PROVE UpdateInv'
  BY <1>4 DEF StopAgent, Idle
<1>5. ASSUME UpdateNow PROVE UpdateInv'
  BY <1>5 DEF UpdateNow
<1>6. ASSUME Receive PROVE UpdateInv'
  BY <1>6 DEF Receive
<1>7. ASSUME DownloadFails PROVE UpdateInv'
  BY <1>7 DEF DownloadFails
<1>8. ASSUME Downloaded PROVE UpdateInv'
  BY <1>8 DEF Downloaded
<1>9. ASSUME HandOver PROVE UpdateInv'
  BY <1>9 DEF HandOver
<1>10. ASSUME StartInstallation PROVE UpdateInv'
  BY <1>10 DEF StartInstallation, Unread, NoPoll
<1>11. ASSUME PollReads PROVE UpdateInv'
  BY <1>11 DEF PollReads, NoPoll
<1>12. ASSUME PollGoesOn PROVE UpdateInv'
  BY <1>12 DEF PollGoesOn, Polled, Sees, Relevant, NoPoll, Unread
<1>13. ASSUME PollSuccess PROVE UpdateInv'
  BY <1>13 DEF PollSuccess, Polled, Sees, Relevant, NoPoll, Unread
<1>14. ASSUME PollFailure PROVE UpdateInv'
  BY <1>14 DEF PollFailure, Polled, Sees, Relevant, NoPoll, Unread
<1>15. ASSUME PollWaits PROVE UpdateInv'
  BY <1>15 DEF PollWaits, Polled, NoFinalStatus, Sees, Relevant, NoPoll, Unread
<1>16. ASSUME PollGivesUp PROVE UpdateInv'
  BY <1>16 DEF PollGivesUp, Polled, NoFinalStatus, Sees, Relevant, NoPoll, Unread
<1>17. ASSUME CloseUpdater PROVE UpdateInv'
  BY <1>17 DEF CloseUpdater
<1>18. ASSUME SetupBegins PROVE UpdateInv'
  BY <1>18 DEF SetupBegins, Runs, Goes, Fail, NoPoll
<1>19. ASSUME SetupClosesManager PROVE UpdateInv'
  BY <1>19 DEF SetupClosesManager, Runs, Goes, Fail, NoPoll
<1>20. ASSUME SetupChecksService PROVE UpdateInv'
  BY <1>20 DEF SetupChecksService, Runs, Goes, Fail, NoPoll
<1>21. ASSUME SetupStopsService PROVE UpdateInv'
  BY <1>21 DEF SetupStopsService, Runs, Goes, Fail, NoPoll
<1>22. ASSUME SetupDeletesManager PROVE UpdateInv'
  <2>1. /\ exit = "running" /\ setup = "installing_files" /\ setup' = "copying"
        /\ manager = "closed" /\ files'.manager = "missing"
        /\ UNCHANGED <<manager, partial, installer, updater, saw, polls, failed, seen, exit,
                       upgrade, reg>>
    BY <1>22 DEF SetupDeletesManager, Runs
  <2>2. StageIndex["copying"] = StageIndex["installing_files"]
    BY DEF StageIndex
  <2> QED
    BY <2>1, <2>2
<1>23. ASSUME SetupCopies PROVE UpdateInv'
  BY <1>23 DEF SetupCopies, Runs, Goes, Fail, NoPoll
<1>24. ASSUME SetupStartsService PROVE UpdateInv'
  BY <1>24 DEF SetupStartsService, Runs, Goes, Fail, NoPoll
<1>25. ASSUME SetupSucceeds PROVE UpdateInv'
  BY <1>25 DEF SetupSucceeds, Runs, Goes, Fail, NoPoll
<1>26. ASSUME SetupAborts PROVE UpdateInv'
  BY <1>26 DEF SetupAborts, Runs, Goes, Fail, NoPoll
<1>27. ASSUME SetupDies PROVE UpdateInv'
  BY <1>27 DEF SetupDies, Runs, Goes, Fail, NoPoll
<1>28. CASE UNCHANGED vars
  BY <1>28 DEF vars
<1> QED
  BY <1>1, <1>2, <1>3, <1>4, <1>5, <1>6, <1>7, <1>8, <1>9, <1>10, <1>11, <1>12,
     <1>13, <1>14, <1>15, <1>16, <1>17, <1>18, <1>19, <1>20, <1>21, <1>22, <1>23, <1>24,
     <1>25, <1>26, <1>27, <1>28
  DEF Next, ManagerStep, Poll, SetupStep

\* The invariant that relates the Updater, its Setup and the registry.
THEOREM UpdateInvariant == Spec => []UpdateInv
<1>1. Init => UpdateInv
  BY DEF Init, UpdateInv, SetupSupervised, Verified, Working, Begun, Counted, Ended, Copied,
         Installed, Is, NoPoll, Unread
<1> QED
  BY <1>1, InvStep, TypeCorrect, PTL DEF Spec

-----------------------------------------------------------------------------
\* While a Setup runs, its Updater waits for it.
THEOREM SetupSupervisedHolds == Spec => []SetupSupervised
<1>1. UpdateInv => SetupSupervised
  BY DEF UpdateInv
<1> QED
  BY <1>1, UpdateInvariant, PTL

\* Only a Setup with the release's checksum is run.
THEOREM OnlyVerifiedRunsHolds == Spec => []OnlyVerifiedRuns
<1>1. UpdateInv => OnlyVerifiedRuns
  BY DEF UpdateInv, OnlyVerifiedRuns, SetupSupervised, Verified
<1> QED
  BY <1>1, UpdateInvariant, PTL

\* No success is recorded with an old or missing Manager.
THEOREM ManagerReplacedHolds == Spec => []ManagerReplaced
<1>1. UpdateInv => ManagerReplaced
  BY DEF UpdateInv, ManagerReplaced, Installed, Is
<1> QED
  BY <1>1, UpdateInvariant, PTL

\* What the Updater shows when it stops waiting is what its Setup did, and the
\* failed step is the one at which the Setup aborted.
OutcomeStep ==
    updater = "running" /\ updater' # "running" =>
        /\ updater' = "success" <=> exit = "ok"
        /\ updater' = "failed" /\ exit = "aborted" => failed' = StageIndex[setup]

\* Only a poll that concludes takes the Updater out of its waiting.
LEMMA OnlyPollsConclude ==
    ASSUME [Next]_vars, updater = "running", updater' # "running"
    PROVE  PollSuccess \/ PollFailure \/ PollGivesUp
BY DEF Next, ManagerStep, Poll, SetupStep, vars, download, window, process, machine,
       OpenManager, ExitManager, StartAgent, StopAgent, UpdateNow, Receive, DownloadFails,
       Downloaded, HandOver, StartInstallation, PollReads, PollGoesOn, PollWaits, CloseUpdater,
       SetupBegins, SetupClosesManager, SetupChecksService, SetupStopsService,
       SetupDeletesManager, SetupCopies, SetupStartsService, SetupSucceeds, SetupAborts,
       SetupDies

\* A concluding poll agrees with the Setup.
LEMMA OutcomeStepHolds == TypeOK /\ UpdateInv /\ [Next]_vars => OutcomeStep
<1> SUFFICES ASSUME TypeOK, UpdateInv, [Next]_vars,
                    updater = "running", updater' # "running"
             PROVE  /\ updater' = "success" <=> exit = "ok"
                    /\ updater' = "failed" /\ exit = "aborted" => failed' = StageIndex[setup]
  BY DEF OutcomeStep
<1>1. CASE PollSuccess
  BY <1>1 DEF PollSuccess, Sees, Relevant, UpdateInv, Installed, Is
<1>2. CASE PollFailure
  BY <1>2 DEF PollFailure, Sees, Relevant, UpdateInv, Ended, Is, Same, Polled, NoPoll, Final
<1>3. CASE PollGivesUp
  \* The first poll behind a final status is not the last one that is waited for.
  <2>1. exit \notin {"ok", "aborted"}
    BY <1>3, PollsAssumption DEF PollGivesUp, NoFinalStatus, Sees, Relevant, UpdateInv,
       Ended, Is, Polled, NoPoll, Final
  <2> QED
    BY <1>3, <2>1 DEF PollGivesUp
<1> QED
  BY <1>1, <1>2, <1>3, OnlyPollsConclude

\* The Updater reports success exactly when its Setup has ended with it.
THEOREM OutcomeTrueHolds == Spec => OutcomeTrue
<1>1. TypeOK /\ UpdateInv /\ [Next]_vars =>
          (updater = "running" /\ updater' # "running" => (updater' = "success" <=> exit = "ok"))
  BY OutcomeStepHolds DEF OutcomeStep
<1> QED
  BY <1>1, TypeCorrect, UpdateInvariant, PTL DEF Spec, OutcomeTrue

\* The step shown as failed is the one at which the Setup aborted.
THEOREM FailedStepHolds == Spec => FailedStep
<1>1. TypeOK /\ UpdateInv /\ [Next]_vars =>
          (updater = "running" /\ updater' = "failed" /\ exit = "aborted" =>
              failed' = StageIndex[setup])
  BY OutcomeStepHolds DEF OutcomeStep
<1> QED
  BY <1>1, TypeCorrect, UpdateInvariant, PTL DEF Spec, FailedStep

=============================================================================
