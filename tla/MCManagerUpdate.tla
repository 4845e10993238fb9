---------------------------- MODULE MCManagerUpdate ----------------------------
(***************************************************************************)
(* An instance for TLC of an update (SelfUpdate) and of the Manager left   *)
(* to itself (ManagerControl), for what must happen in the end.  A         *)
(* behaviour is one of either model; the variables of the other stay as    *)
(* they begin.                                                             *)
(***************************************************************************)
EXTENDS SelfUpdate

CONSTANTS Profiles, QueryFails, MaxModals, MaxOrphans

VARIABLES
    story,
    alive, service, env, conf, agent, orphans, ui, modals, op, todo, boot, diag, status,
    shown, shownAgent, update

M == INSTANCE ManagerControl WITH
    svc <- service, direct <- agent, shownDirect <- shownAgent

managerVars ==
    <<alive, service, env, conf, agent, orphans, ui, modals, op, todo, boot, diag, status,
      shown, shownAgent, update>>

all == <<story, vars, managerVars>>

MCInit ==
    /\ story \in {"update", "manager"}
    /\ Init
    /\ M!Init
    /\ story = "update" => service = "absent"
    /\ story = "manager" => /\ manager = "closed" /\ partial = "none" /\ svc = "absent"
                            /\ reg = [state |-> "none", of |-> "old", stage |-> "closing_manager"]

\* A step of the story that is told.
Either(step, managerStep) ==
    /\ UNCHANGED story
    /\ \/ story = "update" /\ step /\ UNCHANGED managerVars
       \/ story = "manager" /\ managerStep /\ UNCHANGED vars

MCNext == Either(Next, M!Next)

\* The fairness of both models: a story is never left.
MCFairness ==
    /\ WF_all(Either(Poll, M!QueryAnswered))
    /\ SF_all(Either(SetupStep, M!Refreshed))
    /\ SF_all(Either(FALSE, M!ResultShown))
    /\ WF_all(Either(FALSE, M!StatusSampled))
    /\ WF_all(Either(FALSE, M!ScriptStep))
    /\ WF_all(Either(FALSE, M!DialogAnswered))

MCFairSpec == MCInit /\ [][MCNext]_all /\ MCFairness

\* The buttons do not go on showing another status than that of a service that
\* stays running: a refresh skipped because one was under way is made up for
\* (manager.py 947-1037).
StatusHeals == M!StatusHeals

\* An operation ends and lets the next one begin, with any dialogs above it
\* (manager.py 1204-1230).
OperationEnds == M!OperationEnds
=============================================================================
