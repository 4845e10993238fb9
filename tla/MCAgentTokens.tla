----------------------------- MODULE MCAgentTokens -----------------------------
(***************************************************************************)
(* An instance for TLC of the token the coroutines share (TokenAuth) and   *)
(* of the workers that deliver results (ScannerAgent), for what must       *)
(* happen in the end.  A behaviour is one of either model; the variables   *)
(* of the other stay as they begin.                                        *)
(***************************************************************************)
EXTENDS TokenAuth, TLC

CONSTANTS
    Jobs, Owner, Dast, NoRow, MaxLease, MaxCrashes, AcceptsExpired, OtherAgents,
    apk, dast, job1, job2

VARIABLES
    story,
    rows, checkpoints, at, afterRun, batch, post, answer, hold, renewal, status, lease,
    accepted, late, crashes

\* The coroutines are those of the workers.
A == INSTANCE ScannerAgent WITH Workers <- Clients, pc <- at

agentVars ==
    <<rows, checkpoints, at, afterRun, batch, post, answer, hold, renewal, status, lease,
      accepted, late, crashes>>

all == <<story, vars, agentVars>>

OneJobEach == (job1 :> apk) @@ (job2 :> dast)

MCInit == story \in {"token", "agent"} /\ Init /\ A!Init

\* A step of the story that is told.
Either(tokens, agent) ==
    /\ UNCHANGED story
    /\ \/ story = "token" /\ tokens /\ UNCHANGED agentVars
       \/ story = "agent" /\ agent /\ UNCHANGED vars

MCNext == Either(Next, A!Next)

\* The fairness of both models: a story is never left.  That of ScannerAgent also has
\* RADAR refuse, one day, what it cannot take; nothing here needs it.
MCFairness ==
    \A c \in Clients :
        /\ SF_all(Either(Locked(c), A!RadarAccepts(c)))
        /\ WF_all(Either(FetchEnds(c), A!WorkerStep(c)))
        /\ WF_all(Either(SendEnds(c), A!RenewReturns(c)))

MCFairSpec == MCInit /\ [][MCNext]_all /\ MCFairness

\* Whatever the two workers, time-outs and restarts do, a stored result is in
\* the end taken by RADAR and removed (job_runner.py, outbox.py).
ResultsDelivered == A!ResultsDelivered

\* A worker always comes back to asking for work: no flush, renewal task or
\* failed call holds it for ever (service.py, job_runner.py).
WorkersReturn == story = "agent" => A!WorkersReturn
=============================================================================
