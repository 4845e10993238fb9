--------------------------- MODULE DastScanProofs ---------------------------
(***************************************************************************)
(* Proofs about DastScan for every set of projects and scans and every     *)
(* bound: type correctness, that no scan of the job is forgotten by its    *)
(* checkpoint, that a verdict is a verdict of the job's own scan, and that *)
(* a legacy job scans with fresh material.                                 *)
(***************************************************************************)
EXTENDS DastScan, TLAPS

\* What Return leaves behind when its arguments are typed.
ReturnedTyped ==
    result' \in Result /\ result' # None /\ checkpoint' = None /\ pc' = "idle"

\* A stored result is a typed verdict.
LEMMA ReturnTyped ==
    ASSUME NEW v \in Verdicts, NEW s \in Scans \cup {None}, Return(v, s)
    PROVE  ReturnedTyped
  BY ConstantsAssumption DEF Return, Result, ReturnedTyped

\* Every engine status becomes one of the four verdicts.
LEMMA VerdictTyped == ASSUME NEW st PROVE VerdictOf(st) \in Verdicts
  BY DEF VerdictOf, Verdicts

\* The scan of a pending reply is one of the engine's.
LEMMA LostTyped ==
    ASSUME TypeOK
    PROVE  (IF reply = None THEN lost ELSE lost \cup {reply.scan}) \subseteq Scans
<1>1. reply # None => reply.scan \in Scans
  BY DEF TypeOK, Reply
<1> QED
  BY <1>1 DEF TypeOK

\* A 404 keeps the types, whether it restarts the scan or ends the run.
LEMMA MissingTyped == ASSUME TypeOK, ScanMissing PROVE TypeOK'
<1> USE DEF TypeOK, run, local, ghost
<1>1. UNCHANGED <<kind, project, run, reply, local, radar, ghost>>
  BY DEF ScanMissing
<1>2. CASE on404 = "restart"
  <2>1. checkpoint' = None /\ pc' = "post scan" /\ UNCHANGED result
    BY <1>2 DEF ScanMissing, StartAfresh
  <2> QED
    BY <1>1, <2>1
<1>3. CASE on404 # "restart"
  <2>1. ReturnedTyped
    BY <1>3, ReturnTyped DEF ScanMissing, Verdicts
  <2> QED
    BY <1>1, <2>1 DEF ReturnedTyped
<1> QED
  BY <1>2, <1>3

\* Every variable keeps its type.
THEOREM TypeCorrect == Spec => []TypeOK
<1>a. /\ MaxRuns \in Nat /\ MaxVersion \in Nat /\ MaxPolls \in Nat /\ MaxRestarts \in Nat
      /\ None \notin Scans
  BY ConstantsAssumption
<1>1. Init => TypeOK
  BY <1>a DEF Init, TypeOK, Material, Resource
<1>2. TypeOK /\ [Next]_vars => TypeOK'
  <2> SUFFICES ASSUME TypeOK, [Next]_vars PROVE TypeOK'
    OBVIOUS
  <2> USE DEF TypeOK, run, durable, local, ghost
  <2>1. ASSUME Claim PROVE TypeOK'
    <3>1. FetchPc["collection"] = "fetch collection" /\ FetchPc["config"] = "fetch config"
      BY DEF FetchPc
    <3>2. /\ pc' \in {"look", "fetch collection", "fetch config"}
          /\ lost' \subseteq Scans
          /\ cancel' = "clear"
          /\ project' \in Projects
          /\ base' = radar
      BY <2>1, <3>1 DEF Claim
    <3>4. runs' \in Nat
      BY <2>1, <1>a DEF Claim
    <3>3. UNCHANGED <<kind, durable, got, polled, on404, left, reply, local, radar>>
      BY <2>1 DEF Claim
    <3> QED
      BY <3>2, <3>3, <3>4
  <2>2. ASSUME NEW r \in Resource, Fetch(r) PROVE TypeOK'
    <3>1. pc' \in {"fetch collection", "post config", "post collection"}
      <4>1. CASE r = "config"
        BY <2>2, <4>1 DEF Fetch, PushPc
      <4>2. CASE r = "collection"
        BY <2>2, <4>2 DEF Fetch, PushPc
      <4> QED
        BY <4>1, <4>2 DEF Resource
    <3>2. got' \in Material
      BY <2>2 DEF Fetch, Material
    <3>3. UNCHANGED <<kind, project, durable, polled, on404, left, cancel, reply, local,
                      radar, ghost>>
      BY <2>2 DEF Fetch
    <3> QED
      BY <3>1, <3>2, <3>3
  <2>3. ASSUME FetchEmpty PROVE TypeOK'
    <3>1. ReturnedTyped
      BY <2>3, ReturnTyped DEF FetchEmpty, Verdicts
    <3>2. UNCHANGED <<kind, project, run, reply, local, radar, ghost>>
      BY <2>3 DEF FetchEmpty
    <3> QED
      BY <3>1, <3>2 DEF ReturnedTyped
  <2>4. ASSUME NEW r \in Resource, Push(r) PROVE TypeOK'
    <3>1. engine' \in Material
      BY <2>4 DEF Push, Material
    <3>2. UNCHANGED <<kind, project, run, reply, scan, of, restarts, radar, ghost>>
      BY <2>4 DEF Push
    <3>3. CASE kind = "legacy"
      <4>1. pc' \in {"post collection", "look"} /\ UNCHANGED durable
        BY <2>4, <3>3 DEF Push
      <4> QED
        BY <3>1, <3>2, <4>1
    <3>4. CASE kind # "legacy"
      <4>1. ReturnedTyped
        BY <2>4, <3>4, ReturnTyped DEF Push, Verdicts
      <4> QED
        BY <3>1, <3>2, <4>1 DEF ReturnedTyped
    <3> QED
      BY <3>3, <3>4
  <2>5. ASSUME Look PROVE TypeOK'
    <3>1. checkpoint # None => checkpoint.scan \in Scans
      BY DEF Checkpoint
    <3>2. UNCHANGED <<kind, project, result, got, cancel, reply, local, radar, ghost>>
      BY <2>5 DEF Look
    <3>3. CASE checkpoint # None /\ checkpoint.project = project
      BY <2>5, <1>a, <3>1, <3>2, <3>3 DEF Look, StartPolling
    <3>4. CASE ~(checkpoint # None /\ checkpoint.project = project)
      <4>1. checkpoint' = None /\ pc' = "post scan" /\ UNCHANGED <<polled, on404, left>>
        BY <2>5, <3>4 DEF Look, StartAfresh
      <4> QED
        BY <3>2, <4>1
    <3> QED
      BY <3>3, <3>4
  <2>6. ASSUME EngineStarts PROVE TypeOK'
    <3>1. PICK s \in Scans, st \in Ended \cup {"Running"} :
             /\ scan' = [scan EXCEPT ![s] = st]
             /\ of' = [of EXCEPT ![s] = project]
             /\ reply' = [scan |-> s, status |-> st]
      BY <2>6 DEF EngineStarts
    <3>2. reply' \in Reply
      BY <3>1 DEF Reply
    <3>3. scan' \in [Scans -> Ended \cup {"none", "Running", "gone"}] /\ of' \in [Scans -> Projects]
      BY <3>1
    <3>4. UNCHANGED <<kind, project, pc, durable, run, engine, restarts, radar, ghost>>
      BY <2>6 DEF EngineStarts
    <3> QED
      BY <3>2, <3>3, <3>4
  <2>7. ASSUME StartReturns PROVE TypeOK'
    <3>1. reply.scan \in Scans /\ reply \in Reply
      BY <2>7 DEF StartReturns, Reply
    <3>2. UNCHANGED <<kind, project, got, cancel, local, radar, ghost>> /\ reply' = None
      BY <2>7 DEF StartReturns
    <3>3. CASE reply.status = "Running"
      <4>1. checkpoint' \in Checkpoint
        <5>1. checkpoint' = [project |-> project, scan |-> reply.scan]
          BY <2>7, <3>3 DEF StartReturns
        <5> QED
          BY <3>1, <5>1 DEF Checkpoint
      <4>2. polled' \in Scans /\ on404' = "error" /\ left' = MaxPolls /\ pc' = "poll"
            /\ UNCHANGED result
        BY <2>7, <3>1, <3>3 DEF StartReturns, StartPolling
      <4>3. left' \in 0..MaxPolls
        BY ONLY <1>a, <4>2
      <4> QED
        BY <3>2, <4>1, <4>2, <4>3
    <3>4. CASE reply.status # "Running"
      <4>1. ReturnedTyped /\ UNCHANGED <<polled, on404, left>>
        BY <2>7, <3>1, <3>4, ReturnTyped, VerdictTyped DEF StartReturns
      <4> QED
        BY <3>2, <4>1 DEF ReturnedTyped
    <3> QED
      BY <3>3, <3>4
  <2>8. ASSUME PollTooLate PROVE TypeOK'
    <3>1. ReturnedTyped
      BY <2>8, ReturnTyped DEF PollTooLate, Verdicts
    <3>2. UNCHANGED <<kind, project, run, reply, local, radar, ghost>>
      BY <2>8 DEF PollTooLate
    <3> QED
      BY <3>1, <3>2 DEF ReturnedTyped
  <2>9. ASSUME PollCancel PROVE TypeOK'
    <3>1. CASE scan[polled] = "gone"
      BY <2>9, <3>1, MissingTyped DEF PollCancel
    <3>2. CASE scan[polled] # "gone"
      <4>1. PICK st \in {scan[polled], "Cancelled"} :
               scan' = [scan EXCEPT ![polled] = st] /\ Return(VerdictOf(st), polled)
        BY <2>9, <3>2 DEF PollCancel
      <4>2. ReturnedTyped
        BY <4>1, ReturnTyped, VerdictTyped
      <4>3. scan' \in [Scans -> Ended \cup {"none", "Running", "gone"}]
        <5>1. polled \in Scans /\ st \in Ended \cup {"none", "Running", "gone"}
          BY <2>9 DEF PollCancel, Ended
        <5> QED
          BY <4>1, <5>1
      <4>4. UNCHANGED <<kind, project, run, reply, of, engine, restarts, radar, ghost>>
        BY <2>9, <3>2 DEF PollCancel
      <4> QED
        BY <4>2, <4>3, <4>4 DEF ReturnedTyped
    <3> QED
      BY <3>1, <3>2
  <2>10. ASSUME PollRunning PROVE TypeOK'
    <3>1. left' \in 0..MaxPolls
      BY <2>10, <1>a DEF PollRunning
    <3>2. UNCHANGED <<kind, project, pc, durable, got, polled, on404, cancel, reply, local,
                      radar, ghost>>
      BY <2>10 DEF PollRunning
    <3> QED
      BY <3>1, <3>2
  <2>11. ASSUME PollGone PROVE TypeOK'
    BY <2>11, MissingTyped DEF PollGone
  <2>12. ASSUME PollEnded PROVE TypeOK'
    <3>1. ReturnedTyped
      BY <2>12, ReturnTyped, VerdictTyped DEF PollEnded
    <3>2. UNCHANGED <<kind, project, run, reply, local, radar, ghost>>
      BY <2>12 DEF PollEnded
    <3> QED
      BY <3>1, <3>2 DEF ReturnedTyped
  <2>13. ASSUME CallFails PROVE TypeOK'
    <3>1. ReturnedTyped
      BY <2>13, ReturnTyped DEF CallFails, Verdicts
    <3>2. lost' \subseteq Scans
      BY <2>13, LostTyped DEF CallFails
    <3>3. UNCHANGED <<kind, project, run, local, radar, base, runs>> /\ reply' = None
      BY <2>13 DEF CallFails
    <3> QED
      BY <3>1, <3>2, <3>3 DEF ReturnedTyped
  <2>14. ASSUME CancelRequested PROVE TypeOK'
    BY <2>14 DEF CancelRequested
  <2>15. ASSUME EngineEnds PROVE TypeOK'
    BY <2>15 DEF EngineEnds
  <2>16. ASSUME EngineRestarts PROVE TypeOK'
    <3>1. scan' \in [Scans -> Ended \cup {"none", "Running", "gone"}]
      BY <2>16 DEF EngineRestarts
    <3>2. restarts' = restarts + 1
      BY <2>16 DEF EngineRestarts
    <3>5. restarts \in Nat
      OBVIOUS
    <3>4. restarts' \in Nat
      BY ONLY <3>2, <3>5
    <3>3. UNCHANGED <<kind, project, pc, durable, run, reply, of, engine, radar, ghost>>
      BY <2>16 DEF EngineRestarts
    <3> QED
      BY <3>1, <3>3, <3>4
  <2>17. ASSUME MaterialChanges PROVE TypeOK'
    <3>1. radar' \in Material
      <4>1. PICK r \in Resource : radar[r] < MaxVersion /\ radar' = [radar EXCEPT ![r] = radar[r] + 1]
        BY <2>17 DEF MaterialChanges
      <4>2. radar[r] \in 0..MaxVersion
        BY DEF Material
      <4>3. radar[r] + 1 \in 0..MaxVersion
        BY ONLY <1>a, <4>1, <4>2
      <4> QED
        BY <4>1, <4>3 DEF Material
    <3>2. UNCHANGED <<kind, project, pc, durable, run, reply, local, ghost>>
      BY <2>17 DEF MaterialChanges
    <3> QED
      BY <3>1, <3>2
  <2>18. ASSUME OtherJobSyncs PROVE TypeOK'
    <3>1. engine' \in Material
      BY <2>18 DEF OtherJobSyncs, Material
    <3>2. UNCHANGED <<kind, project, pc, durable, run, reply, scan, of, restarts, radar, ghost>>
      BY <2>18 DEF OtherJobSyncs
    <3> QED
      BY <3>1, <3>2
  <2>19. ASSUME Crash PROVE TypeOK'
    <3>1. lost' \subseteq Scans
      BY <2>19, LostTyped DEF Crash
    <3>2. UNCHANGED <<kind, project, durable, local, radar, base, runs>>
          /\ reply' = None /\ pc' = "idle"
      BY <2>19 DEF Crash
    <3>3. got' = [r \in Resource |-> 0]
          /\ polled' = None /\ on404' = "error" /\ left' = 0 /\ cancel' = "clear"
      BY <2>19 DEF Crash
    <3>4. got' \in Material
      BY ONLY <3>3, <1>a DEF Material
    <3>5. left' \in 0..MaxPolls
      BY ONLY <3>3, <1>a
    <3> QED
      BY <3>1, <3>2, <3>3, <3>4, <3>5
  <2>20. CASE UNCHANGED vars
    BY ONLY TypeOK, <2>20 DEF vars, TypeOK
  <2> QED
    BY <2>1, <2>2, <2>3, <2>4, <2>5, <2>6, <2>7, <2>8, <2>9, <2>10, <2>11, <2>12, <2>13, <2>14, <2>15, <2>16, <2>17, <2>18, <2>19, <2>20 DEF Next, RunStep, Proceed, Poll
<1> QED
  BY <1>1, <1>2, PTL DEF Spec

-----------------------------------------------------------------------------
\* Where a run is tells what it knows of the engine's scans.
Remembered ==
    /\ reply # None =>
        /\ pc = "post scan"
        /\ of[reply.scan] = project
        /\ scan[reply.scan] # "none"
        /\ reply.status # "Running" => scan[reply.scan] \in {reply.status, "gone"}
    /\ checkpoint # None =>
        /\ of[checkpoint.scan] = checkpoint.project
        /\ scan[checkpoint.scan] # "none"
    /\ pc = "poll" =>
        checkpoint # None /\ checkpoint.scan = polled /\ checkpoint.project = project
    /\ pc = "post scan" => checkpoint = None
    /\ result # None => pc = "idle"
    /\ kind = "scan" => pc \in {"idle", "look", "post scan", "poll"}
    /\ \A s \in Scans \ lost : scan[s] # "none" => of[s] = project

OrphanInv == Remembered /\ NoOrphanScan

\* The part of the types the next proofs need.
Shapes ==
    /\ None \notin Scans
    /\ reply # None => reply.scan \in Scans /\ reply.status \in Ended \cup {"Running"}
    /\ checkpoint # None => checkpoint.scan \in Scans
    /\ scan \in [Scans -> Ended \cup {"none", "Running", "gone"}]
    /\ of \in [Scans -> Projects]
    /\ project \in Projects

\* Typed states have those shapes.
LEMMA ShapesHold == TypeOK => Shapes
  BY ConstantsAssumption DEF TypeOK, Shapes, Reply, Checkpoint

\* A returned result leaves no checkpoint to keep.
LEMMA ReturnKeeps ==
    ASSUME Shapes, OrphanInv, 
           NEW v \in Verdicts, NEW s \in Scans \cup {None}, Return(v, s),
           UNCHANGED <<kind, project, scan, of, lost>>, reply' = None
    PROVE  OrphanInv'
<1>1. ReturnedTyped
  BY ReturnTyped
<1> QED
  BY <1>1 DEF OrphanInv, Remembered, NoOrphanScan, ReturnedTyped

\* A polled scan that is gone leaves nothing to remember.
LEMMA MissingKeeps ==
    ASSUME Shapes, OrphanInv, pc = "poll", scan[polled] = "gone", ScanMissing
    PROVE  OrphanInv'
<1> USE DEF OrphanInv, Remembered, NoOrphanScan, Shapes
<1>1. UNCHANGED <<kind, project, reply, scan, of, lost>> /\ reply = None
  BY DEF ScanMissing, run, local, ghost
<1>2. CASE on404 = "restart"
  BY <1>1, <1>2 DEF ScanMissing, StartAfresh
<1>3. CASE on404 # "restart"
  BY <1>1, <1>3, ReturnKeeps DEF ScanMissing, Verdicts
<1> QED
  BY <1>2, <1>3

\* The invariant that keeps scans from being forgotten is inductive.
LEMMA OrphanStep == Shapes /\ OrphanInv /\ [Next]_vars => OrphanInv'
<1> SUFFICES ASSUME Shapes, OrphanInv, [Next]_vars PROVE OrphanInv'
  OBVIOUS
<1> USE DEF OrphanInv, Remembered, NoOrphanScan, Shapes, run, durable, local, ghost
<1>1. ASSUME Claim PROVE OrphanInv'
  <2>1. /\ pc' \in {"look", "fetch collection", "fetch config"}
        /\ kind = "scan" => pc' = "look"
    <3>1. FetchPc["collection"] = "fetch collection" /\ FetchPc["config"] = "fetch config"
      BY DEF FetchPc
    <3> QED
      BY <1>1, <3>1 DEF Claim
  <2>2. result = None /\ pc = "idle"
    BY <1>1 DEF Claim
  <2>3. lost' = lost \cup {s \in Scans : of[s] # project' /\ scan[s] # "none"}
    BY <1>1 DEF Claim
  <2>4. UNCHANGED <<kind, checkpoint, result, reply, scan, of>>
    BY <1>1 DEF Claim
  <2>5. reply = None
    BY <2>2
  <2>6. Remembered'
    <3>1. \A s \in Scans \ lost' : scan'[s] # "none" => of'[s] = project'
      BY <2>3, <2>4
    <3> QED
      BY ONLY <2>1, <2>2, <2>4, <2>5, <3>1, Remembered DEF Remembered
  <2>7. NoOrphanScan'
    BY <2>3, <2>4
  <2> QED
    BY <2>6, <2>7
<1>2. ASSUME NEW r \in Resource, Fetch(r) PROVE OrphanInv'
  <2>1. pc' \in {"fetch collection", "post config", "post collection"} /\ kind # "scan"
        /\ reply = None
    <3>1. CASE r = "config"
      BY <1>2, <3>1 DEF Fetch, FetchPc, PushPc
    <3>2. CASE r = "collection"
      BY <1>2, <3>2 DEF Fetch, FetchPc, PushPc
    <3> QED
      BY <3>1, <3>2 DEF Resource
  <2>2. UNCHANGED <<kind, project, checkpoint, result, polled, reply, scan, of, lost>>
    BY <1>2 DEF Fetch
  <2>3. pc # "idle"
    <3>1. FetchPc["config"] # "idle" /\ FetchPc["collection"] # "idle"
      BY DEF FetchPc
    <3> QED
      BY <1>2, <3>1 DEF Fetch, Resource
  <2> QED
    BY <2>1, <2>2, <2>3
<1>3. ASSUME FetchEmpty PROVE OrphanInv'
  <2>1. Return("pass", None)
    BY <1>3 DEF FetchEmpty
  <2>2. UNCHANGED <<kind, project, reply, scan, of, lost>> /\ reply = None
    BY <1>3 DEF FetchEmpty
  <2> QED
    BY <2>1, <2>2, ReturnKeeps, VerdictTyped DEF Verdicts
<1>4. ASSUME NEW r \in Resource, Push(r) PROVE OrphanInv'
  <2>1. pc \in {"post config", "post collection"}
    <3>1. PushPc["config"] = "post config" /\ PushPc["collection"] = "post collection"
      BY DEF PushPc
    <3> QED
      BY <1>4, <3>1 DEF Push, Resource
  <2>2. UNCHANGED <<kind, project, polled, reply, scan, of, lost>>
    BY <1>4 DEF Push
  <2>3. CASE kind = "legacy"
    <3>1. pc' \in {"post collection", "look"} /\ UNCHANGED durable
      BY <1>4, <2>3 DEF Push
    <3> QED
      BY <2>1, <2>2, <2>3, <3>1
  <2>4. CASE kind # "legacy"
    <3>1. Return("pass", None)
      BY <1>4, <2>4 DEF Push
    <3> QED
      BY <2>1, <2>2, <3>1, ReturnKeeps DEF Verdicts
  <2> QED
    BY <2>3, <2>4
<1>5. ASSUME Look PROVE OrphanInv'
  BY <1>5 DEF Look, StartAfresh, StartPolling
<1>6. ASSUME EngineStarts PROVE OrphanInv'
  <2>1. PICK s \in Scans, st \in Ended \cup {"Running"} :
           /\ scan[s] = "none"
           /\ scan' = [scan EXCEPT ![s] = st]
           /\ of' = [of EXCEPT ![s] = project]
           /\ reply' = [scan |-> s, status |-> st]
    BY <1>6 DEF EngineStarts
  <2>2. /\ UNCHANGED <<kind, project, pc, checkpoint, result, polled, lost>>
        /\ pc = "post scan" /\ reply = None /\ checkpoint = None /\ result = None
    BY <1>6 DEF EngineStarts
  <2>3. /\ scan'[s] = st /\ of'[s] = project /\ st # "none"
        /\ reply'.scan = s /\ reply'.status = st /\ reply' # None
        /\ \A t \in Scans : t # s => scan'[t] = scan[t] /\ of'[t] = of[t]
    <3>1. None # [scan |-> s, status |-> st]
      <4>1. [scan |-> s, status |-> st] \in Reply
        BY <2>1 DEF Reply
      <4> QED
        BY <4>1, ConstantsAssumption
    <3>2. st # "none"
      BY DEF Ended
    <3> QED
      BY <2>1, <3>1, <3>2
  <2>4. Remembered'
    BY <2>2, <2>3
  <2>5. NoOrphanScan'
    BY <2>2, <2>3
  <2> QED
    BY <2>4, <2>5
<1>7. ASSUME StartReturns PROVE OrphanInv'
  <2>1. /\ pc = "post scan" /\ reply # None /\ reply' = None /\ result = None
        /\ UNCHANGED <<kind, project, scan, of, lost>>
        /\ checkpoint = None
    BY <1>7 DEF StartReturns
  <2>2. CASE reply.status = "Running"
    <3>1. checkpoint' = [project |-> project, scan |-> reply.scan]
          /\ polled' = reply.scan /\ pc' = "poll" /\ result' = result
      BY <1>7, <2>2 DEF StartReturns, StartPolling
    <3>0. checkpoint' # None /\ checkpoint'.scan = reply.scan /\ checkpoint'.project = project
      <4>1. [project |-> project, scan |-> reply.scan] \in Checkpoint
        BY <2>1 DEF Checkpoint
      <4> QED
        BY <3>1, <4>1, ConstantsAssumption
    <3>2. Remembered'
      BY <2>1, <2>2, <3>0, <3>1
    <3>3. NoOrphanScan'
      BY <2>1, <2>2, <3>0, <3>1
    <3> QED
      BY <3>2, <3>3
  <2>3. CASE reply.status # "Running"
    <3>1. Return(VerdictOf(reply.status), reply.scan)
      BY <1>7, <2>3 DEF StartReturns
    <3> QED
      BY <2>1, <3>1, ReturnKeeps, VerdictTyped
  <2> QED
    BY <2>2, <2>3
<1>8. ASSUME PollTooLate PROVE OrphanInv'
  <2>1. Return("error", None)
    BY <1>8 DEF PollTooLate
  <2>2. UNCHANGED <<kind, project, reply, scan, of, lost>> /\ reply = None
    BY <1>8 DEF PollTooLate
  <2> QED
    BY <2>1, <2>2, ReturnKeeps, VerdictTyped DEF Verdicts
<1>9. ASSUME PollCancel PROVE OrphanInv'
  <2>1. CASE scan[polled] = "gone"
    <3>1. ScanMissing /\ pc = "poll"
      BY <1>9, <2>1 DEF PollCancel
    <3> QED
      BY <2>1, <3>1, MissingKeeps
  <2>2. CASE scan[polled] # "gone"
    <3>1. PICK st \in {scan[polled], "Cancelled"} :
             scan' = [scan EXCEPT ![polled] = st] /\ Return(VerdictOf(st), polled)
      BY <1>9, <2>2 DEF PollCancel
    <3>2. /\ UNCHANGED <<kind, project, reply, of, lost>> /\ reply = None
          /\ polled \in Scans /\ scan[polled] # "none" /\ of[polled] = project
      BY <1>9, <2>2 DEF PollCancel
    <3>3. \A s \in Scans : scan'[s] = scan[s] \/ s = polled
      BY <3>1
    <3>4. Remembered'
      <4>1. \A s \in Scans \ lost' : scan'[s] # "none" => of'[s] = project'
        BY <3>2, <3>3
      <4>2. result' # None /\ checkpoint' = None /\ pc' = "idle"
        BY <3>1, <3>2, ReturnTyped, VerdictTyped DEF ReturnedTyped
      <4> QED
        BY <3>2, <4>1, <4>2
    <3>5. NoOrphanScan'
      BY <3>1, <3>2, ReturnTyped, VerdictTyped DEF ReturnedTyped
    <3> QED
      BY <3>4, <3>5
  <2> QED
    BY <2>1, <2>2
<1>10. ASSUME PollRunning PROVE OrphanInv'
  BY <1>10 DEF PollRunning
<1>11. ASSUME PollGone PROVE OrphanInv'
  <2>1. ScanMissing /\ pc = "poll" /\ scan[polled] = "gone"
    BY <1>11 DEF PollGone
  <2> QED
    BY <2>1, MissingKeeps
<1>12. ASSUME PollEnded PROVE OrphanInv'
  <2>1. Return(VerdictOf(scan[polled]), polled)
    BY <1>12 DEF PollEnded
  <2>2. UNCHANGED <<kind, project, reply, scan, of, lost>> /\ reply = None
        /\ polled \in Scans
    BY <1>12 DEF PollEnded
  <2>3. VerdictOf(scan[polled]) \in Verdicts
    BY VerdictTyped
  <2> QED
    BY <2>1, <2>2, <2>3, ReturnKeeps
<1>13. ASSUME CallFails PROVE OrphanInv'
  <2>1. /\ Return("error", None) /\ reply' = None /\ lost \subseteq lost'
        /\ UNCHANGED <<kind, project, scan, of>>
    BY <1>13 DEF CallFails
  <2>2. result' # None /\ checkpoint' = None /\ pc' = "idle"
    BY <2>1, ReturnTyped DEF ReturnedTyped, Verdicts
  <2>3. \A s \in Scans \ lost' : scan'[s] # "none" => of'[s] = project'
    BY <2>1
  <2> QED
    BY <2>1, <2>2, <2>3
<1>14. ASSUME CancelRequested PROVE OrphanInv'
  BY <1>14 DEF CancelRequested
<1>15. ASSUME EngineEnds PROVE OrphanInv'
  <2>1. PICK s \in Scans, st \in Ended :
           scan[s] = "Running" /\ scan' = [scan EXCEPT ![s] = st]
    BY <1>15 DEF EngineEnds
  <2>2. UNCHANGED <<kind, project, pc, checkpoint, result, polled, reply, of, lost>>
    BY <1>15 DEF EngineEnds
  <2>3. /\ st \notin {"none", "Running", "gone"}
        /\ \A t \in Scans : scan'[t] = scan[t] \/ (scan[t] = "Running" /\ scan'[t] \in Ended)
    BY <2>1 DEF Ended
  <2>4. \A t \in Scans : scan'[t] # scan[t] => scan[t] = "Running"
                            /\ scan'[t] \notin {"none", "Running", "gone"}
    BY <2>3 DEF Ended
  <2>5. reply # None /\ reply.status # "Running" => scan'[reply.scan] = scan[reply.scan]
    <3>1. reply # None => reply.status \in Ended \cup {"Running"}
      OBVIOUS
    <3> QED
      BY <2>4, <3>1 DEF Ended
  <2>6. Remembered'
    BY <2>2, <2>4, <2>5
  <2>7. NoOrphanScan'
    BY <2>2, <2>4
  <2> QED
    BY <2>6, <2>7
<1>16. ASSUME EngineRestarts PROVE OrphanInv'
  BY <1>16 DEF EngineRestarts
<1>17. ASSUME MaterialChanges PROVE OrphanInv'
  BY <1>17 DEF MaterialChanges
<1>18. ASSUME OtherJobSyncs PROVE OrphanInv'
  BY <1>18 DEF OtherJobSyncs
<1>19. ASSUME Crash PROVE OrphanInv'
  BY <1>19 DEF Crash
<1>20. CASE UNCHANGED vars
  BY <1>20 DEF vars
<1> QED
  BY <1>1, <1>2, <1>3, <1>4, <1>5, <1>6, <1>7, <1>8, <1>9, <1>10, <1>11, <1>12, <1>13, <1>14, <1>15, <1>16, <1>17, <1>18, <1>19, <1>20 DEF Next, RunStep, Proceed, Poll

\* A scan the engine runs for the job is remembered, for any scans and projects.
THEOREM NoOrphanScanHolds == Spec => []NoOrphanScan
<1>1. Init => OrphanInv
  BY DEF Init, OrphanInv, Remembered, NoOrphanScan
<1>2. TypeOK /\ OrphanInv /\ [Next]_vars => OrphanInv'
  BY OrphanStep, ShapesHold
<1> QED
  BY <1>1, <1>2, TypeCorrect, PTL DEF Spec, OrphanInv

-----------------------------------------------------------------------------
\* A missing scan is no verdict.
LEMMA MissingIsError ==
    ScanMissing => result' = result \/ result'.verdict = "error"
<1>1. ScanMissing /\ on404 = "restart" => result' = result
  BY DEF ScanMissing
<1>2. ScanMissing /\ on404 # "restart" => result'.verdict = "error"
  BY DEF ScanMissing, Return
<1> QED
  BY <1>1, <1>2

\* VerdictIsOurs, of one step.
VerdictStep ==
    (result = None /\ result' # None /\ result'.verdict # "error"
        /\ kind \in {"scan", "legacy"}) =>
    LET s == result'.scan IN
        /\ s # None
        /\ of[s] = project
        /\ scan'[s] = "gone" \/ VerdictOf(scan'[s]) = result'.verdict

\* Every step that ends a scan job reports the polled or just started scan.
LEMMA VerdictStepHolds == Shapes /\ OrphanInv /\ [Next]_vars => VerdictStep
<1> SUFFICES ASSUME Shapes, OrphanInv, [Next]_vars PROVE VerdictStep
  OBVIOUS
<1> USE DEF VerdictStep, OrphanInv, Remembered, Shapes, durable, local
<1>1. ASSUME Claim PROVE VerdictStep
  BY <1>1 DEF Claim
<1>2. ASSUME NEW r \in Resource, Fetch(r) PROVE VerdictStep
  BY <1>2 DEF Fetch
<1>3. ASSUME FetchEmpty PROVE VerdictStep
  BY <1>3 DEF FetchEmpty
<1>4. ASSUME NEW r \in Resource, Push(r) PROVE VerdictStep
  <2>1. kind = "legacy" => result' = result
    BY <1>4 DEF Push
  <2>2. kind # "scan"
    <3>1. PushPc["config"] = "post config" /\ PushPc["collection"] = "post collection"
      BY DEF PushPc
    <3> QED
      BY <1>4, <3>1 DEF Push, Resource
  <2> QED
    BY <2>1, <2>2
<1>5. ASSUME Look PROVE VerdictStep
  BY <1>5 DEF Look
<1>6. ASSUME EngineStarts PROVE VerdictStep
  BY <1>6 DEF EngineStarts
<1>7. ASSUME StartReturns PROVE VerdictStep
  <2>1. reply # None /\ scan' = scan
    BY <1>7 DEF StartReturns
  <2>2. CASE reply.status = "Running"
    BY <1>7, <2>2 DEF StartReturns
  <2>3. CASE reply.status # "Running"
    <3>1. result' = [verdict |-> VerdictOf(reply.status), scan |-> reply.scan]
      BY <1>7, <2>3 DEF StartReturns, Return
    <3>2. scan'[reply.scan] = "gone" \/ VerdictOf(scan'[reply.scan]) = VerdictOf(reply.status)
      BY <2>1, <2>3
    <3> QED
      BY <2>1, <3>1, <3>2
  <2> QED
    BY <2>2, <2>3
<1>8. ASSUME PollTooLate PROVE VerdictStep
  BY <1>8 DEF PollTooLate, Return
<1>9. ASSUME PollCancel PROVE VerdictStep
  <2>1. CASE scan[polled] = "gone"
    BY <1>9, <2>1, MissingIsError DEF PollCancel
  <2>2. CASE scan[polled] # "gone"
    <3>1. PICK st \in {scan[polled], "Cancelled"} :
             scan' = [scan EXCEPT ![polled] = st] /\ Return(VerdictOf(st), polled)
      BY <1>9, <2>2 DEF PollCancel
    <3>2. polled \in Scans /\ of[polled] = project
      BY <1>9 DEF PollCancel
    <3>3. scan'[polled] = st
      BY <3>1, <3>2
    <3>4. result' = [verdict |-> VerdictOf(st), scan |-> polled]
      BY <3>1 DEF Return
    <3> QED
      BY <3>2, <3>3, <3>4
  <2> QED
    BY <2>1, <2>2
<1>10. ASSUME PollRunning PROVE VerdictStep
  BY <1>10 DEF PollRunning
<1>11. ASSUME PollGone PROVE VerdictStep
  BY <1>11, MissingIsError DEF PollGone
<1>12. ASSUME PollEnded PROVE VerdictStep
  <2>1. polled \in Scans /\ of[polled] = project /\ scan' = scan
    BY <1>12 DEF PollEnded
  <2>2. result' = [verdict |-> VerdictOf(scan[polled]), scan |-> polled]
    BY <1>12 DEF PollEnded, Return
  <2> QED
    BY <2>1, <2>2
<1>13. ASSUME CallFails PROVE VerdictStep
  BY <1>13 DEF CallFails, Return
<1>14. ASSUME CancelRequested PROVE VerdictStep
  BY <1>14 DEF CancelRequested
<1>15. ASSUME EngineEnds PROVE VerdictStep
  BY <1>15 DEF EngineEnds
<1>16. ASSUME EngineRestarts PROVE VerdictStep
  BY <1>16 DEF EngineRestarts
<1>17. ASSUME MaterialChanges PROVE VerdictStep
  BY <1>17 DEF MaterialChanges
<1>18. ASSUME OtherJobSyncs PROVE VerdictStep
  BY <1>18 DEF OtherJobSyncs
<1>19. ASSUME Crash PROVE VerdictStep
  BY <1>19 DEF Crash
<1>20. CASE UNCHANGED vars
  BY <1>20 DEF vars
<1> QED
  BY <1>1, <1>2, <1>3, <1>4, <1>5, <1>6, <1>7, <1>8, <1>9, <1>10, <1>11, <1>12, <1>13, <1>14, <1>15, <1>16, <1>17, <1>18, <1>19, <1>20 DEF Next, RunStep, Proceed, Poll

\* A verdict is that of an ended scan of the job's project.
THEOREM VerdictIsOursHolds == Spec => VerdictIsOurs
<1>1. Init => OrphanInv
  BY DEF Init, OrphanInv, Remembered, NoOrphanScan
<1>2. TypeOK /\ OrphanInv /\ [Next]_vars => OrphanInv' /\ VerdictStep
  BY OrphanStep, VerdictStepHolds, ShapesHold
<1>3. VerdictStep =>
        ((result = None /\ result' # None /\ result'.verdict # "error"
            /\ kind \in {"scan", "legacy"}) =>
         LET s == result'.scan IN
            /\ s # None
            /\ of[s] = project
            /\ scan'[s] = "gone" \/ VerdictOf(scan'[s]) = result'.verdict)
  BY DEF VerdictStep
<1> QED
  BY <1>1, <1>2, <1>3, TypeCorrect, PTL DEF Spec, VerdictIsOurs

-----------------------------------------------------------------------------
\* How much of a legacy job's material is as new as the claim, at each call.
Fresh ==
    /\ \A r \in Resource : base[r] <= radar[r]
    /\ kind = "legacy" =>
        /\ pc \in {"fetch collection", "post config"} => base["config"] <= got["config"]
        /\ pc \in {"post config", "post collection"} => base["collection"] <= got["collection"]
        /\ pc \in {"post collection", "look", "post scan", "poll"} =>
            base["config"] <= engine["config"]
        /\ pc \in {"look", "post scan", "poll"} => base["collection"] <= engine["collection"]

\* The part of the types that compares versions.
Versions ==
    /\ got \in [Resource -> Nat]
    /\ engine \in [Resource -> Nat]
    /\ radar \in [Resource -> Nat]
    /\ base \in [Resource -> Nat]

\* Typed states have versions that can be compared.
LEMMA VersionsHold == TypeOK => Versions
<1>1. MaxVersion \in Nat
  BY ConstantsAssumption
<1>2. Material \subseteq [Resource -> Nat]
  BY <1>1 DEF Material
<1> QED
  BY <1>2 DEF TypeOK, Versions

\* Freshness is inductive: it is passed on from call to call.
LEMMA FreshStep == Versions /\ Fresh /\ [Next]_vars => Fresh'
<1> SUFFICES ASSUME Versions, Fresh, [Next]_vars PROVE Fresh'
  OBVIOUS
<1> USE DEF Versions, Fresh, Resource, run, durable, local, ghost
<1>1. ASSUME Claim PROVE Fresh'
  <2>1. /\ pc' \in {"look", "fetch collection", "fetch config"}
        /\ kind = "legacy" => pc' = "fetch config"
    <3>1. FetchPc["collection"] = "fetch collection" /\ FetchPc["config"] = "fetch config"
      BY DEF FetchPc
    <3> QED
      BY <1>1, <3>1 DEF Claim
  <2>2. kind' = kind /\ base' = radar /\ radar' = radar
    BY <1>1 DEF Claim
  <2>3. \A x \in Resource : base'[x] <= radar'[x]
    <3>1. radar \in [Resource -> Nat]
      OBVIOUS
    <3> QED
      BY ONLY <2>2, <3>1
  <2> QED
    BY <2>1, <2>2, <2>3
<1>2. ASSUME NEW r \in Resource, Fetch(r) PROVE Fresh'
  <2>1. UNCHANGED <<kind, engine, radar, base>> /\ got' = [got EXCEPT ![r] = radar[r]]
    BY <1>2 DEF Fetch
  <2>2. CASE r = "config"
    <3>1. pc = "fetch config" /\ (kind = "legacy" => pc' = "fetch collection")
      BY <1>2, <2>2 DEF Fetch, FetchPc
    <3> QED
      BY <2>1, <2>2, <3>1
  <2>3. CASE r = "collection"
    <3>1. pc = "fetch collection" /\ (kind = "legacy" => pc' = "post config")
      BY <1>2, <2>3 DEF Fetch, FetchPc
    <3> QED
      BY <2>1, <2>3, <3>1
  <2> QED
    BY <2>2, <2>3
<1>3. ASSUME FetchEmpty PROVE Fresh'
  BY <1>3 DEF FetchEmpty, Return
<1>4. ASSUME NEW r \in Resource, Push(r) PROVE Fresh'
  <2>1. UNCHANGED <<kind, got, radar, base>> /\ engine' = [engine EXCEPT ![r] = got[r]]
    BY <1>4 DEF Push
  <2>2. CASE kind # "legacy"
    BY <2>1, <2>2
  <2>3. CASE kind = "legacy" /\ r = "config"
    <3>1. pc = "post config" /\ pc' = "post collection"
      BY <1>4, <2>3 DEF Push, PushPc
    <3> QED
      BY <2>1, <2>3, <3>1
  <2>4. CASE kind = "legacy" /\ r = "collection"
    <3>1. pc = "post collection" /\ pc' = "look"
      BY <1>4, <2>4 DEF Push, PushPc
    <3> QED
      BY <2>1, <2>4, <3>1
  <2> QED
    BY <2>2, <2>3, <2>4
<1>5. ASSUME Look PROVE Fresh'
  <2>1. pc = "look" /\ pc' \in {"poll", "post scan"}
    BY <1>5 DEF Look, StartAfresh, StartPolling
  <2>2. UNCHANGED <<kind, got, engine, radar, base>>
    BY <1>5 DEF Look
  <2> QED
    BY <2>1, <2>2
<1>6. ASSUME EngineStarts PROVE Fresh'
  BY <1>6 DEF EngineStarts
<1>7. ASSUME StartReturns PROVE Fresh'
  <2>1. pc = "post scan" /\ pc' \in {"poll", "idle"}
    BY <1>7 DEF StartReturns, Return, StartPolling
  <2>2. UNCHANGED <<kind, got, engine, radar, base>>
    BY <1>7 DEF StartReturns
  <2> QED
    BY <2>1, <2>2
<1>8. ASSUME PollTooLate PROVE Fresh'
  BY <1>8 DEF PollTooLate, Return
<1>9. ASSUME PollCancel PROVE Fresh'
  <2>1. pc = "poll" /\ pc' \in {"post scan", "idle"}
    BY <1>9 DEF PollCancel, ScanMissing, Return, StartAfresh
  <2>2. UNCHANGED <<kind, got, engine, radar, base>>
    BY <1>9 DEF PollCancel, ScanMissing
  <2> QED
    BY <2>1, <2>2
<1>10. ASSUME PollRunning PROVE Fresh'
  BY <1>10 DEF PollRunning
<1>11. ASSUME PollGone PROVE Fresh'
  BY <1>11 DEF PollGone, ScanMissing, StartAfresh, Return
<1>12. ASSUME PollEnded PROVE Fresh'
  BY <1>12 DEF PollEnded, Return, VerdictOf
<1>13. ASSUME CallFails PROVE Fresh'
  BY <1>13 DEF CallFails, Return
<1>14. ASSUME CancelRequested PROVE Fresh'
  BY <1>14 DEF CancelRequested
<1>15. ASSUME EngineEnds PROVE Fresh'
  BY <1>15 DEF EngineEnds
<1>16. ASSUME EngineRestarts PROVE Fresh'
  BY <1>16 DEF EngineRestarts
<1>17. ASSUME MaterialChanges PROVE Fresh'
  <2>1. PICK r \in Resource : radar' = [radar EXCEPT ![r] = radar[r] + 1]
    BY <1>17 DEF MaterialChanges
  <2>2. UNCHANGED <<kind, pc, got, engine, base>>
    BY <1>17 DEF MaterialChanges
  <2>3. /\ radar \in [Resource -> Nat] /\ base \in [Resource -> Nat]
        /\ \A x \in Resource : base[x] <= radar[x]
    OBVIOUS
  <2>4. \A x \in Resource : base[x] <= radar'[x]
    BY ONLY <2>1, <2>3
  <2> QED
    BY <2>2, <2>4
<1>18. ASSUME OtherJobSyncs PROVE Fresh'
  <2>1. pc = "idle" /\ UNCHANGED <<kind, pc, got, radar, base>>
    BY <1>18 DEF OtherJobSyncs
  <2> QED
    BY <2>1
<1>19. ASSUME Crash PROVE Fresh'
  BY <1>19 DEF Crash
<1>20. CASE UNCHANGED vars
  BY <1>20 DEF vars
<1> QED
  BY <1>1, <1>2, <1>3, <1>4, <1>5, <1>6, <1>7, <1>8, <1>9, <1>10, <1>11, <1>12, <1>13, <1>14, <1>15, <1>16, <1>17, <1>18, <1>19, <1>20 DEF Next, RunStep, Proceed, Poll

\* LegacyStartsFresh, of one step.
StartStep ==
    \A s \in Scans : (scan[s] = "none" /\ scan'[s] # "none" /\ kind = "legacy") =>
        \A r \in Resource : engine[r] >= base[r]

\* Only the engine's answer to POST /scan makes a scan of none.
LEMMA StartStepHolds == Shapes /\ Versions /\ Fresh /\ OrphanInv /\ [Next]_vars => StartStep
<1> SUFFICES ASSUME Shapes, Versions, Fresh, OrphanInv, [Next]_vars PROVE StartStep
  OBVIOUS
<1> USE DEF StartStep, local
<1>1. CASE EngineStarts
  BY <1>1 DEF EngineStarts, Fresh, Resource, Versions
<1>2. CASE PollCancel
  BY <1>2 DEF PollCancel, ScanMissing, Shapes, OrphanInv, Remembered
<1>3. CASE EngineEnds
  BY <1>3 DEF EngineEnds
<1>4. CASE EngineRestarts
  BY <1>4 DEF EngineRestarts
<1>5. CASE ~(EngineStarts \/ PollCancel \/ EngineEnds \/ EngineRestarts)
  <2>1. scan' = scan
    BY <1>5 DEF Next, RunStep, Proceed, Poll, Claim, Fetch, FetchEmpty, Push, Look, StartReturns,
                PollTooLate, PollRunning, PollGone, ScanMissing, PollEnded, CallFails,
                CancelRequested, MaterialChanges, OtherJobSyncs, Crash, vars
  <2> QED
    BY <2>1
<1> QED
  BY <1>1, <1>2, <1>3, <1>4, <1>5

\* A legacy job never starts a scan with material older than its claim.
THEOREM LegacyStartsFreshHolds == Spec => LegacyStartsFresh
<1>1. Init => OrphanInv /\ Fresh
  BY DEF Init, OrphanInv, Remembered, NoOrphanScan, Fresh, Resource
<1>2. TypeOK /\ OrphanInv /\ Fresh /\ [Next]_vars => OrphanInv' /\ Fresh' /\ StartStep
  BY OrphanStep, FreshStep, StartStepHolds, ShapesHold, VersionsHold
<1>3. StartStep =>
        \A s \in Scans : (scan[s] = "none" /\ scan'[s] # "none" /\ kind = "legacy") =>
            \A r \in Resource : engine[r] >= base[r]
  BY DEF StartStep
<1> QED
  BY <1>1, <1>2, <1>3, TypeCorrect, PTL DEF Spec, LegacyStartsFresh

-----------------------------------------------------------------------------
(* When a second scan is started beside a running one: only when the answer *)
(* to POST /scan never became a checkpoint, or the job went to another      *)
(* project in between.                                                      *)

\* One step starts no scan beside one the job could know.
SecondStep ==
    \A s, t \in Scans :
        (scan[s] = "Running" /\ of[s] = project /\ scan[t] = "none" /\ scan'[t] # "none")
            => s \in lost

\* A scan is started where there is no checkpoint and no answer, and what runs then
\* is in neither.
LEMMA SecondStepHolds == Shapes /\ OrphanInv /\ [Next]_vars => SecondStep
<1> SUFFICES ASSUME Shapes, OrphanInv, [Next]_vars, NEW s \in Scans, NEW t \in Scans,
                    scan[s] = "Running", scan[t] = "none", scan'[t] # "none"
             PROVE  s \in lost
  BY DEF SecondStep
<1> USE DEF local
<1>1. CASE EngineStarts
  <2>1. pc = "post scan" /\ reply = None /\ checkpoint = None /\ result = None
    BY <1>1 DEF EngineStarts, OrphanInv, Remembered
  <2> QED
    BY <2>1 DEF OrphanInv, NoOrphanScan
<1>2. CASE PollCancel
  BY <1>2 DEF PollCancel, ScanMissing, Shapes, OrphanInv, Remembered
<1>3. CASE EngineEnds
  BY <1>3 DEF EngineEnds
<1>4. CASE EngineRestarts
  BY <1>4 DEF EngineRestarts
<1>5. CASE ~(EngineStarts \/ PollCancel \/ EngineEnds \/ EngineRestarts)
  <2>1. scan' = scan
    BY <1>5 DEF Next, RunStep, Proceed, Poll, Claim, Fetch, FetchEmpty, Push, Look, StartReturns,
                PollTooLate, PollRunning, PollGone, ScanMissing, PollEnded, CallFails,
                CancelRequested, MaterialChanges, OtherJobSyncs, Crash, vars
  <2> QED
    BY <2>1
<1> QED
  BY <1>1, <1>2, <1>3, <1>4, <1>5

\* A scan is started beside another that runs for the project only when the other was
\* lost: its POST /scan was answered, but the agent died or gave up the call before
\* put_checkpoint, or the job belonged to another project for a time
\* (dast_client.py:222-249).
THEOREM SecondOnlyBesideLost == Spec => [][SecondStep]_vars
<1>1. Init => OrphanInv
  BY DEF Init, OrphanInv, Remembered, NoOrphanScan
<1>2. TypeOK /\ OrphanInv /\ [Next]_vars => OrphanInv' /\ SecondStep
  BY OrphanStep, SecondStepHolds, ShapesHold
<1> QED
  BY <1>1, <1>2, TypeCorrect, PTL DEF Spec

\* No run ends between the engine's answer to POST /scan and the reading of it.
AnswerRead == reply # None => ~(Crash \/ CallFails)

\* Every scan the engine started is one the job knows of.
NothingLost == lost = {}

\* The sentence of docs/architecture.md:122-124 is true of a job that stays with its
\* project, whatever crashes, failures and restarts there are, outside of the one
\* window between the engine's answer and put_checkpoint.
THEOREM NoSecondScanOtherwise ==
    ASSUME NEW p, Projects = {p}
    PROVE  Spec /\ [][AnswerRead]_vars => NoSecondScan
<1>1. Init => OrphanInv /\ NothingLost
  BY DEF Init, OrphanInv, Remembered, NoOrphanScan, NothingLost
<1>2. TypeOK /\ OrphanInv /\ NothingLost /\ [Next]_vars /\ [AnswerRead]_vars => NothingLost'
  <2> SUFFICES ASSUME TypeOK, OrphanInv, lost = {}, Next, AnswerRead PROVE lost' = {}
    BY DEF vars, NothingLost
  <2> USE DEF ghost
  <2>1. CASE Claim
    <3>1. project' = p /\ \A s \in Scans : of[s] = p
      BY <2>1 DEF Claim, TypeOK
    <3> QED
      BY <2>1, <3>1 DEF Claim
  <2>2. CASE CallFails
    BY <2>2 DEF CallFails, AnswerRead
  <2>3. CASE Crash
    BY <2>3 DEF Crash, AnswerRead
  <2>4. CASE ~(Claim \/ CallFails \/ Crash)
    BY <2>4 DEF Next, RunStep, Proceed, Poll, Fetch, FetchEmpty, Push, Look, EngineStarts,
                StartReturns, PollTooLate, PollCancel, PollRunning, PollGone, ScanMissing,
                PollEnded, CancelRequested, EngineEnds, EngineRestarts, MaterialChanges,
                OtherJobSyncs
  <2> QED
    BY <2>1, <2>2, <2>3, <2>4
<1>3. TypeOK /\ OrphanInv /\ [Next]_vars => OrphanInv' /\ SecondStep
  BY OrphanStep, SecondStepHolds, ShapesHold
<1>4. NothingLost /\ SecondStep =>
        \A s, t \in Scans : (scan[s] = "Running" /\ of[s] = project) =>
            ~(scan[t] = "none" /\ scan'[t] # "none")
  BY DEF SecondStep, NothingLost
<1> QED
  BY <1>1, <1>2, <1>3, <1>4, TypeCorrect, PTL DEF Spec, NoSecondScan

=============================================================================
