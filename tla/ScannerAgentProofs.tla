------------------------- MODULE ScannerAgentProofs -------------------------
(***************************************************************************)
(* Proofs about ScannerAgent for every set of workers and jobs and every   *)
(* bound: type correctness, and that no result is lost or replaced before  *)
(* RADAR took it.                                                          *)
(***************************************************************************)
EXTENDS ScannerAgent, TLAPS

\* Where a coroutine is suspended fixes which of its locals are set.
Locals ==
    /\ \A j \in Jobs : rows[j] # NoRow => rows[j].job = j
    /\ \A w \in Workers :
        /\ pc[w] \in {"start", "scan", "join"} =>
            hold[w] \in Results /\ Owner[hold[w][1]] = w
        /\ answer[w] # "none" => post[w] \in batch[w]
        /\ pc[w] # "submit" => batch[w] = {}

TypeInv == TypeOK /\ Locals

\* list_pending returns rows of the table.
LEMMA PendingRows == TypeOK => Pending \subseteq Row
  BY DEF TypeOK, Pending

\* put writes one typed row and leaves the rows of the other jobs alone.
LEMMA PutRow ==
    ASSUME TypeOK, NEW j \in Jobs, NEW n \in Tokens, Put(j, n)
    PROVE  \E at \in Nat :
             rows' = [rows EXCEPT ![j] = [job |-> j, token |-> n, at |-> at]]
<1>1. NewStamps \subseteq Nat
  BY PendingRows DEF NewStamps, Row
<1>2. rows[j] # NoRow => rows[j].at \in Nat
  BY DEF TypeOK, Row
<1> QED
  BY <1>1, <1>2 DEF Put

\* A finished flush goes on to claim or back to the top of the loop.
LEMMA FlushDoneGoesOn ==
    ASSUME TypeOK, NEW w \in Workers, FlushDone(w)
    PROVE  /\ \E p \in {"flush", "claim"} : pc' = [pc EXCEPT ![w] = p]
           /\ afterRun' \in [Workers -> BOOLEAN]
<1>3. afterRun' = [afterRun EXCEPT ![w] = FALSE] /\ afterRun \in [Workers -> BOOLEAN]
  BY DEF FlushDone, TypeOK
<1>4. afterRun' \in [Workers -> BOOLEAN]
  BY <1>3
<1>5. \E p \in {"flush", "claim"} : pc' = [pc EXCEPT ![w] = p]
  BY DEF FlushDone
<1> QED
  BY <1>4, <1>5

\* Types and locals are right in every reachable state.
THEOREM TypeInvariant == Spec => []TypeInv
<1> USE ConstantsAssumption DEF Tokens, Results, Row, Id, Own
<1>1. Init => TypeInv
  BY DEF Init, TypeInv, TypeOK, Locals
<1>2. TypeInv /\ [Next]_vars => TypeInv'
  <2> SUFFICES ASSUME TypeInv, [Next]_vars PROVE TypeInv'
    OBVIOUS
  <2> USE DEF TypeInv, TypeOK, Locals, store, worker, radar
  <2>1. ASSUME NEW w \in Workers, HeartbeatAccepted(w) PROVE TypeInv'
    BY <2>1 DEF HeartbeatAccepted
  <2>2. ASSUME NEW w \in Workers, ListPending(w) PROVE TypeInv'
    <3>1. Pending \in SUBSET Row
      BY PendingRows
    <3>2. CASE Pending = {}
      <4>1. FlushDone(w) /\ batch' = [batch EXCEPT ![w] = {}]
        BY <2>2, <3>2 DEF ListPending
      <4>2. PICK p \in {"flush", "claim"} : pc' = [pc EXCEPT ![w] = p]
        BY <4>1, FlushDoneGoesOn
      <4>3. afterRun' \in [Workers -> BOOLEAN]
        BY <4>1, FlushDoneGoesOn
      <4>4. pc[w] = "flush" /\ UNCHANGED <<store, post, answer, hold, renewal, radar, crashes>>
        BY <2>2 DEF ListPending
      <4>5. TypeOK'
        BY <4>1, <4>2, <4>3, <4>4
      <4>6. Locals'
        BY <4>1, <4>2, <4>4
      <4> QED
        BY <4>5, <4>6
    <3>3. CASE Pending # {}
      BY <2>2, <3>1, <3>3 DEF ListPending
    <3> QED
      BY <3>2, <3>3
  <2>3. ASSUME NEW w \in Workers, Submit(w) PROVE TypeInv'
    BY <2>3 DEF Submit, Oldest
  <2>4. ASSUME NEW w \in Workers, SubmitReturns(w) PROVE TypeInv'
    <3>1. post[w] \in batch[w] /\ post[w] \in Row /\ post[w].job \in Jobs
      BY <2>4 DEF SubmitReturns
    <3>2. rows' \in [Jobs -> Row \cup {NoRow}]
          /\ \A j \in Jobs : rows'[j] # NoRow => rows'[j].job = j
      BY <2>4, <3>1 DEF SubmitReturns, Delete
    <3>3. CASE batch[w] = {post[w]}
      <4>1. FlushDone(w)
        BY <2>4, <3>3 DEF SubmitReturns
      <4>2. PICK p \in {"flush", "claim"} : pc' = [pc EXCEPT ![w] = p]
        BY <4>1, FlushDoneGoesOn
      <4>3. afterRun' \in [Workers -> BOOLEAN]
        BY <4>1, FlushDoneGoesOn
      <4>6. /\ batch' = [batch EXCEPT ![w] = batch[w] \ {post[w]}]
            /\ post' = [post EXCEPT ![w] = NoRow]
            /\ answer' = [answer EXCEPT ![w] = "none"]
            /\ UNCHANGED <<checkpoints, hold, renewal, radar, crashes>>
        BY <2>4 DEF SubmitReturns
      <4>4. TypeOK'
        BY <3>2, <4>2, <4>3, <4>6
      <4>5. Locals'
        BY <2>4, <3>1, <3>2, <3>3, <4>2 DEF SubmitReturns
      <4> QED
        BY <4>4, <4>5
    <3>4. CASE batch[w] # {post[w]}
      BY <2>4, <3>1, <3>2, <3>4 DEF SubmitReturns
    <3> QED
      BY <3>3, <3>4
  <2>5. ASSUME NEW w \in Workers, SubmitRaises(w) PROVE TypeInv'
    BY <2>5 DEF SubmitRaises, Raise
  <2>6. ASSUME NEW w \in Workers, SubmitTimesOut(w) PROVE TypeInv'
    BY <2>6 DEF SubmitTimesOut, Raise
  <2>7. ASSUME NEW w \in Workers, RetryDelay(w) PROVE TypeInv'
    BY <2>7 DEF RetryDelay
  <2>8. ASSUME NEW w \in Workers, ClaimReturns(w) PROVE TypeInv'
    BY <2>8 DEF ClaimReturns, Lease
  <2>9. ASSUME NEW w \in Workers, ClaimEmpty(w) PROVE TypeInv'
    BY <2>9 DEF ClaimEmpty
  <2>10. ASSUME NEW w \in Workers, ClaimLost(w) PROVE TypeInv'
    BY <2>10 DEF ClaimLost, Lease, Raise
  <2>11. ASSUME NEW w \in Workers, StartReturns(w) PROVE TypeInv'
    BY <2>11 DEF StartReturns
  <2>12. ASSUME NEW w \in Workers, StartRaises(w) PROVE TypeInv'
    BY <2>12 DEF StartRaises, Raise
  <2>13. ASSUME NEW w \in Workers, Checkpoint(w) PROVE TypeInv'
    BY <2>13 DEF Checkpoint
  <2>14. ASSUME NEW w \in Workers, ScanReturns(w) PROVE TypeInv'
    <3>1. hold[w] \in Results /\ hold[w][1] \in Jobs /\ hold[w][2] \in Tokens
      BY <2>14 DEF ScanReturns
    <3>2. PICK at \in Nat : rows' = [rows EXCEPT ![hold[w][1]] =
                 [job |-> hold[w][1], token |-> hold[w][2], at |-> at]]
      BY <2>14, <3>1, PutRow DEF ScanReturns
    <3> QED
      BY <2>14, <3>1, <3>2 DEF ScanReturns
  <2>15. ASSUME NEW w \in Workers, ScanRaises(w) PROVE TypeInv'
    BY <2>15 DEF ScanRaises
  <2>16. ASSUME NEW w \in Workers, Join(w) PROVE TypeInv'
    BY <2>16 DEF Join
  <2>17. ASSUME NEW w \in Workers, RenewCalls(w) PROVE TypeInv'
    BY <2>17 DEF RenewCalls
  <2>24. ASSUME NEW w \in Workers, RenewReturns(w) PROVE TypeInv'
    BY <2>24 DEF RenewReturns
  <2>18. ASSUME NEW w \in Workers, RadarAccepts(w) \/ RadarRejects(w) PROVE TypeInv'
    <3>1. post[w] \in Row /\ Id(post[w]) \in Results
      BY <2>18 DEF RadarAccepts, RadarRejects
    <3>2. CASE RadarAccepts(w)
      BY <3>1, <3>2 DEF RadarAccepts, Accept
    <3>3. CASE RadarRejects(w)
      BY <3>3 DEF RadarRejects
    <3> QED
      BY <2>18, <3>2, <3>3
  <2>19. ASSUME LateArrives \/ LateVanishes PROVE TypeInv'
    BY <2>19 DEF LateArrives, LateVanishes, Accept
  <2>20. ASSUME LeaseExpires PROVE TypeInv'
    BY <2>20 DEF LeaseExpires
  <2>25. ASSUME OtherAgentRuns PROVE TypeInv'
    BY <2>25 DEF OtherAgentRuns
  <2>21. ASSUME Crash PROVE TypeInv'
    BY <2>21 DEF Crash, Restart
  <2>23. ASSUME CrashAfterPut PROVE TypeInv'
    <3>1. PICK w \in Workers : pc[w] = "scan" /\ Put(hold[w][1], hold[w][2])
      BY <2>23 DEF CrashAfterPut
    <3>2. hold[w] \in Results /\ hold[w][1] \in Jobs /\ hold[w][2] \in Tokens
      BY <3>1
    <3>3. PICK at \in Nat : rows' = [rows EXCEPT ![hold[w][1]] =
                 [job |-> hold[w][1], token |-> hold[w][2], at |-> at]]
      BY <3>1, <3>2, PutRow
    <3> QED
      BY <2>23, <3>2, <3>3 DEF CrashAfterPut, Restart
  <2>22. CASE UNCHANGED vars
    BY <2>22 DEF vars
  <2> QED
    BY <2>1, <2>2, <2>3, <2>4, <2>5, <2>6, <2>7, <2>8, <2>9, <2>10, <2>11, <2>12,
       <2>13, <2>14, <2>15, <2>16, <2>17, <2>18, <2>19, <2>20, <2>21, <2>22, <2>23,
       <2>24, <2>25
       DEF Next, WorkerStep, Outside, Environment
<1> QED
  BY <1>1, <1>2, PTL DEF Spec

\* Every variable has its type in every reachable state.
THEOREM TypeCorrect == Spec => []TypeOK
<1>1. TypeInv => TypeOK
  BY DEF TypeInv
<1> QED
  BY <1>1, TypeInvariant, PTL

-----------------------------------------------------------------------------
(* A result in the outbox is the only result of its job: its owner passes  *)
(* the flush before a claim only when RADAR has taken it, and RADAR hands  *)
(* out no job again whose result it took.  So a snapshot row, a POST on    *)
(* the wire and the row of the table can differ only in that the result is *)
(* already taken.                                                          *)

\* A snapshot row is the row of the table, or is taken and gone from it.
SnapshotsAgree ==
    \A w \in Workers : \A r \in batch[w] :
        rows[r.job] = r \/ (rows[r.job] = NoRow /\ Id(r) \in accepted)

\* So is a POST given up by the agent.
LateAgrees ==
    \A id \in late :
        id \in accepted \/ (rows[id[1]] # NoRow /\ Id(rows[id[1]]) = id)

Answered == \A w \in Workers : answer[w] = "ok" => Id(post[w]) \in accepted

Closed == \A id \in accepted : status[id[1]] = "done"

\* A flush has every row of its own jobs ahead of it.
OwnRowsAhead ==
    \A w \in Workers : pc[w] = "submit" =>
        \A j \in Own(w) : rows[j] # NoRow => rows[j] \in batch[w]

\* Nothing is known of an earlier result of a job in hand.
Fresh(j) ==
    /\ \A w \in Workers : \A r \in batch[w] : r.job # j
    /\ \A id \in late \cup accepted : id[1] # j

JobInHandFresh == \A w \in Workers : pc[w] \in {"start", "scan"} => Fresh(hold[w][1])

SafeInv ==
    /\ SnapshotsAgree
    /\ LateAgrees
    /\ Answered
    /\ Closed
    /\ OwnRowsGone
    /\ OwnRowsAhead
    /\ JobInHandFresh

\* Steps that leave the outbox table and the taken results alone, shrink
\* snapshots, give up POSTs of snapshot rows, and let no worker claim.
LEMMA QuietStep ==
    ASSUME TypeInv, SafeInv, rows' = rows, accepted' = accepted,
           \A id \in accepted : status'[id[1]] = "done",
           \A id \in late' : id \in late \/
               \E v \in Workers : \E r \in batch[v] : id = Id(r),
           \A v \in Workers :
               /\ batch'[v] \subseteq batch[v]
               /\ answer'[v] = "ok" => answer[v] = "ok" /\ post'[v] = post[v]
               /\ pc'[v] = "claim" => pc[v] = "claim"
               /\ pc'[v] = "submit" => pc[v] = "submit" /\ batch'[v] = batch[v]
               /\ pc'[v] \in {"start", "scan"} =>
                   pc[v] \in {"start", "scan"} /\ hold'[v] = hold[v]
    PROVE  SafeInv'
<1> USE DEF SafeInv
<1>1. SnapshotsAgree'
  BY DEF SnapshotsAgree
<1>2. LateAgrees'
  <2> SUFFICES ASSUME NEW id \in late'
               PROVE  id \in accepted \/ (rows[id[1]] # NoRow /\ Id(rows[id[1]]) = id)
    BY DEF LateAgrees
  <2>1. CASE id \in late
    BY <2>1 DEF LateAgrees
  <2>2. CASE \E v \in Workers : \E r \in batch[v] : id = Id(r)
    <3>0. PICK v \in Workers : \E r \in batch[v] : id = Id(r)
      BY <2>2
    <3>1. PICK r \in batch[v] : id = Id(r)
      BY <3>0
    <3>2. r \in Row /\ id[1] = r.job /\ r # NoRow
      BY <3>1, ConstantsAssumption DEF TypeInv, TypeOK, Row, Tokens, Id
    <3> QED
      BY <3>1, <3>2 DEF SnapshotsAgree
  <2> QED
    BY <2>1, <2>2
<1>3. Answered'
  BY DEF Answered
<1>4. Closed'
  BY DEF Closed
<1>5. OwnRowsGone'
  BY DEF OwnRowsGone, Own
<1>6. OwnRowsAhead'
  BY DEF OwnRowsAhead, Own
<1>7. JobInHandFresh'
  <2> SUFFICES ASSUME NEW w \in Workers, pc'[w] \in {"start", "scan"}
               PROVE  Fresh(hold[w][1])'
    BY DEF JobInHandFresh
  <2>1. hold'[w] = hold[w] /\ Fresh(hold[w][1])
    BY DEF JobInHandFresh
  <2>2. \A id \in late' : id[1] # hold[w][1]
    <3> SUFFICES ASSUME NEW id \in late' PROVE id[1] # hold[w][1]
      OBVIOUS
    <3>1. CASE id \in late
      BY <2>1, <3>1 DEF Fresh
    <3>2. CASE \E v \in Workers : \E r \in batch[v] : id = Id(r)
      BY <2>1, <3>2 DEF Fresh, Id
    <3> QED
      BY <3>1, <3>2
  <2> QED
    BY <2>1, <2>2 DEF Fresh
<1> QED
  BY <1>1, <1>2, <1>3, <1>4, <1>5, <1>6, <1>7

\* RADAR takes a result that is in the outbox, or takes it again.
LEMMA AcceptStep ==
    ASSUME TypeInv, SafeInv, NEW id \in Results, Accept(id),
           id \in accepted \/ (rows[id[1]] # NoRow /\ Id(rows[id[1]]) = id),
           UNCHANGED <<rows, batch, pc, hold>>, late' \subseteq late, Answered'
    PROVE  SafeInv'
<1> USE DEF SafeInv
<1>0. accepted' = accepted \cup {id} /\ status' = [status EXCEPT ![id[1]] = "done"]
      /\ id[1] \in Jobs /\ \A x \in accepted : x[1] \in Jobs
  BY DEF Accept, TypeInv, TypeOK, Results
<1>1. SnapshotsAgree'
  BY <1>0 DEF SnapshotsAgree
<1>2. LateAgrees'
  BY <1>0 DEF LateAgrees
<1>3. Closed'
  BY <1>0 DEF Closed, TypeInv, TypeOK
<1>4. OwnRowsGone' /\ OwnRowsAhead'
  BY DEF OwnRowsGone, OwnRowsAhead, Own
<1>5. JobInHandFresh'
  <2> SUFFICES ASSUME NEW w \in Workers, pc[w] \in {"start", "scan"}
               PROVE  Fresh(hold[w][1])'
    BY DEF JobInHandFresh
  <2>1. Fresh(hold[w][1]) /\ hold[w][1] \in Own(w)
    BY DEF JobInHandFresh, TypeInv, Locals, Results, Own
  <2>2. id[1] # hold[w][1]
    BY <2>1 DEF OwnRowsGone, Fresh
  <2> QED
    BY <1>0, <2>1, <2>2 DEF Fresh
<1> QED
  BY <1>1, <1>2, <1>3, <1>4, <1>5

\* The owner of a job stores its result and leaves run_scan.
LEMMA StoreStep ==
    ASSUME TypeInv, SafeInv, NEW w \in Workers, pc[w] = "scan",
           Put(hold[w][1], hold[w][2]), accepted' = accepted, status' = status,
           \A id \in late' : id \in late \/
               \E v \in Workers : \E r \in batch[v] : id = Id(r),
           pc'[w] \in {"wait", "join"},
           \A v \in Workers :
               /\ batch'[v] \subseteq batch[v]
               /\ answer'[v] = "ok" => answer[v] = "ok" /\ post'[v] = post[v]
               /\ pc'[v] = "claim" => pc[v] = "claim"
               /\ pc'[v] = "submit" => pc[v] = "submit" /\ batch'[v] = batch[v]
               /\ pc'[v] \in {"start", "scan"} =>
                   pc[v] \in {"start", "scan"} /\ hold'[v] = hold[v]
    PROVE  SafeInv'
<1> USE DEF SafeInv
<1> DEFINE job == hold[w][1]
<1>1. job \in Jobs /\ hold[w][2] \in Tokens /\ Owner[job] = w /\ Fresh(job)
  BY DEF TypeInv, Locals, Results, JobInHandFresh
<1>2. \A j \in Jobs : j # job => rows'[j] = rows[j]
  BY <1>1, PutRow DEF TypeInv, TypeOK
<1>3. SnapshotsAgree'
  <2> SUFFICES ASSUME NEW v \in Workers, NEW r \in batch'[v]
               PROVE  rows'[r.job] = r \/ (rows'[r.job] = NoRow /\ Id(r) \in accepted)
    BY DEF SnapshotsAgree
  <2>1. r \in batch[v] /\ r.job \in Jobs /\ r.job # job
    BY <1>1 DEF Fresh, TypeInv, TypeOK, Row
  <2> QED
    BY <2>1, <1>2 DEF SnapshotsAgree
<1>4. LateAgrees'
  <2> SUFFICES ASSUME NEW id \in late'
               PROVE  id \in accepted \/ (rows'[id[1]] # NoRow /\ Id(rows'[id[1]]) = id)
    BY DEF LateAgrees
  <2>1. CASE id \in late
    <3>1. id[1] \in Jobs /\ id[1] # job
      BY <1>1, <2>1 DEF Fresh, TypeInv, TypeOK, Results
    <3> QED
      BY <2>1, <3>1, <1>2 DEF LateAgrees
  <2>2. CASE \E v \in Workers : \E r \in batch[v] : id = Id(r)
    <3>1. PICK v \in Workers : \E r \in batch[v] : id = Id(r)
      BY <2>2
    <3>2. PICK r \in batch[v] : id = Id(r)
      BY <3>1
    <3>3. r \in Row /\ r # NoRow /\ id[1] = r.job /\ r.job \in Jobs /\ r.job # job
      BY <1>1, <3>2, ConstantsAssumption DEF Fresh, TypeInv, TypeOK, Row, Tokens, Id
    <3> QED
      BY <3>2, <3>3, <1>2 DEF SnapshotsAgree
  <2> QED
    BY <2>1, <2>2
<1>5. Answered' /\ Closed'
  BY DEF Answered, Closed
<1>6. OwnRowsGone' /\ OwnRowsAhead'
  BY <1>1, <1>2 DEF OwnRowsGone, OwnRowsAhead, Own
<1>7. JobInHandFresh'
  <2> SUFFICES ASSUME NEW v \in Workers, pc'[v] \in {"start", "scan"}
               PROVE  Fresh(hold[v][1])'
    BY DEF JobInHandFresh
  <2>1. hold'[v] = hold[v] /\ Fresh(hold[v][1])
    BY DEF JobInHandFresh
  <2>2. \A id \in late' : id[1] # hold[v][1]
    <3> SUFFICES ASSUME NEW id \in late' PROVE id[1] # hold[v][1]
      OBVIOUS
    <3>1. CASE id \in late
      BY <2>1, <3>1 DEF Fresh
    <3>2. CASE \E u \in Workers : \E r \in batch[u] : id = Id(r)
      BY <2>1, <3>2 DEF Fresh, Id
    <3> QED
      BY <3>1, <3>2
  <2> QED
    BY <2>1, <2>2 DEF Fresh
<1> QED
  BY <1>3, <1>4, <1>5, <1>6, <1>7

\* RADAR never hands out a job whose result it took, so every step of the agent
\* and of RADAR keeps the invariant.
LEMMA SafeStep ==
    ASSUME TypeInv, SafeInv, [Next]_vars
    PROVE  SafeInv'
<1> USE ConstantsAssumption DEF TypeInv, TypeOK, Locals, SafeInv, Closed, Answered,
                                store, worker, radar, Results, Tokens, Row, Id
<1>1. ASSUME NEW w \in Workers, HeartbeatAccepted(w) PROVE SafeInv'
  BY <1>1, QuietStep DEF HeartbeatAccepted
<1>2. ASSUME NEW w \in Workers, Submit(w) PROVE SafeInv'
  BY <1>2, QuietStep DEF Submit
<1>3. ASSUME NEW w \in Workers, SubmitRaises(w) PROVE SafeInv'
  BY <1>3, QuietStep DEF SubmitRaises, Raise
<1>4. ASSUME NEW w \in Workers, SubmitTimesOut(w) PROVE SafeInv'
  BY <1>4, QuietStep DEF SubmitTimesOut, Raise
<1>5. ASSUME NEW w \in Workers, RetryDelay(w) PROVE SafeInv'
  BY <1>5, QuietStep DEF RetryDelay
<1>6. ASSUME NEW w \in Workers, ClaimEmpty(w) PROVE SafeInv'
  BY <1>6, QuietStep DEF ClaimEmpty
<1>7. ASSUME NEW w \in Workers, ClaimLost(w) PROVE SafeInv'
  BY <1>7, QuietStep DEF ClaimLost, Lease, Raise
<1>8. ASSUME NEW w \in Workers, StartReturns(w) PROVE SafeInv'
  BY <1>8, QuietStep DEF StartReturns
<1>9. ASSUME NEW w \in Workers, StartRaises(w) PROVE SafeInv'
  BY <1>9, QuietStep DEF StartRaises, Raise
<1>10. ASSUME NEW w \in Workers, Checkpoint(w) PROVE SafeInv'
  BY <1>10, QuietStep DEF Checkpoint
<1>11. ASSUME NEW w \in Workers, ScanRaises(w) PROVE SafeInv'
  BY <1>11, QuietStep DEF ScanRaises
<1>12. ASSUME NEW w \in Workers, Join(w) PROVE SafeInv'
  BY <1>12, QuietStep DEF Join
<1>13. ASSUME NEW w \in Workers, RenewCalls(w) PROVE SafeInv'
  BY <1>13, QuietStep DEF RenewCalls
<1>14. ASSUME NEW w \in Workers, RenewReturns(w) PROVE SafeInv'
  BY <1>14, QuietStep DEF RenewReturns
<1>15. ASSUME NEW w \in Workers, RadarRejects(w) PROVE SafeInv'
  BY <1>15, QuietStep DEF RadarRejects
<1>16. ASSUME LateVanishes PROVE SafeInv'
  BY <1>16, QuietStep DEF LateVanishes
<1>17. ASSUME LeaseExpires PROVE SafeInv'
  BY <1>17, QuietStep DEF LeaseExpires
<1>18. ASSUME OtherAgentRuns PROVE SafeInv'
  BY <1>18, QuietStep DEF OtherAgentRuns
<1>19. ASSUME Crash PROVE SafeInv'
  BY <1>19, QuietStep DEF Crash, Restart
<1>20. ASSUME NEW w \in Workers, ListPending(w) PROVE SafeInv'
  <2>1. SnapshotsAgree'
    <3>0. UNCHANGED <<rows, accepted>> /\ batch' = [batch EXCEPT ![w] = Pending]
      BY <1>20 DEF ListPending
    <3> SUFFICES ASSUME NEW v \in Workers, NEW r \in batch'[v]
                 PROVE  rows'[r.job] = r \/ (rows'[r.job] = NoRow /\ Id(r) \in accepted')
      BY DEF SnapshotsAgree
    <3>1. CASE v = w
      <4>1. r \in Pending
        BY <3>0, <3>1
      <4>2. PICK j \in Jobs : rows[j] # NoRow /\ r = rows[j]
        BY <4>1 DEF Pending
      <4> QED
        BY <3>0, <4>2
    <3>2. CASE v # w
      BY <3>0, <3>2 DEF SnapshotsAgree
    <3> QED
      BY <3>1, <3>2
  <2>2. LateAgrees' /\ Answered' /\ Closed'
    BY <1>20 DEF ListPending, LateAgrees
  <2>3. OwnRowsGone' /\ OwnRowsAhead'
    <3>1. CASE Pending = {}
      <4>1. FlushDone(w)
        BY <1>20, <3>1 DEF ListPending
      <4>2. \A j \in Jobs : rows[j] = NoRow
        <5> SUFFICES ASSUME NEW j \in Jobs, rows[j] # NoRow PROVE FALSE
          OBVIOUS
        <5>1. rows[j] \in Pending
          BY DEF Pending
        <5> QED
          BY <3>1, <5>1
      <4> QED
        BY <1>20, <4>1, <4>2 DEF ListPending, OwnRowsGone, OwnRowsAhead, Own
    <3>2. CASE Pending # {}
      <4>1. pc' = [pc EXCEPT ![w] = "submit"]
        BY <1>20, <3>2 DEF ListPending
      <4>2. \A j \in Jobs : rows[j] # NoRow => rows[j] \in Pending
        BY DEF Pending
      <4> QED
        BY <1>20, <4>1, <4>2 DEF ListPending, OwnRowsGone, OwnRowsAhead, Own
    <3> QED
      BY <3>1, <3>2
  <2>4. JobInHandFresh'
    <3> SUFFICES ASSUME NEW v \in Workers, pc'[v] \in {"start", "scan"}
                 PROVE  Fresh(hold[v][1])'
      BY <1>20 DEF ListPending, JobInHandFresh
    <3>1. \E p \in {"flush", "claim", "submit"} : pc' = [pc EXCEPT ![w] = p]
      BY <1>20, FlushDoneGoesOn DEF ListPending
    <3>2. v # w /\ pc[v] \in {"start", "scan"}
      BY <3>1
    <3>3. Fresh(hold[v][1]) /\ \A r \in Pending : r.job # hold[v][1]
      BY <3>2 DEF JobInHandFresh, OwnRowsGone, Own, Pending
    <3> QED
      BY <1>20, <3>3 DEF ListPending, Fresh
  <2> QED
    BY <2>1, <2>2, <2>3, <2>4
<1>21. ASSUME NEW w \in Workers, SubmitReturns(w) PROVE SafeInv'
  <2>1. SnapshotsAgree'
    <3>0. accepted' = accepted /\ batch' = [batch EXCEPT ![w] = batch[w] \ {post[w]}]
      BY <1>21 DEF SubmitReturns
    <3> SUFFICES ASSUME NEW v \in Workers, NEW r \in batch'[v]
                 PROVE  rows'[r.job] = r \/ (rows'[r.job] = NoRow /\ Id(r) \in accepted')
      BY DEF SnapshotsAgree
    <3>1. r \in batch[v] /\ r \in Row /\ r # NoRow
      BY <3>0
    <3>2. post[w] \in Row /\ rows' = [rows EXCEPT ![post[w].job] = NoRow]
          /\ Id(post[w]) \in accepted
          /\ (rows[post[w].job] = post[w] \/ rows[post[w].job] = NoRow)
      BY <1>21 DEF SubmitReturns, Delete, SnapshotsAgree
    <3>3. CASE r.job = post[w].job
      <4>1. rows'[r.job] = NoRow
        BY <3>1, <3>2, <3>3
      <4>2. rows[r.job] = r \/ Id(r) \in accepted
        BY <3>1 DEF SnapshotsAgree
      <4> QED
        BY <3>0, <3>1, <3>2, <3>3, <4>1, <4>2
    <3>4. CASE r.job # post[w].job
      BY <3>0, <3>1, <3>2, <3>4 DEF SnapshotsAgree
    <3> QED
      BY <3>3, <3>4
  <2>2. LateAgrees'
    <3>1. post[w] \in Row /\ rows' = [rows EXCEPT ![post[w].job] = NoRow]
          /\ Id(post[w]) \in accepted
          /\ (rows[post[w].job] = post[w] \/ rows[post[w].job] = NoRow)
      BY <1>21 DEF SubmitReturns, Delete, SnapshotsAgree
    <3>2. UNCHANGED <<late, accepted>>
      BY <1>21 DEF SubmitReturns
    <3> SUFFICES ASSUME NEW id \in late, id \notin accepted
                 PROVE  rows'[id[1]] # NoRow /\ Id(rows'[id[1]]) = id
      BY <3>2 DEF LateAgrees
    <3>3. rows[id[1]] # NoRow /\ Id(rows[id[1]]) = id /\ id[1] \in Jobs
      BY DEF LateAgrees
    <3>4. id[1] # post[w].job
      <4> SUFFICES ASSUME id[1] = post[w].job PROVE FALSE
        OBVIOUS
      <4>1. rows[post[w].job] = post[w]
        BY <3>1, <3>3
      <4>2. id = Id(post[w])
        BY <3>3, <4>1
      <4> QED
        BY <3>1, <4>2
    <3> QED
      BY <3>1, <3>3, <3>4
  <2>3. Answered' /\ Closed'
    BY <1>21 DEF SubmitReturns
  <2>4. OwnRowsGone' /\ OwnRowsAhead'
    BY <1>21, FlushDoneGoesOn DEF SubmitReturns, Delete, SnapshotsAgree, OwnRowsGone,
                                  OwnRowsAhead, Own
  <2>5. JobInHandFresh'
    BY <1>21, FlushDoneGoesOn DEF SubmitReturns, JobInHandFresh, Fresh
  <2> QED
    BY <2>1, <2>2, <2>3, <2>4, <2>5
<1>22. ASSUME NEW w \in Workers, ClaimReturns(w) PROVE SafeInv'
  <2>1. SnapshotsAgree' /\ LateAgrees' /\ Answered' /\ OwnRowsGone' /\ OwnRowsAhead'
    BY <1>22 DEF ClaimReturns, Lease, SnapshotsAgree, LateAgrees, OwnRowsGone, OwnRowsAhead, Own
  <2>2. Closed'
    BY <1>22 DEF ClaimReturns, Lease
  <2>3. JobInHandFresh'
    <3>1. PICK j \in Own(w) : Lease(j) /\ hold' = [hold EXCEPT ![w] = <<j, lease'[j]>>]
      BY <1>22 DEF ClaimReturns
    <3>2. j \in Jobs /\ rows[j] = NoRow /\ status[j] = "queued"
      BY <1>22, <3>1 DEF ClaimReturns, Lease, OwnRowsGone, Own
    <3>3. \A id \in late \cup accepted : id[1] # j
      BY <3>2 DEF LateAgrees
    <3>4. \A v \in Workers : \A r \in batch[v] : r.job # j
      <4> SUFFICES ASSUME NEW v \in Workers, NEW r \in batch[v], r.job = j PROVE FALSE
        OBVIOUS
      <4>1. r \in Row /\ r # NoRow /\ Id(r)[1] = j
        OBVIOUS
      <4>2. Id(r) \in accepted
        BY <3>2, <4>1 DEF SnapshotsAgree
      <4> QED
        BY <3>3, <4>1, <4>2
    <3>5. Fresh(j)
      BY <3>3, <3>4 DEF Fresh
    <3>6. UNCHANGED <<batch, late, accepted>> /\ pc' = [pc EXCEPT ![w] = "start"]
      BY <1>22 DEF ClaimReturns
    <3> SUFFICES ASSUME NEW v \in Workers, pc'[v] \in {"start", "scan"}
                 PROVE  Fresh(hold'[v][1])
      BY <3>6 DEF JobInHandFresh, Fresh
    <3>7. CASE v = w
      BY <3>1, <3>5, <3>7
    <3>8. CASE v # w
      BY <3>1, <3>6, <3>8 DEF JobInHandFresh
    <3> QED
      BY <3>7, <3>8
  <2> QED
    BY <2>1, <2>2, <2>3
<1>23. ASSUME NEW w \in Workers, ScanReturns(w) PROVE SafeInv'
  BY <1>23, StoreStep DEF ScanReturns
<1>24. ASSUME CrashAfterPut PROVE SafeInv'
  BY <1>24, StoreStep DEF CrashAfterPut, Restart
<1>25. ASSUME NEW w \in Workers, RadarAccepts(w) PROVE SafeInv'
  <2> DEFINE id == Id(post[w])
  <2>1. post[w] \in batch[w] /\ post[w] \in Row /\ post[w] # NoRow
    BY <1>25 DEF RadarAccepts
  <2>2. id \in Results /\ (id \in accepted \/ (rows[id[1]] # NoRow /\ Id(rows[id[1]]) = id))
    BY <2>1 DEF SnapshotsAgree
  <2>3. Accept(id) /\ UNCHANGED <<rows, batch, pc, hold, late, post>>
        /\ answer' = [answer EXCEPT ![w] = "ok"]
    BY <1>25 DEF RadarAccepts
  <2>4. Answered'
    BY <2>3 DEF Accept
  <2> QED
    BY <2>2, <2>3, <2>4, AcceptStep
<1>26. ASSUME LateArrives PROVE SafeInv'
  BY <1>26, AcceptStep DEF LateArrives, LateAgrees, Accept
<1>30. CASE UNCHANGED vars
  BY <1>30, QuietStep DEF vars
<1> QED
  BY <1>1, <1>2, <1>3, <1>4, <1>5, <1>6, <1>7, <1>8, <1>9, <1>10, <1>11, <1>12, <1>13,
     <1>14, <1>15, <1>16, <1>17, <1>18, <1>19, <1>20, <1>21, <1>22, <1>23, <1>24, <1>25, <1>26,
     <1>30 DEF Next, WorkerStep, Outside, Environment

\* The invariant holds in every reachable state.
THEOREM SafeInvariant == Spec => []SafeInv
<1>1. Init => SafeInv
  BY DEF Init, SafeInv, SnapshotsAgree, LateAgrees, Answered, Closed, OwnRowsGone,
         OwnRowsAhead, JobInHandFresh
<1>2. TypeInv /\ SafeInv /\ [Next]_vars => SafeInv'
  BY SafeStep
<1> QED
  BY <1>1, <1>2, TypeInvariant, PTL DEF Spec

\* A worker that claims, starts or scans has no result of its own in the outbox.
THEOREM OwnRowsGoneHolds == Spec => []OwnRowsGone
<1>1. SafeInv => OwnRowsGone
  BY DEF SafeInv
<1> QED
  BY <1>1, SafeInvariant, PTL

\* A checkpoint is only dropped by the worker that scans its job: while the scan
\* goes on, or together with the row put stored before it.
THEOREM CheckpointOutlivesScanHolds == Spec => CheckpointOutlivesScan
<1> DEFINE Kept == \A j \in checkpoints \ checkpoints' :
                       \E w \in Workers : hold[w] # NoRow /\ hold[w][1] = j
                                         /\ (pc'[w] = "scan" \/ rows'[j] # NoRow)
<1>1. TypeInv /\ [Next]_vars => Kept
  <2> SUFFICES ASSUME TypeInv, [Next]_vars, NEW j \in checkpoints \ checkpoints'
               PROVE  \E w \in Workers : hold[w] # NoRow /\ hold[w][1] = j
                                         /\ (pc'[w] = "scan" \/ rows'[j] # NoRow)
    OBVIOUS
  <2>1. ASSUME NEW w \in Workers, pc[w] = "scan"
        PROVE  hold[w] # NoRow /\ hold[w][1] \in Jobs /\ hold[w][2] \in Tokens
    BY <2>1, ConstantsAssumption DEF TypeInv, Locals, Results, Tokens
  <2>2. ASSUME NEW w \in Workers, Checkpoint(w)
        PROVE  hold[w] # NoRow /\ hold[w][1] = j /\ pc'[w] = "scan"
    BY <2>1, <2>2 DEF Checkpoint, worker
  <2>3. ASSUME NEW w \in Workers, ScanReturns(w)
        PROVE  hold[w] # NoRow /\ hold[w][1] = j /\ rows'[j] # NoRow
    <3>1. pc[w] = "scan" /\ hold[w][1] = j /\ Put(j, hold[w][2])
      BY <2>3 DEF ScanReturns
    <3>2. \A at \in Nat : [job |-> j, token |-> hold[w][2], at |-> at] # NoRow
      BY <2>1, <3>1, ConstantsAssumption DEF Tokens
    <3>3. rows'[j] # NoRow
      BY <2>1, <3>1, <3>2, PutRow DEF TypeInv, TypeOK
    <3> QED
      BY <2>1, <3>1, <3>3
  <2>4. \E w \in Workers : Checkpoint(w) \/ ScanReturns(w)
    BY DEF Next, vars, store, worker, WorkerStep, Outside, Environment,
           HeartbeatAccepted, ListPending, Submit, SubmitReturns, SubmitRaises, RetryDelay,
           ClaimReturns, ClaimEmpty, StartReturns, StartRaises, ScanRaises, Join,
           SubmitTimesOut, ClaimLost, RenewCalls, RenewReturns, RadarAccepts, RadarRejects,
           LateArrives, LateVanishes, LeaseExpires, OtherAgentRuns, Crash, CrashAfterPut
  <2> QED
    BY <2>2, <2>3, <2>4
<1> QED
  BY <1>1, TypeInvariant, PTL DEF Spec, CheckpointOutlivesScan

-----------------------------------------------------------------------------
(* Refinement: put is Store, RADAR's 2xx is Deliver, delete is Remove, and *)
(* every other step, a crash included, leaves the abstract state alone.    *)

stored == {Id(r) : r \in Pending}

\* The stored results, spelled with the table.
LEMMA StoredIsRows ==
    ASSUME TypeInv PROVE stored = {Id(rows[j]) : j \in {i \in Jobs : rows[i] # NoRow}}
  BY DEF stored, Pending

\* Storing the first row of a job is the abstract Store.
LEMMA StoreRefines ==
    ASSUME TypeInv, SafeInv, NEW w \in Workers, pc[w] = "scan",
           Put(hold[w][1], hold[w][2]), accepted' = accepted
    PROVE  Delivery!Next
<1> DEFINE job == hold[w][1]
           id  == <<hold[w][1], hold[w][2]>>
<1>1. job \in Own(w) /\ job \in Jobs /\ hold[w][2] \in Tokens /\ id \in Results
      /\ Fresh(job)
  BY DEF TypeInv, Locals, Results, Own, SafeInv, JobInHandFresh
<1>2. rows[job] = NoRow
  BY <1>1 DEF SafeInv, OwnRowsGone
<1>3. PICK at \in Nat :
        rows' = [rows EXCEPT ![job] = [job |-> job, token |-> hold[w][2], at |-> at]]
  BY <1>1, PutRow DEF TypeInv
<1>4. rows'[job] # NoRow /\ Id(rows'[job]) = id
  <2>1. rows'[job] = [job |-> job, token |-> hold[w][2], at |-> at]
    BY <1>1, <1>3 DEF TypeInv, TypeOK
  <2>2. rows'[job] \in [job : Jobs, token : 0..MaxLease, at : Nat]
    BY <1>1, <2>1 DEF Tokens
  <2> QED
    BY <2>1, <2>2, ConstantsAssumption DEF Id
<1>5. {i \in Jobs : rows'[i] # NoRow} = {i \in Jobs : rows[i] # NoRow} \cup {job}
  BY <1>1, <1>3, <1>4 DEF TypeInv, TypeOK
<1>6. \A j \in Jobs : j # job => rows'[j] = rows[j]
  BY <1>1, <1>3 DEF TypeInv, TypeOK
<1>7. stored' = stored \cup {id}
  <2>1. stored' = {Id(rows'[j]) : j \in {i \in Jobs : rows'[i] # NoRow}}
    BY DEF stored, Pending
  <2>2. stored = {Id(rows[j]) : j \in {i \in Jobs : rows[i] # NoRow}}
    BY DEF stored, Pending
  <2> HIDE DEF id, job
  <2> QED
    BY <1>1, <1>2, <1>4, <1>5, <1>6, <2>1, <2>2
<1>8. id \notin accepted
  BY <1>1 DEF Fresh
<1>9. \A p \in stored : p[1] # id[1]
  BY <1>2, StoredIsRows DEF TypeInv, Locals, Id
<1>10. Delivery!Store(id)
  BY <1>7, <1>8, <1>9 DEF Delivery!Store, stored
<1> QED
  BY <1>1, <1>10 DEF Delivery!Next

\* Deleting a delivered row is the abstract Remove, or nothing when the other
\* worker deleted it first.
LEMMA DeleteRefines ==
    ASSUME TypeInv, SafeInv, NEW w \in Workers, SubmitReturns(w)
    PROVE  [Delivery!Next]_<<stored, accepted>>
<1> DEFINE r == post[w]
<1>1. r \in batch[w] /\ r \in Row /\ r.job \in Jobs /\ Id(r) \in accepted
      /\ accepted' = accepted /\ rows' = [rows EXCEPT ![r.job] = NoRow]
  BY DEF SubmitReturns, Delete, SafeInv, Answered, TypeInv, TypeOK, Locals, Row, radar
<1>2. CASE rows[r.job] = NoRow
  <2>1. rows' = rows
    BY <1>1, <1>2 DEF TypeInv, TypeOK
  <2> QED
    BY <1>1, <2>1 DEF stored, Pending
<1>3. CASE rows[r.job] = r /\ r # NoRow
  <2>1. {i \in Jobs : rows'[i] # NoRow} = {i \in Jobs : rows[i] # NoRow} \ {r.job}
    BY <1>1, <1>3 DEF TypeInv, TypeOK
  <2>2. \A j \in Jobs : j # r.job => rows'[j] = rows[j]
    BY <1>1 DEF TypeInv, TypeOK
  <2>3. \A j \in Jobs : rows[j] # NoRow => Id(rows[j])[1] = j
    BY DEF TypeInv, Locals, Id
  <2>4. stored' = stored \ {Id(r)} /\ Id(r) \in stored
    <3>1. stored' = {Id(rows'[j]) : j \in {i \in Jobs : rows'[i] # NoRow}}
      BY DEF stored, Pending
    <3>2. stored = {Id(rows[j]) : j \in {i \in Jobs : rows[i] # NoRow}}
      BY DEF stored, Pending
    <3>3. Id(r)[1] = r.job
      BY DEF Id
    <3> HIDE DEF r
    <3> QED
      BY <1>1, <1>3, <2>1, <2>2, <2>3, <3>1, <3>2, <3>3
  <2>5. Delivery!Remove(Id(r))
    BY <1>1, <2>4 DEF Delivery!Remove, stored
  <2>6. Id(r) \in Results
    BY <1>1 DEF TypeInv, TypeOK
  <2> QED
    BY <2>5, <2>6 DEF Delivery!Next
<1> QED
  BY <1>1, <1>2, <1>3 DEF SafeInv, SnapshotsAgree

\* A result RADAR takes is stored here, or was taken before.
LEMMA AcceptRefines ==
    ASSUME TypeInv, SafeInv, NEW id \in Results, Accept(id), rows' = rows,
           id \in accepted \/ (rows[id[1]] # NoRow /\ Id(rows[id[1]]) = id)
    PROVE  [Delivery!Next]_<<stored, accepted>>
<1>1. stored' = stored /\ accepted' = accepted \cup {id} /\ id[1] \in Jobs
  BY DEF stored, Pending, Accept, Results
<1>2. CASE id \in accepted
  BY <1>1, <1>2
<1>3. CASE rows[id[1]] # NoRow /\ Id(rows[id[1]]) = id
  <2>1. id \in stored
    BY <1>1, <1>3 DEF stored, Pending
  <2>2. Delivery!Deliver(id)
    BY <1>1, <2>1 DEF Delivery!Deliver, stored
  <2> QED
    BY <2>2 DEF Delivery!Next
<1> QED
  BY <1>2, <1>3

\* Every other step changes neither the table nor what RADAR has taken.
LEMMA OtherStepsStutter ==
    ASSUME NEW w,
           \/ HeartbeatAccepted(w) \/ ListPending(w) \/ Submit(w) \/ SubmitRaises(w)
           \/ SubmitTimesOut(w) \/ RetryDelay(w) \/ ClaimReturns(w) \/ ClaimEmpty(w)
           \/ ClaimLost(w) \/ StartReturns(w) \/ StartRaises(w) \/ Checkpoint(w)
           \/ ScanRaises(w) \/ Join(w) \/ RenewCalls(w) \/ RenewReturns(w)
           \/ RadarRejects(w) \/ LateVanishes \/ LeaseExpires \/ OtherAgentRuns
           \/ Crash \/ UNCHANGED vars
    PROVE  stored' = stored /\ accepted' = accepted
<1>1. rows' = rows /\ accepted' = accepted
  BY DEF HeartbeatAccepted, ListPending, Submit, SubmitRaises, SubmitTimesOut,
     RetryDelay, ClaimReturns, ClaimEmpty, ClaimLost, StartReturns, StartRaises,
     Checkpoint, ScanRaises, Join, RenewCalls, RenewReturns, RadarRejects,
     LateVanishes, LeaseExpires, OtherAgentRuns, Crash, Restart, vars,
     store, worker, radar
<1> QED
  BY <1>1 DEF stored, Pending

\* Every step of the agent, of RADAR and of a crash is a step of ResultDelivery.
LEMMA StepRefines ==
    ASSUME TypeInv, SafeInv, [Next]_vars
    PROVE  [Delivery!Next]_<<stored, accepted>>
<1>1. ASSUME NEW w \in Workers, ScanReturns(w) PROVE Delivery!Next
  BY <1>1, StoreRefines DEF ScanReturns, radar
<1>2. ASSUME CrashAfterPut PROVE Delivery!Next
  BY <1>2, StoreRefines DEF CrashAfterPut, Restart
<1>3. ASSUME NEW w \in Workers, RadarAccepts(w)
      PROVE  [Delivery!Next]_<<stored, accepted>>
  <2>1. post[w] \in batch[w] /\ post[w] \in Row /\ Id(post[w]) \in Results
        /\ post[w] # NoRow /\ Id(post[w])[1] = post[w].job
    BY <1>3, ConstantsAssumption
       DEF RadarAccepts, TypeInv, TypeOK, Locals, Row, Id, Results, Tokens
  <2>2. Accept(Id(post[w])) /\ rows' = rows
    BY <1>3 DEF RadarAccepts, store
  <2> QED
    BY <2>1, <2>2, AcceptRefines DEF SafeInv, SnapshotsAgree
<1>4. ASSUME LateArrives PROVE [Delivery!Next]_<<stored, accepted>>
  <2>1. PICK id \in late : Accept(id)
    BY <1>4 DEF LateArrives
  <2>2. id \in Results /\ rows' = rows
    BY <1>4 DEF LateArrives, store, TypeInv, TypeOK
  <2> QED
    BY <2>1, <2>2, AcceptRefines DEF SafeInv, LateAgrees
<1> QED
  BY <1>1, <1>2, <1>3, <1>4, DeleteRefines, OtherStepsStutter
     DEF Next, WorkerStep, Outside, Environment

\* The agent implements the outbox that never loses, replaces or repeats a result.
THEOREM Implementation == Spec => ImplementsDelivery
<1>1. Init => Delivery!Init
  BY DEF Init, Delivery!Init, Pending
<1>2. TypeInv /\ SafeInv /\ [Next]_vars => [Delivery!Next]_(Delivery!vars)
  BY StepRefines DEF Delivery!vars, stored
<1> QED
  BY <1>1, <1>2, TypeInvariant, SafeInvariant, PTL DEF Spec, ImplementsDelivery, Delivery!Spec

-----------------------------------------------------------------------------
(* When RADAR refuses: the two workers alone never make a row that it has  *)
(* to refuse, which would hold up the claims of both.                      *)

\* A row, and a job in hand, are of the newest lease; a job that is done was taken
\* under it.
LeaseInv ==
    /\ \A j \in Jobs : rows[j] # NoRow => rows[j].token = lease[j]
    /\ \A j \in Jobs : status[j] = "done" => <<j, lease[j]>> \in accepted
    /\ \A w \in Workers : pc[w] \in {"start", "scan"} => hold[w][2] = lease[hold[w][1]]

\* No POST is answered with an error.
NeverRefused == \A w \in Workers : answer[w] # "error"

\* Steps that give no lease, store no row and let no worker hold another job.
LEMMA LeaseQuiet ==
    ASSUME TypeInv, LeaseInv, NeverRefused, lease' = lease,
           \A j \in Jobs : rows'[j] # NoRow => rows'[j] = rows[j],
           \A j \in Jobs : status'[j] = "done" => status[j] = "done",
           accepted \subseteq accepted',
           \A v \in Workers :
               /\ answer'[v] = "error" => answer[v] = "error"
               /\ pc'[v] \in {"start", "scan"} =>
                   pc[v] \in {"start", "scan"} /\ hold'[v] = hold[v]
    PROVE  LeaseInv' /\ NeverRefused'
  BY DEF LeaseInv, NeverRefused

\* A worker that claims has no row and no job in hand, so a new lease makes nothing
\* older than it was.
LEMMA LeaseGiven ==
    ASSUME TypeInv, SafeInv, LeaseInv, NeverRefused,
           NEW w \in Workers, pc[w] = "claim", NEW j \in Own(w), Lease(j),
           UNCHANGED <<rows, accepted>>,
           \A v \in Workers :
               /\ answer'[v] = "error" => answer[v] = "error"
               /\ pc'[v] \in {"start", "scan"} =>
                   \/ pc[v] \in {"start", "scan"} /\ hold'[v] = hold[v]
                   \/ hold'[v] = <<j, lease'[j]>>
    PROVE  LeaseInv' /\ NeverRefused'
<1>1. /\ j \in Jobs /\ Owner[j] = w /\ status[j] = "queued" /\ rows[j] = NoRow
      /\ \A i \in Jobs : i # j => lease'[i] = lease[i] /\ status'[i] = status[i]
      /\ status'[j] = "leased"
  BY DEF Own, Lease, TypeInv, TypeOK, SafeInv, OwnRowsGone
<1>2. ASSUME NEW v \in Workers, pc[v] \in {"start", "scan"}
      PROVE  hold[v][1] \in Jobs /\ hold[v][1] # j
  BY <1>1, <1>2 DEF TypeInv, Locals, Results
<1>3. \A v \in Workers : pc'[v] \in {"start", "scan"} => hold'[v][2] = lease'[hold'[v][1]]
  BY <1>1, <1>2 DEF LeaseInv
<1> QED
  BY <1>1, <1>3 DEF LeaseInv, NeverRefused

\* The row that put writes has the token of the claim.
LEMMA LeaseStored ==
    ASSUME TypeInv, LeaseInv, NeverRefused, NEW w \in Workers, pc[w] = "scan",
           Put(hold[w][1], hold[w][2]), UNCHANGED <<lease, status, accepted>>,
           \A v \in Workers :
               /\ answer'[v] = "error" => answer[v] = "error"
               /\ pc'[v] \in {"start", "scan"} =>
                   pc[v] \in {"start", "scan"} /\ hold'[v] = hold[v]
    PROVE  LeaseInv' /\ NeverRefused'
<1> DEFINE job == hold[w][1]
<1>1. job \in Jobs /\ hold[w][2] \in Tokens /\ hold[w][2] = lease[job]
  BY DEF TypeInv, Locals, Results, LeaseInv
<1>2. PICK at \in Nat :
        rows' = [rows EXCEPT ![job] = [job |-> job, token |-> hold[w][2], at |-> at]]
  BY <1>1, PutRow DEF TypeInv
<1>3. \A j \in Jobs : rows'[j] # NoRow => rows'[j].token = lease[j]
  BY <1>1, <1>2 DEF TypeInv, TypeOK, LeaseInv
<1> QED
  BY <1>3 DEF LeaseInv, NeverRefused

\* RADAR can take what is in a snapshot, though its lease may have run out.
LEMMA RowsTakeable ==
    ASSUME TypeInv, SafeInv, LeaseInv, AcceptsExpired, NEW w \in Workers, NEW r \in batch[w]
    PROVE  Takes(Id(r))
<1>1. r \in Row /\ r.job \in Jobs /\ r # NoRow /\ Id(r)[1] = r.job /\ Id(r)[2] = r.token
  BY ConstantsAssumption DEF TypeInv, TypeOK, Row, Tokens, Id
<1>2. CASE Id(r) \in accepted
  BY <1>2 DEF Takes
<1>3. CASE rows[r.job] = r
  <2>1. lease[r.job] = r.token
    BY <1>1, <1>3 DEF LeaseInv
  <2>2. CASE status[r.job] = "done"
    BY <1>1, <2>1, <2>2 DEF LeaseInv, Takes, Id
  <2>3. CASE status[r.job] \in {"leased", "queued"}
    BY <1>1, <2>1, <2>3 DEF Takes
  <2> QED
    BY <1>1, <2>2, <2>3 DEF TypeInv, TypeOK
<1> QED
  BY <1>2, <1>3 DEF SafeInv, SnapshotsAgree

\* A result taken is one of the newest lease, or was taken before.
LEMMA LeaseTaken ==
    ASSUME TypeInv, SafeInv, LeaseInv, NeverRefused, NEW id \in Results, Accept(id),
           UNCHANGED <<rows, lease, pc, hold>>,
           \A v \in Workers : answer'[v] = "error" => answer[v] = "error"
    PROVE  LeaseInv' /\ NeverRefused'
<1>1. /\ accepted' = accepted \cup {id} /\ status' = [status EXCEPT ![id[1]] = "done"]
      /\ id[1] \in Jobs /\ id = <<id[1], id[2]>>
  BY DEF Accept, Results
<1>2. status'[id[1]] = "done" => <<id[1], lease[id[1]]>> \in accepted'
  <2>1. CASE id \in accepted
    BY <1>1, <2>1 DEF SafeInv, Closed, LeaseInv
  <2>2. CASE lease[id[1]] = id[2]
    BY <1>1, <2>2
  <2> QED
    BY <2>1, <2>2 DEF Accept, Takes
<1>3. \A j \in Jobs : status'[j] = "done" => <<j, lease[j]>> \in accepted'
  BY <1>1, <1>2 DEF TypeInv, TypeOK, LeaseInv
<1> QED
  BY <1>3 DEF LeaseInv, NeverRefused

\* Without an agent on another machine no step makes a result that is refused.
LEMMA LeaseStep ==
    ASSUME AcceptsExpired, ~OtherAgents, TypeInv, SafeInv, LeaseInv, NeverRefused, [Next]_vars
    PROVE  LeaseInv' /\ NeverRefused'
<1> USE DEF TypeInv, TypeOK, Locals, store, worker, radar, Results, Tokens
<1>1. ASSUME NEW w \in Workers,
             \/ HeartbeatAccepted(w) \/ Submit(w) \/ RetryDelay(w) \/ ClaimEmpty(w)
             \/ StartReturns(w) \/ Checkpoint(w) \/ ScanRaises(w) \/ Join(w)
             \/ RenewCalls(w) \/ RenewReturns(w)
      PROVE  LeaseInv' /\ NeverRefused'
  BY <1>1, LeaseQuiet DEF HeartbeatAccepted, Submit, RetryDelay, ClaimEmpty, StartReturns,
     Checkpoint, ScanRaises, Join, RenewCalls, RenewReturns
<1>2. ASSUME NEW w \in Workers, SubmitRaises(w) \/ SubmitTimesOut(w) \/ StartRaises(w)
      PROVE  LeaseInv' /\ NeverRefused'
  BY <1>2, LeaseQuiet DEF SubmitRaises, SubmitTimesOut, StartRaises, Raise
<1>3. ASSUME NEW w \in Workers, ListPending(w) PROVE LeaseInv' /\ NeverRefused'
  <2>1. \E p \in {"flush", "claim", "submit"} : pc' = [pc EXCEPT ![w] = p]
    BY <1>3, FlushDoneGoesOn DEF ListPending
  <2> QED
    BY <1>3, <2>1, LeaseQuiet DEF ListPending
<1>4. ASSUME NEW w \in Workers, SubmitReturns(w) PROVE LeaseInv' /\ NeverRefused'
  <2>1. pc' = pc \/ \E p \in {"flush", "claim"} : pc' = [pc EXCEPT ![w] = p]
    BY <1>4, FlushDoneGoesOn DEF SubmitReturns
  <2>2. rows' = [rows EXCEPT ![post[w].job] = NoRow]
    BY <1>4 DEF SubmitReturns, Delete
  <2>3. \A j \in Jobs : rows'[j] # NoRow => rows'[j] = rows[j]
    BY <2>2
  <2> QED
    BY <1>4, <2>1, <2>3, LeaseQuiet DEF SubmitReturns
<1>5. ASSUME NEW w \in Workers, ClaimReturns(w) PROVE LeaseInv' /\ NeverRefused'
  BY <1>5, LeaseGiven DEF ClaimReturns
<1>6. ASSUME NEW w \in Workers, ClaimLost(w) PROVE LeaseInv' /\ NeverRefused'
  BY <1>6, LeaseGiven DEF ClaimLost, Raise
<1>7. ASSUME NEW w \in Workers, ScanReturns(w) PROVE LeaseInv' /\ NeverRefused'
  BY <1>7, LeaseStored DEF ScanReturns
<1>8. ASSUME CrashAfterPut PROVE LeaseInv' /\ NeverRefused'
  BY <1>8, LeaseStored DEF CrashAfterPut, Restart
<1>9. ASSUME NEW w \in Workers, RadarAccepts(w) PROVE LeaseInv' /\ NeverRefused'
  <2>1. post[w] \in Row /\ Id(post[w]) \in Results
    BY <1>9 DEF RadarAccepts, Row, Id
  <2> QED
    BY <1>9, <2>1, LeaseTaken DEF RadarAccepts
<1>10. ASSUME NEW w \in Workers PROVE ~RadarRejects(w)
  BY RowsTakeable DEF RadarRejects
<1>11. ASSUME LateArrives PROVE LeaseInv' /\ NeverRefused'
  BY <1>11, LeaseTaken DEF LateArrives
<1>12. ASSUME LateVanishes \/ LeaseExpires \/ Crash PROVE LeaseInv' /\ NeverRefused'
  BY <1>12, LeaseQuiet DEF LateVanishes, LeaseExpires, Crash, Restart
<1>13. CASE UNCHANGED vars
  BY <1>13, LeaseQuiet DEF vars
<1> QED
  BY <1>1, <1>2, <1>3, <1>4, <1>5, <1>6, <1>7, <1>8, <1>9, <1>10, <1>11, <1>12, <1>13
     DEF Next, WorkerStep, Outside, Environment, OtherAgentRuns

\* Without an agent on another machine, and with a RADAR that takes a result whose
\* lease has run out, no result is ever refused: any crashes, time-outs, lost claims
\* and late POSTs of the two workers are not enough for a row that holds up every
\* flush (job_runner.py 41-54, 76-87; service.py _worker_loop).
THEOREM NeverRefusedHolds ==
    ASSUME AcceptsExpired, ~OtherAgents
    PROVE  Spec => []NeverRefused
<1>1. Init => LeaseInv /\ NeverRefused
  BY DEF Init, LeaseInv, NeverRefused
<1>2. TypeInv /\ SafeInv /\ LeaseInv /\ NeverRefused /\ [Next]_vars => LeaseInv' /\ NeverRefused'
  BY LeaseStep
<1> QED
  BY <1>1, <1>2, TypeInvariant, SafeInvariant, PTL DEF Spec

=============================================================================
