---------------------------- MODULE ApkProbeProofs ----------------------------
(***************************************************************************)
(* ApkProbe keeps its types, its two coroutines keep out of each other's   *)
(* way, and the scanner never works on the heartbeat's probe beside a      *)
(* testcase.                                                               *)
(***************************************************************************)
EXTENDS ApkProbe, Integers, SequenceTheorems, TLAPS

USE DEF coroutines, scanner, Clients, Requests

\* The queue of the lock holds the coroutines that are at it, each once.
QueueInv ==
    /\ hb # "lock" /\ scan # "lock" => queue = <<>>
    /\ hb = "lock" /\ scan # "lock" => queue = <<"heartbeat">>
    /\ hb # "lock" /\ scan = "lock" => queue = <<"scan">>
    /\ hb = "lock" /\ scan = "lock" =>
        queue \in {<<"heartbeat", "scan">>, <<"scan", "heartbeat">>}

\* The lock and the flag say where the two coroutines are.
LockInv ==
    /\ lock = "heartbeat" <=> hb \in {"device", "testcases"}
    /\ inProgress = "yes" <=> scan = "post"
    /\ job \in {"sent", "running", "answered"} => scan = "post"
    /\ device["heartbeat"] # "none" => hb = "device"

\* A scan that was given up is noticed by the answer of GET /health, or the
\* heartbeat comes to the lock before it is given up.
GapInv ==
    /\ health["heartbeat"] = "free" => job # "orphan"
    /\ hb \in {"lock", "device"} => job # "orphan"

Inv == TypeOK /\ QueueInv /\ LockInv /\ LocalExclusion /\ GapInv /\ OwnProbeAvoidsScan

-----------------------------------------------------------------------------
\* The lock's queue keeps its type whoever leaves or joins it.
LEMMA QueueTyped ==
    ASSUME NEW q \in Seq({"heartbeat", "scan"})
    PROVE  /\ \A c \in {"heartbeat", "scan"} : Append(q, c) \in Seq({"heartbeat", "scan"})
           /\ q # <<>> => Tail(q) \in Seq({"heartbeat", "scan"})
  OBVIOUS

\* A coroutine that is let in leaves a well-typed queue behind.
LEMMA GrantedTyped ==
    ASSUME TypeOK, NEW c, Granted(c)
    PROVE  queue' \in Seq({"heartbeat", "scan"})
  BY QueueTyped DEF TypeOK, Granted

\* Every step keeps the types.
LEMMA TypeStep == TypeOK /\ [Next]_vars => TypeOK'
<1> SUFFICES ASSUME TypeOK, [Next]_vars PROVE TypeOK'
  OBVIOUS
<1>1. CASE HeartbeatStarts
  BY <1>1 DEF HeartbeatStarts, TypeOK
<1>2. CASE HealthReturns
  <2>1. queue' \in Seq({"heartbeat", "scan"})
    BY <1>2, QueueTyped DEF HealthReturns, TypeOK
  <2> QED
    BY <1>2, <2>1 DEF HealthReturns, TypeOK
<1>3. CASE HealthRaises
  BY <1>3 DEF HealthRaises, TypeOK
<1>4. CASE LockAcquired
  <2>1. queue' \in Seq({"heartbeat", "scan"})
    BY <1>4, GrantedTyped DEF LockAcquired
  <2> QED
    BY <1>4, <2>1 DEF LockAcquired, Probe, TypeOK
<1>5. CASE DeviceReturns \/ DeviceRaises \/ TestcasesReturn \/ HeartbeatSent
  BY <1>5 DEF DeviceReturns, DeviceRaises, Abandon, TestcasesReturn, HeartbeatSent, TypeOK
<1>6. CASE ScanStarts
  <2>1. queue' \in Seq({"heartbeat", "scan"})
    BY <1>6, QueueTyped DEF ScanStarts, TypeOK
  <2> QED
    BY <1>6, <2>1 DEF ScanStarts, TypeOK
<1>7. CASE ScanLocks
  <2>1. queue' \in Seq({"heartbeat", "scan"})
    BY <1>7, GrantedTyped DEF ScanLocks
  <2> QED
    BY <1>7, <2>1 DEF ScanLocks, TypeOK
<1>8. CASE ScanReturns \/ ScanTimesOut
  BY <1>8 DEF ScanReturns, ScanTimesOut, TypeOK
<1>9. CASE DiagnosticsStart
  BY <1>9 DEF DiagnosticsStart, TypeOK
<1>10. CASE DiagnosticsHealth
  BY <1>10 DEF DiagnosticsHealth, TypeOK
<1>11. CASE DiagnosticsDone
  BY <1>11 DEF DiagnosticsDone, Abandon, TypeOK
<1>12. CASE HealthAnswered
  BY <1>12 DEF HealthAnswered, TypeOK
<1>13. CASE DeviceStep
  BY <1>13 DEF DeviceStep, TypeOK
<1>14. CASE OrphanEnds
  <2>1. orphans' \subseteq Clients /\ job' \in Requests \cup {"orphan"}
    BY <1>14 DEF OrphanEnds, TypeOK
  <2> QED
    BY <1>14, <2>1 DEF OrphanEnds, TypeOK
<1>15. CASE TestcaseStep
  BY <1>15 DEF TestcaseStep, TypeOK
<1>16. CASE UNCHANGED vars
  BY <1>16 DEF vars, TypeOK
<1> QED
  BY <1>1, <1>2, <1>3, <1>4, <1>5, <1>6, <1>7, <1>8, <1>9, <1>10, <1>11, <1>12, <1>13, <1>14,
     <1>15, <1>16 DEF Next, Heartbeat, Scan

\* Every variable keeps its type.
THEOREM TypeCorrect == Spec => []TypeOK
<1>1. Init => TypeOK
  BY DEF Init, TypeOK
<1> QED
  BY <1>1, TypeStep, PTL DEF Spec

-----------------------------------------------------------------------------
\* The second of two waiters stands behind the first.
LEMMA AppendOne ==
    ASSUME NEW x, NEW y
    PROVE  Append(<<x>>, y) = <<x, y>>
<1>1. <<x>> \in Seq({x, y}) /\ <<x, y>> \in Seq({x, y})
  OBVIOUS
<1>2. Len(<<x>>) = 1 /\ Len(<<x, y>>) = 2
  OBVIOUS
<1>3. Append(<<x>>, y) \in Seq({x, y}) /\ Len(Append(<<x>>, y)) = 2
  BY <1>1, <1>2
<1>4. \A i \in 1..2 : Append(<<x>>, y)[i] = <<x, y>>[i]
  BY <1>1, <1>2
<1> QED
  BY <1>1, <1>2, <1>3, <1>4, SeqEqual

\* A coroutine that gets the lock was the first of the queue.
LEMMA QueueStep == TypeOK /\ QueueInv /\ [Next]_vars => QueueInv'
<1> SUFFICES ASSUME TypeOK, QueueInv, [Next]_vars PROVE QueueInv'
  OBVIOUS
<1> USE DEF QueueInv
<1>1. CASE HealthReturns
  <2>1. hb = "health"
    BY <1>1 DEF HealthReturns
  <2>2. queue \in {<<>>, <<"scan">>}
    BY <2>1 DEF TypeOK
  <2>3. Append(<<>>, "heartbeat") = <<"heartbeat">>
    OBVIOUS
  <2>4. Append(<<"scan">>, "heartbeat") = <<"scan", "heartbeat">>
    BY AppendOne
  <2> QED
    BY <1>1, <2>1, <2>2, <2>3, <2>4 DEF HealthReturns, TypeOK
<1>2. CASE ScanStarts
  <2>1. Append(<<>>, "scan") = <<"scan">>
    OBVIOUS
  <2>2. Append(<<"heartbeat">>, "scan") = <<"heartbeat", "scan">>
    BY AppendOne
  <2> QED
    BY <1>2, <2>1, <2>2 DEF ScanStarts, TypeOK
<1>3. ASSUME NEW c, Granted(c) PROVE queue' = Tail(queue) /\ Head(queue) = c
  BY <1>3 DEF Granted
<1>4. /\ Tail(<<"heartbeat">>) = <<>> /\ Head(<<"heartbeat">>) = "heartbeat"
      /\ Tail(<<"scan">>) = <<>> /\ Head(<<"scan">>) = "scan"
      /\ Tail(<<"heartbeat", "scan">>) = <<"scan">>
      /\ Head(<<"heartbeat", "scan">>) = "heartbeat"
      /\ Tail(<<"scan", "heartbeat">>) = <<"heartbeat">>
      /\ Head(<<"scan", "heartbeat">>) = "scan"
  OBVIOUS
<1>5. CASE LockAcquired
  <2>1. hb = "lock" /\ hb' \in {"send", "device"} /\ scan' = scan
    BY <1>5 DEF LockAcquired, Probe
  <2>2. queue' = Tail(queue) /\ Head(queue) = "heartbeat"
    BY <1>5, <1>3 DEF LockAcquired
  <2> QED
    BY <2>1, <2>2, <1>4
<1>6. CASE ScanLocks
  <2>1. scan = "lock" /\ scan' = "post" /\ hb' = hb
    BY <1>6 DEF ScanLocks
  <2>2. queue' = Tail(queue) /\ Head(queue) = "scan"
    BY <1>6, <1>3 DEF ScanLocks
  <2> QED
    BY <2>1, <2>2, <1>4
<1>7. CASE HeartbeatStarts \/ HealthRaises \/ DeviceReturns \/ DeviceRaises \/ TestcasesReturn
           \/ HeartbeatSent
  BY <1>7 DEF HeartbeatStarts, HealthRaises, DeviceReturns, DeviceRaises, TestcasesReturn,
              HeartbeatSent
<1>8. CASE ScanReturns \/ ScanTimesOut
  BY <1>8 DEF ScanReturns, ScanTimesOut
<1>9. CASE \/ DiagnosticsStart \/ DiagnosticsHealth \/ DiagnosticsDone
           \/ HealthAnswered \/ DeviceStep \/ OrphanEnds \/ TestcaseStep
  BY <1>9 DEF DiagnosticsStart, DiagnosticsHealth, DiagnosticsDone, HealthAnswered, DeviceStep,
              OrphanEnds, TestcaseStep
<1>10. CASE UNCHANGED vars
  BY <1>10 DEF vars
<1> QED
  BY <1>1, <1>2, <1>5, <1>6, <1>7, <1>8, <1>9, <1>10 DEF Next, Heartbeat, Scan

Safe == LockInv /\ LocalExclusion /\ GapInv /\ OwnProbeAvoidsScan

\* The probe and the scan are kept apart by every step.
LEMMA SafeStep == TypeOK /\ Safe /\ [Next]_vars => Safe'
<1> SUFFICES ASSUME TypeOK, Safe, [Next]_vars PROVE Safe'
  OBVIOUS
<1> USE DEF TypeOK, Safe, LockInv, LocalExclusion, GapInv, OwnProbeAvoidsScan
<1>1. CASE HeartbeatStarts
  BY <1>1 DEF HeartbeatStarts
<1>2. CASE HealthReturns
  BY <1>2 DEF HealthReturns
<1>3. CASE HealthRaises
  BY <1>3 DEF HealthRaises
<1>4. CASE LockAcquired
  BY <1>4 DEF LockAcquired, Granted, Probe
<1>5. CASE DeviceReturns
  BY <1>5 DEF DeviceReturns
<1>6. CASE DeviceRaises
  BY <1>6 DEF DeviceRaises, Abandon
<1>7. CASE TestcasesReturn \/ HeartbeatSent
  BY <1>7 DEF TestcasesReturn, HeartbeatSent
<1>8. CASE ScanStarts
  BY <1>8 DEF ScanStarts
<1>9. CASE ScanLocks
  BY <1>9 DEF ScanLocks, Granted
<1>10. CASE ScanReturns
  BY <1>10 DEF ScanReturns
<1>11. CASE ScanTimesOut
  BY <1>11 DEF ScanTimesOut
<1>12. CASE DiagnosticsStart
  BY <1>12 DEF DiagnosticsStart
<1>13. CASE DiagnosticsHealth
  BY <1>13 DEF DiagnosticsHealth
<1>14. CASE DiagnosticsDone
  BY <1>14 DEF DiagnosticsDone, Abandon
<1>15. CASE HealthAnswered
  BY <1>15 DEF HealthAnswered
<1>16. CASE DeviceStep
  BY <1>16 DEF DeviceStep
<1>17. CASE OrphanEnds
  BY <1>17 DEF OrphanEnds
<1>18. CASE TestcaseStep
  BY <1>18 DEF TestcaseStep
<1>19. CASE UNCHANGED vars
  BY <1>19 DEF vars
<1> QED
  BY <1>1, <1>2, <1>3, <1>4, <1>5, <1>6, <1>7, <1>8, <1>9, <1>10, <1>11, <1>12, <1>13, <1>14,
     <1>15, <1>16, <1>17, <1>18, <1>19 DEF Next, Heartbeat, Scan

\* The inductive invariant holds of every behaviour.
LEMMA InvHolds == Spec => []Inv
<1>1. Init => Inv
  BY DEF Init, Inv, TypeOK, QueueInv, LockInv, LocalExclusion, GapInv, OwnProbeAvoidsScan
<1>2. Inv /\ [Next]_vars => Inv'
  BY TypeStep, QueueStep, SafeStep DEF Inv, Safe
<1> QED
  BY <1>1, <1>2, PTL DEF Spec

\* No probe of the agent is outstanding beside a scan of its own: the heartbeat
\* holds the lock from the device to the catalog, the scan raises its flag under it
\* (scanner_client.py 235-254, 279-286).
THEOREM LocalExclusionHolds == Spec => []LocalExclusion
<1>1. Inv => LocalExclusion
  BY DEF Inv
<1> QED
  BY <1>1, InvHolds, PTL

\* The scanner never works on the heartbeat's probe beside a testcase, not even one
\* that the agent has given up (scanner_client.py 224-244).
THEOREM OwnProbeAvoidsScanHolds == Spec => []OwnProbeAvoidsScan
<1>1. Inv => OwnProbeAvoidsScan
  BY DEF Inv
<1> QED
  BY <1>1, InvHolds, PTL

\* Every waiter of the lock is at it, once: no coroutine is granted the lock twice
\* or waits for it in vain (asyncio.Lock as used at scanner_client.py 235, 279).
THEOREM QueueHolds == Spec => []QueueInv
<1>1. Inv => QueueInv
  BY DEF Inv
<1> QED
  BY <1>1, InvHolds, PTL

=============================================================================
