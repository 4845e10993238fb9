--------------------------- MODULE ResultDelivery ---------------------------
(***************************************************************************)
(* What the outbox promises RADAR: a scan result, once stored, is pending  *)
(* until RADAR has taken it; it is never replaced, lost or stored again.   *)
(* ScannerAgent implements this specification.                             *)
(***************************************************************************)
CONSTANT Results    \* pairs <<job, lease token>>

VARIABLES
    pending,    \* the results stored on this machine
    delivered   \* the results RADAR has taken

vars == <<pending, delivered>>

Init == pending = {} /\ delivered = {}

\* A job has at most one pending result, and no result is stored twice.
Store(r) ==
    /\ r \notin delivered
    /\ \A p \in pending : p[1] # r[1]
    /\ pending' = pending \cup {r}
    /\ UNCHANGED delivered

Deliver(r) ==
    /\ r \in pending
    /\ delivered' = delivered \cup {r}
    /\ UNCHANGED pending

Remove(r) ==
    /\ r \in pending \cap delivered
    /\ pending' = pending \ {r}
    /\ UNCHANGED delivered

Next == \E r \in Results : Store(r) \/ Deliver(r) \/ Remove(r)

Spec == Init /\ [][Next]_vars

=============================================================================
