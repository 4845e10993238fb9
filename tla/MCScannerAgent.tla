-------------------------- MODULE MCScannerAgent --------------------------
(* Instances of ScannerAgent for TLC: an APK worker and a DAST worker.      *)
EXTENDS ScannerAgent, TLC

CONSTANTS apk, dast, job1, job2

OneJobEach == (job1 :> apk) @@ (job2 :> dast)
OnlyDast   == job2 :> dast
===========================================================================
