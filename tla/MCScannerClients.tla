--------------------------- MODULE MCScannerClients ---------------------------
(***************************************************************************)
(* An instance for TLC of the models of those who ask the APK Scanner: who *)
(* asks when (ApkProbe), what a heartbeat makes of the answers (Heartbeat),*)
(* and a run of the Manager's diagnostics with its other checks            *)
(* (Diagnostics).  A behaviour is one of one model; the variables of the   *)
(* others stay as they begin.                                              *)
(***************************************************************************)
EXTENDS ApkProbe

CONSTANTS Phones, Wifi, None, Scanners, Roaming

VARIABLES
    story,
    usb, air, scanning, pc, scannerStatus, payload, catalog, models, fresh, sent,
    at, dast, token, results, events, conf, running, button, steps, rows, seen,
    label, update, tray

H == INSTANCE Heartbeat WITH status <- scannerStatus
D == INSTANCE Diagnostics

ASSUME PhonesAssumption == H!ConstantsAssumption

heartbeatVars == <<usb, air, scanning, pc, scannerStatus, payload, catalog, models, fresh, sent>>
checkVars ==
    <<at, dast, token, results, events, conf, running, button, steps, rows, seen, label,
      update, tray>>

Stories == {"probe", "heartbeat", "checks"}

MCInit ==
    /\ story \in Stories
    /\ Init
    /\ H!Init
    /\ D!Init
    /\ story # "heartbeat" => air = None
    /\ story # "checks" => ~conf /\ ~tray

MCNext ==
    /\ UNCHANGED story
    /\ \/ story = "probe" /\ Next /\ UNCHANGED <<heartbeatVars, checkVars>>
       \/ story = "heartbeat" /\ H!Next /\ UNCHANGED <<vars, checkVars>>
       \/ story = "checks" /\ D!Next /\ UNCHANGED <<vars, heartbeatVars>>

MCSpec == MCInit /\ [][MCNext]_<<story, vars, heartbeatVars, checkVars>>

\* The fairness of ApkProbe while its story is told, and that of Diagnostics, whose
\* actions are not enabled before a run begins.
MCFairness ==
    /\ WF_vars(story = "probe" /\ Heartbeat)
    /\ WF_vars(story = "probe" /\ ScanLocks)
    /\ WF_vars(story = "probe" /\ HealthAnswered)
    /\ WF_vars(story = "probe" /\ DeviceStep)
    /\ D!Fairness

MCFairSpec == MCSpec /\ MCFairness

\* docs/architecture.md:115-116: heartbeats go on while a testcase runs, however
\* long it takes.
ProbesGoOn == story = "probe" => HeartbeatsGoOn

\* The types of all three: the scanner's word never becomes a heartbeat's status,
\* the device is only read outside a scan, and the token's task and its row in the
\* table have one verdict.
AllTypesOK == TypeOK /\ H!TypeOK /\ D!TypeOK

\* RADAR is only told a testcase is ready from a device read in the same
\* heartbeat, never from the snapshot kept while the scanner is busy or away
\* (scanner_client.py 95-98, 219-256).
ReadyIsFresh == H!ReadyIsFresh

\* The model reported is the one of the phone in the snapshot, or none: neither
\* the cache nor a late answer of ADB gives the model of another phone
\* (scanner_client.py 185-217).
ModelIsPhones == H!ModelIsPhones

\* While the checks run, the line under the table counts the rows that have a verdict
\* and those that passed, and a summary stands under a table whose every row has its
\* verdict and counts them all (manager.py 1425-1437).  The total while they run is not
\* part of it: Save and Reload change it (LabelTotal of Diagnostics).
LabelCountsRows == D!LabelCountsRows

\* With the UI free and no run under way, "Run checks" can be pressed, if no run
\* was started behind the update's question (manager.py 1120, 1442).
ButtonBack == D!ButtonBack

\* Every run ends, with a summary or an error (manager.py 1433-1454).
EveryRunEnds == D!EveryRunEnds
===============================================================================
