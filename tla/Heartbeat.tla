------------------------------ MODULE Heartbeat ------------------------------
(***************************************************************************)
(* What a heartbeat of the APK worker tells RADAR (scanner_client.py): the *)
(* testcases that are ready, from a snapshot of the device that may be of  *)
(* an earlier heartbeat, and the model of the phone, from a cache keyed by *)
(* the phone's hardware serial or, with an older scanner, its ADB serial.  *)
(* Who may talk to the scanner at once is module ApkProbe: here the probe  *)
(* lock only keeps a scan from starting while the device is read.          *)
(*                                                                         *)
(* A phone stands for its hardware serial, which is its ADB serial on USB, *)
(* and for its model.  Wifi is the ADB serial of the phone at the address  *)
(* the scanner uses.                                                       *)
(***************************************************************************)
CONSTANTS
    Phones,
    Wifi,     \* the ADB serial over Wi-Fi, an address
    None,
    Scanners, \* APIs of the scanner: "hardware" reports hardwareSerial, "adb" not
    Roaming   \* whether the address may pass from one phone to another

\* What the constants are; the instance that is checked assumes it.
ConstantsAssumption ==
    /\ None \notin Phones
    /\ Wifi \notin Phones \cup {None}
    /\ Scanners \subseteq {"hardware", "adb"}
    /\ Roaming \in BOOLEAN

VARIABLES
    usb, air,  \* the phones on the USB port and at the Wi-Fi address
    scanning,  \* _scan_in_progress
    pc,        \* the await the heartbeat is at
    status,    \* scanner_status
    payload,   \* _last_device_payload, which is also the local device_payload
    catalog,   \* _last_testcase_catalog: the device types of its testcases
    models,    \* _device_models, None where it has no entry
    fresh,     \* whether payload was read by this heartbeat
    sent       \* what the last heartbeat said

world == <<usb, air>>
cache == <<payload, catalog, models>>
vars  == <<world, scanning, pc, status, cache, fresh, sent>>

Types == {"main", "main_usb", "emulator"}
Maybe == Phones \cup {None}

\* The device of GET /device; serves: the device types whose needs it meets.
Payloads ==
    [usb: Maybe, wifi: BOOLEAN, phone: Maybe, hardware: Maybe, model: Maybe,
     serves: SUBSET Types]

Nothing == [usb |-> None, wifi |-> FALSE, phone |-> None, hardware |-> None,
            model |-> None, serves |-> {}]

\* The device is only read while no scan of this worker runs.
TypeOK ==
    /\ usb \in Maybe
    /\ air \in Maybe
    /\ scanning \in BOOLEAN
    /\ pc \in {"rest", "health", "lock", "device", "testcases", "model", "adb"}
    /\ status \in {"unavailable", "busy", "ready"}
    /\ payload \in Payloads
    /\ catalog \in SUBSET Types
    /\ models \in [Phones \cup {Wifi} -> Maybe]
    /\ fresh \in BOOLEAN
    /\ sent \in [phone: Maybe, model: Maybe, ready: SUBSET Types, fresh: BOOLEAN]
    /\ pc \in {"device", "testcases"} => ~scanning

Init ==
    /\ usb = None
    /\ air \in Maybe
    /\ scanning = FALSE
    /\ pc = "rest"
    /\ status = "unavailable"
    /\ payload = Nothing
    /\ catalog = {"main"}
    /\ models = [s \in Phones \cup {Wifi} |-> None]
    /\ fresh = FALSE
    /\ sent = [phone |-> None, model |-> None, ready |-> {}, fresh |-> FALSE]

-----------------------------------------------------------------------------
(* The phones, and the job the other coroutine of the worker runs.         *)

Plug ==
    /\ usb' \in Maybe \ {usb}
    /\ UNCHANGED <<air, scanning, pc, status, cache, fresh, sent>>

\* A Wi-Fi lease ends, and the router may give the address to another phone.
Readdress ==
    /\ Roaming
    /\ air' \in Maybe \ {air}
    /\ UNCHANGED <<usb, scanning, pc, status, cache, fresh, sent>>

\* run_scan: the flag is set under the probe lock.
ScanBegins ==
    /\ ~scanning
    /\ pc \notin {"device", "testcases"}
    /\ scanning' = TRUE
    /\ UNCHANGED <<world, pc, status, cache, fresh, sent>>

ScanEnds ==
    /\ scanning
    /\ scanning' = FALSE
    /\ UNCHANGED <<world, pc, status, cache, fresh, sent>>

-----------------------------------------------------------------------------
(* heartbeat_payload.                                                      *)

HeartbeatStarts ==
    /\ pc = "rest"
    /\ pc' = "health"
    /\ status' = "unavailable"
    /\ fresh' = FALSE
    /\ UNCHANGED <<world, scanning, cache, sent>>

\* The scanner is busy with a job, of this worker or of anyone.
HealthAnswers ==
    /\ pc = "health"
    /\ \E busy \in BOOLEAN :
         IF busy \/ scanning
         THEN status' = "busy" /\ pc' = "model"
         ELSE status' = "ready" /\ pc' = "lock"
    /\ UNCHANGED <<world, scanning, cache, fresh, sent>>

\* A scan may have begun before the lock was free.
Locked ==
    /\ pc = "lock"
    /\ IF scanning
       THEN status' = "busy" /\ pc' = "model"
       ELSE pc' = "device" /\ UNCHANGED status
    /\ UNCHANGED <<world, scanning, cache, fresh, sent>>

\* The device types served by channels that are online; an older scanner says
\* nothing of the cable, and then any channel will do for main_usb.
Serves(onUsb, onWifi, cable, emulator) ==
    {t \in Types :
       CASE t = "main"     -> onUsb \/ onWifi
         [] t = "main_usb" -> onUsb \/ (onWifi /\ cable # "out")
         [] t = "emulator" -> emulator}

\* GET /device.
DeviceAnswers ==
    /\ pc = "device"
    /\ LET main == IF usb # None THEN usb ELSE air
       IN  \E api \in Scanners, m \in {main, None},
              cable \in {"in", "out", "unknown"}, emulator \in BOOLEAN :
             payload' = [usb |-> usb, wifi |-> air # None, phone |-> main, model |-> m,
                         hardware |-> IF api = "hardware" THEN main ELSE None,
                         serves |-> Serves(usb # None, air # None, cable, emulator)]
    /\ fresh' = TRUE
    /\ pc' = "testcases"
    /\ UNCHANGED <<world, scanning, status, catalog, models, sent>>

\* Mutant: the status of the health check is kept.
Unavailable_Ready == UNCHANGED status

Unavailable == status' = "unavailable"

\* GET /health or GET /device fails: the last snapshot is what is reported.
ProbeFails ==
    /\ pc \in {"health", "device"}
    /\ Unavailable
    /\ pc' = "model"
    /\ UNCHANGED <<world, scanning, cache, fresh, sent>>

\* GET /testcases; when it fails the last catalog stays.
TestcasesAnswer ==
    /\ pc = "testcases"
    /\ catalog' \in {catalog, Types, {}}
    /\ pc' = "model"
    /\ UNCHANGED <<world, scanning, status, payload, models, fresh, sent>>

-----------------------------------------------------------------------------
(* _resolve_device_model and build_heartbeat_payload.                      *)

\* Mutant: Wi-Fi before USB.
Serial_WifiFirst == IF payload.wifi THEN Wifi ELSE payload.usb

\* The ADB serial of the selected channel, USB first.
Serial ==
    IF payload.usb # None THEN payload.usb
    ELSE IF payload.wifi THEN Wifi ELSE None

Identity == IF payload.hardware # None THEN payload.hardware ELSE Serial

Known == IF Identity = None THEN None ELSE models[Identity]

\* A testcase is ready only with a scanner that is neither busy nor away.
Ready == IF status = "ready" THEN catalog \cap payload.serves ELSE {}

Send(model) ==
    /\ sent' = [phone |-> payload.phone, model |-> model, ready |-> Ready, fresh |-> fresh]
    /\ pc' = "rest"

\* The scanner names the model itself.
Reported ==
    /\ pc = "model"
    /\ payload.model # None
    /\ models' = [models EXCEPT ![Identity] = payload.model]
    /\ Send(payload.model)
    /\ UNCHANGED <<world, scanning, status, payload, catalog, fresh>>

\* The cache, or nothing to ask.
NotAsked ==
    /\ pc = "model"
    /\ payload.model = None
    /\ Known # None \/ status = "busy" \/ Serial = None
    /\ Send(Known)
    /\ UNCHANGED <<world, scanning, status, cache, fresh>>

AskAdb ==
    /\ pc = "model"
    /\ payload.model = None
    /\ Known = None
    /\ status # "busy"
    /\ Serial # None
    /\ pc' = "adb"
    /\ UNCHANGED <<world, scanning, status, cache, fresh, sent>>

\* Who answers to an ADB serial.
At(s) == IF s = Wifi THEN air ELSE IF s = usb THEN usb ELSE None

\* ADB answers with the phone that has the serial now, or does not.
AdbAnswers ==
    /\ pc = "adb"
    /\ \E m \in {At(Serial), None} :
         /\ models' = IF m = None THEN models ELSE [models EXCEPT ![Identity] = m]
         /\ Send(m)
    /\ UNCHANGED <<world, scanning, status, payload, catalog, fresh>>

Next ==
    \/ Plug \/ Readdress \/ ScanBegins \/ ScanEnds
    \/ HeartbeatStarts \/ HealthAnswers \/ Locked \/ DeviceAnswers \/ ProbeFails
    \/ TestcasesAnswer \/ Reported \/ NotAsked \/ AskAdb \/ AdbAnswers

Spec == Init /\ [][Next]_vars

-----------------------------------------------------------------------------
(* Properties.                                                             *)

\* RADAR is only told a testcase is ready from a device read in the same
\* heartbeat, never from the snapshot kept while the scanner is busy or away.
ReadyIsFresh == sent.ready # {} => sent.fresh

\* The model reported is the one of the phone in the snapshot, or none: neither
\* the cache nor a late answer of ADB gives the model of another phone.
ModelIsPhones == sent.model \in {None, sent.phone}
=============================================================================
