------------------------- MODULE ScannerClientsProofs -------------------------
(***************************************************************************)
(* Those who ask the APK Scanner, for any constants: what a heartbeat      *)
(* tells RADAR (Heartbeat, any number of phones and either generation of   *)
(* the scanner), a run of the Manager's diagnostics (Diagnostics), and     *)
(* the three of them beside each other (MCScannerClients), with the        *)
(* invariant of ApkProbe from its own proofs.                              *)
(***************************************************************************)
EXTENDS MCScannerClients, ApkProbeProofs, FiniteSetTheorems


-----------------------------------------------------------------------------
(* A heartbeat.                                                            *)

USE DEF H!world, H!cache

\* The phone whose hardware or ADB serial s is.
Owner(s) == IF s = Wifi THEN air ELSE s

\* A heartbeat begins within the types.
LEMMA BeatTypeInit == H!Init => H!TypeOK
<1> SUFFICES ASSUME H!Init PROVE H!TypeOK
  OBVIOUS
<1>1. /\ None \in H!Maybe
      /\ FALSE \in BOOLEAN
      /\ {"main"} \in SUBSET H!Types
      /\ {} \in SUBSET H!Types
  BY DEF H!Maybe, H!Types
<1>2. H!Nothing \in H!Payloads
  BY <1>1 DEF H!Nothing, H!Payloads
<1>3. models \in [Phones \cup {Wifi} -> H!Maybe]
  BY <1>1 DEF H!Init
<1>4. sent \in [phone: H!Maybe, model: H!Maybe, ready: SUBSET H!Types, fresh: BOOLEAN]
  BY <1>1 DEF H!Init
<1> QED
  BY <1>1, <1>2, <1>3, <1>4 DEF H!Init, H!TypeOK

\* The identity the cache is asked for is one of its keys.
LEMMA IdentityTyped ==
    ASSUME H!TypeOK
    PROVE  /\ H!Serial \in Phones \cup {Wifi, None}
           /\ H!Identity \in Phones \cup {Wifi, None}
           /\ H!Identity = None => H!Known = None
           /\ H!Identity # None => H!Known = models[H!Identity] /\ H!Known \in H!Maybe
           /\ H!Ready \in SUBSET H!Types
           /\ payload.phone \in H!Maybe
           /\ payload.model \in H!Maybe
<1>1. payload \in H!Payloads
  BY DEF H!TypeOK
<1>2. H!Serial \in Phones \cup {Wifi, None}
  BY <1>1 DEF H!Serial, H!Payloads, H!Maybe
<1>3. H!Identity \in Phones \cup {Wifi, None}
  BY <1>1, <1>2 DEF H!Identity, H!Payloads, H!Maybe
<1>4. H!Identity # None => H!Known = models[H!Identity] /\ models[H!Identity] \in H!Maybe
  BY <1>3 DEF H!Known, H!TypeOK
<1>5. H!Ready \in SUBSET H!Types
  BY DEF H!Ready, H!TypeOK
<1> QED
  BY <1>1, <1>2, <1>3, <1>4, <1>5 DEF H!Known, H!Payloads

\* A device that serves nothing it should not, whatever is plugged.
LEMMA ServesTypes ==
    ASSUME NEW a, NEW b, NEW c, NEW d PROVE H!Serves(a, b, c, d) \in SUBSET H!Types
  BY DEF H!Serves

\* The answer to GET /device is of the phones that are there.
LEMMA DevicePayload ==
    ASSUME H!TypeOK, H!DeviceAnswers
    PROVE  /\ payload' \in H!Payloads
           /\ payload'.usb = usb
           /\ payload'.wifi = (air # None)
           /\ payload'.phone = IF usb # None THEN usb ELSE air
           /\ payload'.hardware \in {payload'.phone, None}
           /\ payload'.model \in {payload'.phone, None}
<1> DEFINE main == IF usb # None THEN usb ELSE air
<1>1. PICK api \in Scanners, m \in {main, None}, cable \in {"in", "out", "unknown"}, emulator \in BOOLEAN :
        payload' = [usb |-> usb, wifi |-> air # None, phone |-> main, model |-> m,
                    hardware |-> IF api = "hardware" THEN main ELSE None,
                    serves |-> H!Serves(usb # None, air # None, cable, emulator)]
  BY DEF H!DeviceAnswers
<1>2. main \in H!Maybe /\ m \in H!Maybe /\ None \in H!Maybe /\ usb \in H!Maybe
  BY DEF H!TypeOK, H!Maybe
<1>3. (air # None) \in BOOLEAN
  OBVIOUS
<1>4. payload' \in H!Payloads
  BY <1>1, <1>2, <1>3, ServesTypes DEF H!Payloads
<1> QED
  BY <1>1, <1>4

-----------------------------------------------------------------------------
\* A status of ready is this heartbeat's, and once the device was to be read it
\* was read.
StatusInv == scannerStatus = "ready" /\ pc # "lock" /\ pc # "device" => fresh

\* What the snapshot says is of one phone, and the cache has it under its serials.
PhoneInv ==
    /\ payload.usb # None => payload.phone = payload.usb
    /\ payload.usb = None /\ payload.wifi => payload.phone = air
    /\ payload.hardware \in {payload.phone, None}
    /\ payload.model \in {payload.phone, None}
    /\ \A s \in Phones \cup {Wifi} : models[s] \in {Owner(s), None}

BeatInv == H!TypeOK /\ StatusInv /\ H!ReadyIsFresh

\* The last conjunct of the types is the reason no scan disturbs a device read.
LEMMA BeatStep == BeatInv /\ [H!Next]_(H!vars) => BeatInv'
<1> SUFFICES ASSUME BeatInv, [H!Next]_(H!vars) PROVE H!TypeOK' /\ StatusInv' /\ H!ReadyIsFresh'
  BY DEF BeatInv
<1>i. H!TypeOK /\ StatusInv /\ H!ReadyIsFresh
  BY DEF BeatInv
<1> USE <1>i DEF H!TypeOK, StatusInv, H!ReadyIsFresh
<1>s. ASSUME NEW m \in H!Maybe, H!Send(m), scannerStatus # "ready" \/ fresh,
             UNCHANGED <<usb, air, scanning, scannerStatus, payload, catalog, fresh>>,
             models' \in [Phones \cup {Wifi} -> H!Maybe]
      PROVE  H!TypeOK' /\ StatusInv' /\ H!ReadyIsFresh'
  <2>1. sent' = [phone |-> payload.phone, model |-> m, ready |-> H!Ready, fresh |-> fresh]
        /\ pc' = "rest"
    BY <1>s DEF H!Send
  <2>2. sent' \in [phone: H!Maybe, model: H!Maybe, ready: SUBSET H!Types, fresh: BOOLEAN]
    BY <1>s, <2>1, IdentityTyped
  <2>3. H!ReadyIsFresh'
    BY <1>s, <2>1 DEF H!Ready
  <2> QED
    BY <1>s, <2>1, <2>2, <2>3
<1>1. CASE H!Plug
  BY <1>1 DEF H!Plug
<1>2. CASE H!Readdress
  BY <1>2 DEF H!Readdress
<1>3. CASE H!ScanBegins
  BY <1>3 DEF H!ScanBegins
<1>4. CASE H!ScanEnds
  BY <1>4 DEF H!ScanEnds
<1>5. CASE H!HeartbeatStarts
  BY <1>5 DEF H!HeartbeatStarts
<1>6. CASE H!HealthAnswers
  BY <1>6 DEF H!HealthAnswers
<1>7. CASE H!Locked
  BY <1>7 DEF H!Locked
<1>8. CASE H!DeviceAnswers
  BY <1>8, DevicePayload DEF H!DeviceAnswers
<1>9. CASE H!ProbeFails
  BY <1>9 DEF H!ProbeFails, H!Unavailable
<1>10. CASE H!TestcasesAnswer
  BY <1>10 DEF H!TestcasesAnswer
<1>11. CASE H!Reported
  BY <1>11, <1>s, IdentityTyped DEF H!Reported
<1>12. CASE H!NotAsked
  BY <1>12, <1>s, IdentityTyped DEF H!NotAsked, H!Maybe
<1>13. CASE H!AskAdb
  BY <1>13 DEF H!AskAdb
<1>14. CASE H!AdbAnswers
  <2>1. PICK m \in {H!At(H!Serial), None} :
          /\ models' = IF m = None THEN models ELSE [models EXCEPT ![H!Identity] = m]
          /\ H!Send(m)
    BY <1>14 DEF H!AdbAnswers
  <2>2. m \in H!Maybe
    BY DEF H!At, H!Maybe
  <2>3. models' \in [Phones \cup {Wifi} -> H!Maybe]
    BY <2>1, <2>2
  <2> QED
    BY <1>14, <1>s, <2>1, <2>2, <2>3 DEF H!AdbAnswers
<1>15. CASE UNCHANGED H!vars
  BY <1>15 DEF H!vars
<1> QED
  BY <1>1, <1>2, <1>3, <1>4, <1>5, <1>6, <1>7, <1>8, <1>9, <1>10, <1>11, <1>12, <1>13,
     <1>14, <1>15 DEF H!Next

\* Ready and fresh go together in every behaviour.
LEMMA BeatHolds == H!Spec => []BeatInv
<1>1. H!Init => BeatInv
  BY BeatTypeInit DEF H!Init, BeatInv, StatusInv, H!ReadyIsFresh
<1> QED
  BY <1>1, BeatStep, PTL DEF H!Spec

\* Every variable keeps its type, and no scan starts while the device is read.
LEMMA HeartbeatTypes == H!Spec => []H!TypeOK
<1>1. BeatInv => H!TypeOK
  BY DEF BeatInv
<1> QED
  BY <1>1, BeatHolds, PTL

\* However probes fail and scans begin, a testcase is reported ready only from a
\* device this heartbeat has read.
LEMMA HeartbeatReady == H!Spec => []H!ReadyIsFresh
<1>1. BeatInv => H!ReadyIsFresh
  BY DEF BeatInv
<1> QED
  BY <1>1, BeatHolds, PTL

-----------------------------------------------------------------------------
\* A serial the cache is asked for is one of the phone in the snapshot.
LEMMA IdentityIsPhones ==
    ASSUME H!ConstantsAssumption, H!TypeOK, PhoneInv
    PROVE  /\ H!Identity # None => Owner(H!Identity) = payload.phone
           /\ H!At(H!Serial) \in {payload.phone, None}
           /\ H!Known \in {payload.phone, None}
<1>1. /\ payload.usb \in H!Maybe /\ payload.hardware \in H!Maybe /\ payload.wifi \in BOOLEAN
      /\ None \notin Phones /\ Wifi \notin Phones /\ Wifi # None
  BY DEF H!ConstantsAssumption, H!TypeOK, H!Payloads
<1>2. H!Identity # None => Owner(H!Identity) = payload.phone
  BY <1>1 DEF H!Identity, H!Serial, Owner, PhoneInv, H!Maybe
<1>3. H!At(H!Serial) \in {payload.phone, None}
  BY <1>1 DEF H!At, H!Serial, PhoneInv, H!Maybe
<1>4. H!Known \in {payload.phone, None}
  <2>1. CASE H!Identity = None
    BY <2>1, IdentityTyped
  <2>2. CASE H!Identity # None
    BY <2>2, <1>2, IdentityTyped DEF PhoneInv
  <2> QED
    BY <2>1, <2>2
<1> QED
  BY <1>2, <1>3, <1>4

\* Steps that touch neither the snapshot nor what the cache holds.
LEMMA PhoneQuiet ==
    ASSUME PhoneInv, H!ModelIsPhones, UNCHANGED <<air, payload, models, sent>>
    PROVE  PhoneInv' /\ H!ModelIsPhones'
  BY DEF PhoneInv, H!ModelIsPhones, Owner

\* A model is stored under the phone's own serial, and sent with the phone.
LEMMA PhoneSends ==
    ASSUME H!ConstantsAssumption, H!TypeOK, PhoneInv, NEW m \in {payload.phone, None}, H!Send(m),
           models' = models \/ models' = [models EXCEPT ![H!Identity] = m],
           UNCHANGED <<air, payload>>
    PROVE  PhoneInv' /\ H!ModelIsPhones'
<1>1. H!ModelIsPhones'
  BY DEF H!Send, H!ModelIsPhones
<1>2. ASSUME NEW s \in Phones \cup {Wifi} PROVE models'[s] \in {Owner(s), None}
  <2>1. models \in [Phones \cup {Wifi} -> H!Maybe] /\ models[s] \in {Owner(s), None}
    BY DEF H!TypeOK, PhoneInv
  <2>2. CASE s = H!Identity
    <3>1. H!Identity # None
      BY <2>2 DEF H!ConstantsAssumption
    <3> QED
      BY <2>1, <2>2, <3>1, IdentityIsPhones
  <2>3. CASE s # H!Identity
    BY <2>1, <2>3
  <2> QED
    BY <2>2, <2>3
<1> QED
  BY <1>1, <1>2 DEF PhoneInv, Owner

\* Snapshot and cache stay about one phone each.
LEMMA PhoneStep ==
    ASSUME H!ConstantsAssumption, ~Roaming, H!TypeOK, PhoneInv, H!ModelIsPhones, [H!Next]_(H!vars)
    PROVE  PhoneInv' /\ H!ModelIsPhones'
<1>1. CASE UNCHANGED <<air, payload, models, sent>>
  BY <1>1, PhoneQuiet
<1>2. CASE H!DeviceAnswers
  <2>1. UNCHANGED <<air, models, sent>>
    BY <1>2 DEF H!DeviceAnswers
  <2>2. /\ payload'.usb = usb /\ payload'.wifi = (air # None)
        /\ payload'.phone = IF usb # None THEN usb ELSE air
        /\ payload'.hardware \in {payload'.phone, None}
        /\ payload'.model \in {payload'.phone, None}
    BY <1>2, DevicePayload
  <2> QED
    BY <2>1, <2>2 DEF PhoneInv, H!ModelIsPhones, Owner
<1>3. CASE H!Reported
  BY <1>3, PhoneSends DEF H!Reported, PhoneInv
<1>4. CASE H!NotAsked
  BY <1>4, PhoneSends, IdentityIsPhones DEF H!NotAsked
<1>5. CASE H!AdbAnswers
  <2>1. PICK m \in {H!At(H!Serial), None} :
          /\ models' = IF m = None THEN models ELSE [models EXCEPT ![H!Identity] = m]
          /\ H!Send(m)
    BY <1>5 DEF H!AdbAnswers
  <2>2. m \in {payload.phone, None}
    BY IdentityIsPhones
  <2>3. UNCHANGED <<air, payload>>
    BY <1>5 DEF H!AdbAnswers
  <2> QED
    BY <2>1, <2>2, <2>3, PhoneSends
<1> QED
  BY <1>1, <1>2, <1>3, <1>4, <1>5
  DEF H!Next, H!vars, H!Plug, H!Readdress, H!ScanBegins, H!ScanEnds, H!HeartbeatStarts,
      H!HealthAnswers,
      H!Locked, H!ProbeFails, H!TestcasesAnswer, H!AskAdb

\* As long as the Wi-Fi address stays with its phone, no cache entry, answer of ADB or
\* old snapshot makes a heartbeat report the model of another phone.
LEMMA HeartbeatModel ==
    ASSUME H!ConstantsAssumption, ~Roaming
    PROVE  H!Spec => []H!ModelIsPhones
<1>1. H!Init => PhoneInv /\ H!ModelIsPhones
  BY DEF H!Init, PhoneInv, H!ModelIsPhones, H!Nothing
<1>2. H!TypeOK /\ PhoneInv /\ H!ModelIsPhones /\ [H!Next]_(H!vars) => PhoneInv' /\ H!ModelIsPhones'
  BY PhoneStep
<1> QED
  BY <1>1, <1>2, HeartbeatTypes, PTL DEF H!Spec

-----------------------------------------------------------------------------
(* A run of the diagnostics.                                               *)

\* Diagnostics counts with the Cardinality of its own FiniteSets.
LEMMA SameCount == \A S : D!Cardinality(S) = Cardinality(S)
  BY DEF D!Cardinality, Cardinality

Outcomes == {"none"} \cup D!Verdicts

\* What the worker thread emits.
Event ==
    [kind: {"started"}, key: D!Keys] \cup [kind: {"completed"}, key: D!Keys, verdict: D!Verdicts]
    \cup [kind: {"finished"}, results: [D!Keys -> Outcomes]] \cup [kind: {"failed"}]

Ends == {"finished", "failed"}

\* The signals of a queue, and the order they are emitted in.
Said(s) == {s[i] : i \in 1 .. Len(s)}

Before(a, b) ==
    /\ a.kind \notin Ends
    /\ b.kind \in Ends \/ a.key # b.key \/ (a.kind = "started" /\ b.kind = "completed")

Ordered(s) == \A i, j \in 1 .. Len(s) : i < j => Before(s[i], s[j])

Idle == at = D!AllKeys("none")

\* A signal on its way says what is so, and what the table does not show yet.
Told(e) ==
    /\ e.kind = "started" =>
        rows[e.key] = "WAITING" /\ (Idle \/ at[e.key] \in {"token", "request", "end"})
    /\ e.kind = "completed" =>
        results[e.key] = e.verdict /\ rows[e.key] \in {"WAITING", "RUNNING"}
    /\ e.kind = "finished" =>
        e.results = results /\ \A k \in D!Steps(dast) : results[k] # "none"
    /\ e.kind \in Ends => Idle

SignalsInv ==
    /\ events \in Seq(Event)
    /\ Ordered(events)
    /\ \A e \in Said(events) : Told(e)

\* run_diagnostics has been given to a thread that has done nothing yet.
Begun ==
    /\ at = D!AllKeys("start")
    /\ results = D!AllKeys("none")
    /\ events = <<>>
    /\ \A k \in D!Steps(dast) : rows[k] = "WAITING"

\* The checks are under way: the device waits for the scanner, and a check has a
\* result when it has ended.
Going ==
    /\ at["sso"] \in {"request", "end"}
    /\ at["scanner"] \in {"request", "end"}
    /\ at["radar"] \in {"token", "request", "end"}
    /\ at["dast"] \in {"request", "end"}
    /\ at["device"] \in {"none", "request", "end"}
    /\ at["device"] = "none" <=> at["scanner"] = "request"
    /\ at["device"] = "none" => rows["device"] = "WAITING"
    /\ ~dast => at["dast"] = "end" /\ results["dast"] = "none"
    /\ \A k \in D!Steps(dast) : at[k] = "end" <=> results[k] # "none"

\* The worker thread does nothing, or is at the one or the other.
ChecksInv == Idle \/ Begun \/ Going

\* The table has the rows of the run, a row has its verdict when that was heard of,
\* and a result nobody heard of yet is on its way.
BoardInv ==
    label.kind # "idle" =>
      \A k \in D!Keys :
        /\ k \in D!Steps(dast) <=> rows[k] # "none"
        /\ seen[k] # "none" => rows[k] = seen[k] /\ seen[k] = results[k]
        /\ rows[k] \in D!Verdicts => seen[k] # "none"
        /\ results[k] # "none" /\ seen[k] = "none" =>
             \E e \in Said(events) : e.kind = "completed" /\ e.key = k

\* The line under the table counts what was heard; a run under way with no check left
\* has its end on the way; a summary stands when everything was heard.
LabelInv ==
    /\ running <=> label.kind = "running"
    /\ ~running => events = <<>> /\ Idle
    /\ running /\ Idle => \E e \in Said(events) : e.kind \in Ends
    /\ label.kind = "running" =>
        /\ label.done = Cardinality(D!Concluded(seen))
        /\ label.passed = D!Count("PASSED", seen)
    /\ label.kind = "done" =>
        /\ \A k \in D!Steps(dast) : seen[k] # "none"
        /\ label.total = Cardinality(D!Concluded(seen))
        /\ label.passed = D!Count("PASSED", seen)

\* The inductive invariant of a run.
RunInv == D!TypeOK /\ SignalsInv /\ ChecksInv /\ BoardInv /\ LabelInv

\* Without the tray a run and an update exclude each other.
ButtonInv == ~tray => IF running THEN update = "none" ELSE button

\* The checks of a run.
LEMMA KeysOf ==
    /\ \A on : D!Steps(on) \subseteq D!Keys /\ {"sso", "scanner", "device", "radar"} \subseteq D!Steps(on)
    /\ \A on : "dast" \in D!Steps(on) <=> on
    /\ \A k : k \in D!Keys <=> k \in {"sso", "scanner", "device", "dast", "radar"}
  BY DEF D!Steps, D!Keys

\* What a signal is made of.
LEMMA EventKinds ==
    ASSUME NEW e \in Event
    PROVE  /\ e.kind \in {"started", "completed", "finished", "failed"}
           /\ e.kind = "started" => e.key \in D!Keys /\ e = D!Started(e.key)
           /\ e.kind = "completed" =>
                e.key \in D!Keys /\ e.verdict \in D!Verdicts /\ e = D!Completed(e.key, e.verdict)
           /\ e.kind = "finished" => e.results \in [D!Keys -> Outcomes] /\ e = D!Finished(e.results)
           /\ e.kind = "failed" => e = D!Failed
  BY DEF Event, D!Started, D!Completed, D!Finished, D!Failed

\* The signals that are emitted are signals.
LEMMA EventTypes ==
    /\ \A k \in D!Keys : D!Started(k) \in Event /\ D!Started(k).kind = "started" /\ D!Started(k).key = k
    /\ \A k \in D!Keys, v \in D!Verdicts :
        /\ D!Completed(k, v) \in Event /\ D!Completed(k, v).kind = "completed"
        /\ D!Completed(k, v).key = k /\ D!Completed(k, v).verdict = v
    /\ \A r \in [D!Keys -> Outcomes] :
        D!Finished(r) \in Event /\ D!Finished(r).kind = "finished" /\ D!Finished(r).results = r
    /\ D!Failed \in Event /\ D!Failed.kind = "failed"
  BY DEF Event, D!Started, D!Completed, D!Finished, D!Failed

\* Queues of up to three signals.
LEMMA Shorts ==
    /\ <<>> \in Seq(Event) /\ Ordered(<<>>) /\ Said(<<>>) = {}
    /\ \A a \in Event : <<a>> \in Seq(Event) /\ Ordered(<<a>>) /\ Said(<<a>>) = {a}
    /\ \A a, b \in Event : 
        Before(a, b) => <<a, b>> \in Seq(Event) /\ Ordered(<<a, b>>) /\ Said(<<a, b>>) = {a, b}
    /\ \A a, b, c \in Event : 
        Before(a, b) /\ Before(a, c) /\ Before(b, c) => 
        <<a, b, c>> \in Seq(Event) /\ Ordered(<<a, b, c>>) /\ Said(<<a, b, c>>) = {a, b, c}
<1>1. <<>> \in Seq(Event) /\ Ordered(<<>>) /\ Said(<<>>) = {}
  BY DEF Ordered, Said
<1>2. ASSUME NEW a \in Event PROVE <<a>> \in Seq(Event) /\ Ordered(<<a>>) /\ Said(<<a>>) = {a}
  BY DEF Ordered, Said
<1>3. ASSUME NEW a \in Event, NEW b \in Event, Before(a, b) 
      PROVE <<a, b>> \in Seq(Event) /\ Ordered(<<a, b>>) /\ Said(<<a, b>>) = {a, b}
  <2>1. <<a, b>> \in Seq(Event) /\ Len(<<a, b>>) = 2 /\ <<a, b>>[1] = a /\ <<a, b>>[2] = b
    OBVIOUS
  <2>2. 1 .. 2 = {1, 2}
    OBVIOUS
  <2> QED
    BY <1>3, <2>1, <2>2 DEF Ordered, Said
<1>4. ASSUME NEW a \in Event, NEW b \in Event, NEW c \in Event, Before(a, b), Before(a, c), Before(b, c)
      PROVE <<a, b, c>> \in Seq(Event) /\ Ordered(<<a, b, c>>) /\ Said(<<a, b, c>>) = {a, b, c}
  <2>1. <<a, b, c>> \in Seq(Event) /\ Len(<<a, b, c>>) = 3 
        /\ <<a, b, c>>[1] = a /\ <<a, b, c>>[2] = b /\ <<a, b, c>>[3] = c
    OBVIOUS
  <2>2. 1 .. 3 = {1, 2, 3}
    OBVIOUS
  <2> QED
    BY <1>4, <2>1, <2>2 DEF Ordered, Said
<1> QED
  BY <1>1, <1>2, <1>3, <1>4

\* Signals emitted behind others.
LEMMA Grows ==
    ASSUME NEW s \in Seq(Event), NEW t \in Seq(Event), Ordered(s), Ordered(t),
           \A a \in Said(s), b \in Said(t) : Before(a, b)
    PROVE  s \o t \in Seq(Event) /\ Ordered(s \o t) /\ Said(s \o t) = Said(s) \cup Said(t)
<1>1. /\ s \o t \in Seq(Event) /\ Len(s \o t) = Len(s) + Len(t)
      /\ Len(s) \in Nat /\ Len(t) \in Nat
      /\ \A i \in 1 .. Len(s) + Len(t) : (s \o t)[i] = IF i <= Len(s) THEN s[i] ELSE t[i - Len(s)]
  BY ConcatProperties, LenProperties
<1>2. \A i \in 1 .. Len(s) : (s \o t)[i] = s[i] /\ s[i] \in Said(s)
  BY <1>1 DEF Said
<1>3. \A i \in 1 .. Len(t) : (s \o t)[Len(s) + i] = t[i] /\ t[i] \in Said(t)
  <2> SUFFICES ASSUME NEW i \in 1 .. Len(t) PROVE (s \o t)[Len(s) + i] = t[i] /\ t[i] \in Said(t)
    OBVIOUS
  <2>1. /\ Len(s) + i \in 1 .. Len(s) + Len(t)
        /\ ~(Len(s) + i <= Len(s))
        /\ (Len(s) + i) - Len(s) = i
    BY <1>1
  <2> QED
    BY <1>1, <2>1 DEF Said
<1>4. \A i \in 1 .. Len(s \o t) : i \in 1 .. Len(s) \/ \E j \in 1 .. Len(t) : i = Len(s) + j
  <2> SUFFICES ASSUME NEW i \in 1 .. Len(s) + Len(t), i \notin 1 .. Len(s)
               PROVE  \E j \in 1 .. Len(t) : i = Len(s) + j
    BY <1>1
  <2> WITNESS i - Len(s) \in 1 .. Len(t)
  <2> QED
    BY <1>1
<1>5. Said(s \o t) = Said(s) \cup Said(t)
  <2>1. Said(s \o t) \subseteq Said(s) \cup Said(t)
    BY <1>2, <1>3, <1>4 DEF Said
  <2>2. Said(s) \subseteq Said(s \o t)
    <3>1. \A i \in 1 .. Len(s) : i \in 1 .. Len(s \o t)
      BY <1>1
    <3> QED
      BY <1>2, <3>1 DEF Said
  <2>3. Said(t) \subseteq Said(s \o t)
    <3>1. \A i \in 1 .. Len(t) : Len(s) + i \in 1 .. Len(s \o t)
      BY <1>1
    <3> QED
      BY <1>3, <3>1 DEF Said
  <2> QED
    BY <2>1, <2>2, <2>3
<1>6. ASSUME NEW i \in 1 .. Len(s \o t), NEW j \in 1 .. Len(s \o t), i < j
      PROVE  Before((s \o t)[i], (s \o t)[j])
  <2>1. CASE i \in 1 .. Len(s) /\ j \in 1 .. Len(s)
    BY <1>2, <1>6, <2>1 DEF Ordered
  <2>2. ASSUME i \in 1 .. Len(s), NEW l \in 1 .. Len(t), j = Len(s) + l
        PROVE  Before((s \o t)[i], (s \o t)[j])
    BY <1>2, <1>3, <2>2
  <2>3. ASSUME NEW k \in 1 .. Len(t), NEW l \in 1 .. Len(t), i = Len(s) + k, j = Len(s) + l
        PROVE  Before((s \o t)[i], (s \o t)[j])
    <3>1. k < l
      BY <1>1, <1>6, <2>3
    <3> QED
      BY <1>3, <2>3, <3>1 DEF Ordered
  <2>4. ~(j \in 1 .. Len(s) /\ i \notin 1 .. Len(s))
    BY <1>1, <1>6
  <2> QED
    BY <1>4, <2>1, <2>2, <2>3, <2>4
<1> QED
  BY <1>1, <1>5, <1>6 DEF Ordered

\* The first signal taken.
LEMMA Shrinks ==
    ASSUME NEW s \in Seq(Event), s # <<>>, Ordered(s)
    PROVE  /\ Head(s) \in Event /\ Tail(s) \in Seq(Event) /\ Ordered(Tail(s))
           /\ Said(s) = {Head(s)} \cup Said(Tail(s))
           /\ \A e \in Said(Tail(s)) : Before(Head(s), e)
<1>1. /\ Head(s) \in Event /\ Tail(s) \in Seq(Event)
      /\ Len(s) \in Nat /\ Len(s) > 0 /\ Len(Tail(s)) = Len(s) - 1 /\ Head(s) = s[1]
      /\ \A i \in 1 .. Len(Tail(s)) : Tail(s)[i] = s[i + 1]
  BY HeadTailProperties, LenProperties, EmptySeq
<1>2. \A i \in 1 .. Len(Tail(s)) : i + 1 \in 1 .. Len(s) /\ 1 < i + 1
  BY <1>1
<1>3. Ordered(Tail(s))
  BY <1>1, <1>2 DEF Ordered
<1>4. \A e \in Said(Tail(s)) : Before(Head(s), e)
  BY <1>1, <1>2 DEF Ordered, Said
<1>5. Said(s) = {Head(s)} \cup Said(Tail(s))
  <2>1. \A i \in 1 .. Len(s) : i = 1 \/ (i - 1 \in 1 .. Len(Tail(s)) /\ (i - 1) + 1 = i)
    BY <1>1
  <2>2. \A i \in 1 .. Len(s) : s[i] = Head(s) \/ \E j \in 1 .. Len(Tail(s)) : s[i] = Tail(s)[j]
    BY <1>1, <2>1
  <2>3. Said(s) \subseteq {Head(s)} \cup Said(Tail(s))
    BY <2>2 DEF Said
  <2>4. 1 \in 1 .. Len(s) /\ Head(s) \in Said(s)
    BY <1>1 DEF Said
  <2>5. Said(Tail(s)) \subseteq Said(s)
    BY <1>1, <1>2 DEF Said
  <2> QED
    BY <2>3, <2>4, <2>5
<1> QED
  BY <1>1, <1>3, <1>4, <1>5

\* A queue is empty when nothing is in it.
LEMMA NothingSaid ==
    ASSUME NEW s \in Seq(Event)
    PROVE  s = <<>> <=> Said(s) = {}
<1>1. ASSUME s = <<>> PROVE Said(s) = {}
  BY <1>1, Shorts
<1>2. ASSUME s # <<>> PROVE Head(s) \in Said(s)
  BY <1>2, LenProperties, EmptySeq DEF Said
<1> QED
  BY <1>1, <1>2

\* A queue whose summaries are the results is one of emitted signals.
LEMMA SignalsTyped ==
    ASSUME NEW q \in Seq(Event), NEW r,
           \A e \in Said(q) : e.kind = "finished" => e.results = r
    PROVE  \A i \in DOMAIN q :
             q[i] \in {D!Started(k) : k \in D!Keys}
                     \cup {D!Completed(k, v) : k \in D!Keys, v \in D!Verdicts}
                     \cup {D!Finished(r), D!Failed}
<1> SUFFICES ASSUME NEW i \in 1 .. Len(q)
             PROVE  q[i] \in {D!Started(k) : k \in D!Keys}
                             \cup {D!Completed(k, v) : k \in D!Keys, v \in D!Verdicts}
                             \cup {D!Finished(r), D!Failed}
  BY LenProperties
<1>1. q[i] \in Event /\ q[i] \in Said(q)
  BY LenProperties DEF Said
<1> QED
  BY <1>1, EventKinds

\* The five checks are what is counted.
LEMMA Counts ==
    ASSUME NEW in \in [D!Keys -> {"none", "WAITING", "RUNNING"} \cup D!Verdicts]
    PROVE  /\ Cardinality(D!Concluded(in)) \in 0 .. 5
           /\ \A v : D!Count(v, in) \in 0 .. 5
           /\ \A on : Cardinality(D!Steps(on)) \in 0 .. 5
<1>1. IsFiniteSet(D!Keys) /\ Cardinality(D!Keys) = 5
  <2>1. IsFiniteSet({"sso"}) /\ Cardinality({"sso"}) = 1
    BY FS_Singleton
  <2>2. IsFiniteSet({"sso", "scanner"}) /\ Cardinality({"sso", "scanner"}) = 2
    <3>1. {"sso"} \cup {"scanner"} = {"sso", "scanner"} /\ "scanner" \notin {"sso"}
      OBVIOUS
    <3> QED
      BY <2>1, <3>1, FS_AddElement
  <2>3. /\ IsFiniteSet({"sso", "scanner", "device"})
        /\ Cardinality({"sso", "scanner", "device"}) = 3
    <3>1. {"sso", "scanner"} \cup {"device"} = {"sso", "scanner", "device"}
          /\ "device" \notin {"sso", "scanner"}
      OBVIOUS
    <3> QED
      BY <2>2, <3>1, FS_AddElement
  <2>4. /\ IsFiniteSet({"sso", "scanner", "device", "dast"})
        /\ Cardinality({"sso", "scanner", "device", "dast"}) = 4
    <3>1. {"sso", "scanner", "device"} \cup {"dast"} = {"sso", "scanner", "device", "dast"}
          /\ "dast" \notin {"sso", "scanner", "device"}
      OBVIOUS
    <3> QED
      BY <2>3, <3>1, FS_AddElement
  <2>5. {"sso", "scanner", "device", "dast"} \cup {"radar"} = D!Keys
        /\ "radar" \notin {"sso", "scanner", "device", "dast"}
    BY DEF D!Keys
  <2> QED
    BY <2>4, <2>5, FS_AddElement
<1>2. ASSUME NEW T \in SUBSET D!Keys PROVE Cardinality(T) \in 0 .. 5
  <2>1. IsFiniteSet(T) /\ Cardinality(T) <= 5
    BY <1>1, FS_Subset
  <2> QED
    BY <2>1, FS_CardinalityType
<1> QED
  BY <1>2, KeysOf, SameCount DEF D!Concluded, D!Count

-----------------------------------------------------------------------------
\* The queue keeps its order when what is emitted may follow all that is there.
LEMMA SignalsGrow ==
    ASSUME SignalsInv, NEW t \in Seq(Event), Ordered(t), D!Emit(t),
           \A a \in Said(events), b \in Said(t) : Before(a, b),
           \A e \in Said(events) \cup Said(t) : Told(e)'
    PROVE  /\ SignalsInv'
           /\ Said(events') = Said(events) \cup Said(t)
<1>1. /\ events' \in Seq(Event) /\ Ordered(events')
      /\ Said(events') = Said(events) \cup Said(t)
  BY Grows DEF SignalsInv, D!Emit
<1> QED
  BY <1>1 DEF SignalsInv

\* While a run is under way no end is said, and what was said stays so.
LEMMA StillTold ==
    ASSUME SignalsInv, ~Idle, UNCHANGED <<dast, rows>>,
           Idle' \/ \A k \in D!Keys : at[k] \in {"token", "request", "end"} =>
                                    at'[k] \in {"token", "request", "end"},
           \A k \in D!Keys : results[k] # "none" => results'[k] = results[k]
    PROVE  \A e \in Said(events) : e.kind \notin Ends /\ Told(e)'
<1> SUFFICES ASSUME NEW e \in Said(events) PROVE e.kind \notin Ends /\ Told(e)'
  OBVIOUS
<1>1. Told(e) /\ e \in Event
  BY LenProperties DEF SignalsInv, Said
<1>2. e.kind \in {"started", "completed"}
  BY <1>1, EventKinds DEF Told, Ends
<1>3. e.key \in D!Keys /\ (e.kind = "completed" => e.verdict \in D!Verdicts)
  BY <1>1, <1>2, EventKinds
<1>4. e.kind = "completed" => results'[e.key] = e.verdict
  BY <1>1, <1>3 DEF Told, D!Verdicts
<1> QED
  BY <1>1, <1>2, <1>3, <1>4 DEF Told, Ends

\* What the lemmas on single actions begin with.
LEMMA Facts ==
    ASSUME RunInv, ~Idle
    PROVE  /\ running
           /\ label.kind = "running"
           /\ Begun \/ Going
           /\ \A e \in Said(events) : e.kind \notin Ends
  BY DEF RunInv, LabelInv, ChecksInv, SignalsInv, Told

\* A step of the worker thread keeps the invariant, if the queue and the coroutines
\* keep theirs and every new result is emitted.
LEMMA Stays ==
    ASSUME RunInv, ~Idle, UNCHANGED <<dast, D!ui>>,
           at' \in [D!Keys -> {"none", "start", "token", "request", "end"}],
           results' \in [D!Keys -> Outcomes],
           token' = results'["sso"],
           SignalsInv', ChecksInv',
           \A k \in D!Keys : results[k] # "none" => results'[k] = results[k],
           \A k \in D!Keys : results'[k] # results[k] =>
               \E e \in Said(events') : e.kind = "completed" /\ e.key = k,
           Said(events) \subseteq Said(events'),
           Idle' => \E e \in Said(events') : e.kind \in Ends
    PROVE  RunInv'
<1>1. running /\ label.kind = "running"
  BY Facts
<1>2. D!TypeOK'
  <2>1. \A i \in DOMAIN events' : events'[i] \in D!Emitted'
    <3>1. \A e \in Said(events') : e.kind = "finished" => e.results = results'
      BY DEF SignalsInv, Told
    <3> QED
      BY <3>1, SignalsTyped DEF SignalsInv, D!Emitted
  <2>2. /\ UNCHANGED <<dast, conf, running, button, steps, rows, seen, label, update, tray>>
        /\ D!TypeOK
    BY DEF D!ui, D!table, RunInv
  <2> QED
    BY <2>1, <2>2 DEF D!TypeOK, Outcomes, D!Keys
<1>3. BoardInv'
  <2> SUFFICES ASSUME NEW k \in D!Keys
               PROVE  /\ k \in D!Steps(dast) <=> rows[k] # "none"
                      /\ seen[k] # "none" => rows[k] = seen[k] /\ seen[k] = results'[k]
                      /\ rows[k] \in D!Verdicts => seen[k] # "none"
                      /\ results'[k] # "none" /\ seen[k] = "none" =>
                           \E e \in Said(events') : e.kind = "completed" /\ e.key = k
    BY DEF BoardInv, D!ui, D!table, D!Steps
  <2>1. /\ k \in D!Steps(dast) <=> rows[k] # "none"
        /\ seen[k] # "none" => rows[k] = seen[k] /\ seen[k] = results[k]
        /\ rows[k] \in D!Verdicts => seen[k] # "none"
        /\ results[k] # "none" /\ seen[k] = "none" =>
             \E e \in Said(events) : e.kind = "completed" /\ e.key = k
    BY <1>1 DEF RunInv, BoardInv
  <2> QED
    BY <2>1
<1>4. LabelInv'
  BY <1>1 DEF RunInv, LabelInv, D!ui, D!table
<1> QED
  BY <1>2, <1>3, <1>4 DEF RunInv

\* A check other than the scanner's ends with its verdict.
LEMMA ConcludeStep ==
    ASSUME RunInv, Going, ~Idle, NEW k \in D!Steps(dast) \ {"scanner"}, NEW v \in D!Verdicts,
           at[k] \in {"request", "token"}, D!Conclude(k, v), UNCHANGED <<dast, D!ui>>,
           token' = results'["sso"]
    PROVE  RunInv'
<1> USE DEF D!Conclude
<1>1. /\ k \in D!Keys /\ results[k] = "none"
      /\ at \in [D!Keys -> {"none", "start", "token", "request", "end"}]
      /\ results \in [D!Keys -> Outcomes]
  BY KeysOf DEF RunInv, D!TypeOK, Going, Outcomes
<1>2. /\ at' \in [D!Keys -> {"none", "start", "token", "request", "end"}]
      /\ results' \in [D!Keys -> Outcomes]
      /\ at'[k] = "end" /\ results'[k] = v
      /\ \A l \in D!Keys \ {k} : at'[l] = at[l] /\ results'[l] = results[l]
  BY <1>1 DEF Outcomes
<1>3. running /\ label.kind = "running" /\ \A e \in Said(events) : e.kind \notin Ends
  BY Facts
<1> DEFINE c == D!Completed(k, v)
<1>4. c \in Event /\ c.kind = "completed" /\ c.key = k /\ c.verdict = v
  BY <1>1, EventTypes
<1>5. <<c>> \in Seq(Event) /\ Ordered(<<c>>) /\ Said(<<c>>) = {c}
  BY <1>4, Shorts
<1>6. rows[k] \in {"WAITING", "RUNNING"} /\ UNCHANGED rows
  BY <1>1, <1>3 DEF RunInv, D!TypeOK, BoardInv, D!ui, D!table
<1>7. \A e \in Said(events) : Before(e, c)
  <2> SUFFICES ASSUME NEW e \in Said(events) PROVE Before(e, c)
    OBVIOUS
  <2>1. e \in Event /\ Told(e) /\ e.kind \in {"started", "completed"}
    BY <1>3, EventKinds, LenProperties DEF RunInv, SignalsInv, Said, Ends
  <2>2. e.kind = "completed" => e.key # k
    BY <1>1, <2>1, EventKinds DEF Told, D!Verdicts
  <2> QED
    BY <1>3, <1>4, <2>1, <2>2 DEF Before
<1>8. \A e \in Said(events) \cup {c} : Told(e)'
  <2>1. \A e \in Said(events) : Told(e)'
    BY <1>1, <1>2, StillTold DEF RunInv, D!ui, D!table
  <2>2. Told(c)'
    BY <1>2, <1>4, <1>6 DEF Told, Ends
  <2> QED
    BY <2>1, <2>2
<1>9. SignalsInv' /\ Said(events') = Said(events) \cup {c}
  BY <1>5, <1>7, <1>8, SignalsGrow DEF RunInv
<1>10. Going'
  <2>1. k \in {"sso", "device", "radar"} \/ (k = "dast" /\ dast)
    BY <1>1, KeysOf
  <2>2. UNCHANGED <<dast, rows>> /\ v # "none"
    BY <1>6 DEF D!Verdicts
  <2> QED
    BY <1>1, <1>2, <2>1, <2>2, KeysOf DEF Going
<1>11. ~Idle'
  BY <1>2, KeysOf DEF Idle, D!AllKeys
<1> QED
  BY <1>1, <1>2, <1>4, <1>9, <1>10, <1>11, Stays DEF ChecksInv

\* Each action of the worker thread.
LEMMA ChecksStep ==
    ASSUME RunInv, D!Checks
    PROVE  RunInv'
<1>0. /\ at \in [D!Keys -> {"none", "start", "token", "request", "end"}]
      /\ results \in [D!Keys -> Outcomes]
      /\ dast \in BOOLEAN /\ token = results["sso"]
  BY DEF RunInv, D!TypeOK, Outcomes
<1>1. CASE D!StartFails
  <2>1. Begun /\ ~Idle /\ Idle'
    BY <1>1, <1>0, KeysOf DEF RunInv, ChecksInv, Idle, Begun, Going, D!StartFails, D!AllKeys
  <2>2. SignalsInv' /\ Said(events') = {D!Failed}
    <3>1. /\ Said(events) = {} /\ events \in Seq(Event)
          /\ <<D!Failed>> \in Seq(Event) /\ Ordered(<<D!Failed>>) /\ Said(<<D!Failed>>) = {D!Failed}
          /\ D!Failed.kind = "failed"
      BY <2>1, Shorts, EventTypes DEF Begun
    <3>2. Told(D!Failed)'
      BY <2>1, <3>1 DEF Told, Ends
    <3>3. D!Emit(<<D!Failed>>)
      BY <1>1 DEF D!StartFails
    <3> QED
      BY <3>1, <3>2, <3>3, SignalsGrow DEF RunInv
  <2>3. at' \in [D!Keys -> {"none", "start", "token", "request", "end"}]
    BY <1>1 DEF D!StartFails, D!AllKeys
  <2>4. Said(events) = {} /\ D!Failed.kind \in Ends
    BY <2>1, Shorts, EventTypes DEF Begun, Ends
  <2> QED
    BY <1>0, <1>1, <2>1, <2>2, <2>3, <2>4, Stays DEF D!StartFails, ChecksInv
<1>2. CASE D!ChecksStart
  <2>1. Begun /\ ~Idle
    BY <1>0, <1>2, KeysOf
    DEF RunInv, ChecksInv, Idle, Begun, Going, D!ChecksStart, D!AllKeys
  <2>2. /\ at' \in [D!Keys -> {"none", "start", "token", "request", "end"}]
        /\ at'["sso"] = "request" /\ at'["scanner"] = "request" /\ at'["radar"] = "token"
        /\ at'["device"] = "none" /\ at'["dast"] = IF dast THEN "request" ELSE "end"
    BY <1>2 DEF D!ChecksStart, D!Keys
  <2>3. UNCHANGED <<dast, results, rows>>
    BY <1>2 DEF D!ChecksStart, D!ui, D!table
  <2> DEFINE a == D!Started("sso")
             b == D!Started("scanner")
             c == D!Started("radar")
             d == D!Started("dast")
             t == IF dast THEN <<d>> ELSE <<>>
  <2>4. /\ a \in Event /\ b \in Event /\ c \in Event /\ d \in Event
        /\ a.kind = "started" /\ b.kind = "started" /\ c.kind = "started" /\ d.kind = "started"
        /\ a.key = "sso" /\ b.key = "scanner" /\ c.key = "radar" /\ d.key = "dast"
    BY EventTypes, KeysOf
  <2>5. /\ <<a, b, c>> \in Seq(Event) /\ Ordered(<<a, b, c>>) /\ Said(<<a, b, c>>) = {a, b, c}
        /\ t \in Seq(Event) /\ Ordered(t) /\ Said(t) = IF dast THEN {d} ELSE {}
    <3>1. Before(a, b) /\ Before(a, c) /\ Before(b, c)
      BY <2>4 DEF Before, Ends
    <3> QED
      BY <2>4, <3>1, Shorts
  <2>6. /\ <<a, b, c>> \o t \in Seq(Event) /\ Ordered(<<a, b, c>> \o t)
        /\ Said(<<a, b, c>> \o t) = {a, b, c} \cup Said(t)
    <3>1. \A x \in {a, b, c}, y \in Said(t) : Before(x, y)
      BY <2>4, <2>5 DEF Before, Ends
    <3> QED
      BY <2>5, <3>1, Grows
  <2>7. SignalsInv' /\ Said(events') = {a, b, c} \cup Said(t)
    <3>1. Said(events) = {}
      BY <2>1, Shorts DEF Begun
    <3>2. \A e \in {a, b, c} \cup Said(t) : Told(e)'
      <4>1. /\ rows["sso"] = "WAITING"
            /\ rows["scanner"] = "WAITING"
            /\ rows["radar"] = "WAITING"
            /\ (dast => rows["dast"] = "WAITING")
        BY <2>1, KeysOf DEF Begun
      <4> QED
        BY <2>2, <2>3, <2>4, <2>5, <4>1 DEF Told, Ends
    <3>3. D!Emit(<<a, b, c>> \o t)
      BY <1>2 DEF D!ChecksStart
    <3> QED
      BY <2>6, <3>1, <3>2, <3>3, SignalsGrow DEF RunInv
  <2>8. Going'
    <3>1. rows'["device"] = "WAITING" /\ \A k \in D!Keys : results'[k] = "none"
      BY <2>1, <2>3, KeysOf DEF Begun, D!AllKeys
    <3>2. at'["dast"] = "end" => "dast" \notin D!Steps(dast')
      BY <2>2, <2>3, KeysOf
    <3> QED
      BY <1>0, <2>2, <2>3, <3>1, <3>2, KeysOf DEF Going
  <2>9. ~Idle' /\ Said(events) = {}
    BY <2>1, <2>2, KeysOf, Shorts DEF Idle, D!AllKeys, Begun
  <2> QED
    BY <1>0, <1>2, <2>1, <2>2, <2>3, <2>7, <2>8, <2>9, Stays DEF D!ChecksStart, ChecksInv
<1>3. ASSUME \E k \in D!Keys : at[k] \in {"request", "token", "end"} PROVE ~Idle /\ Going
  BY <1>0, <1>3, KeysOf DEF RunInv, ChecksInv, Idle, Begun, D!AllKeys
<1>4. CASE D!SsoAnswers
  <2>1. PICK v \in D!Verdicts : D!Conclude("sso", v) /\ token' = v
    BY <1>4 DEF D!SsoAnswers
  <2>2. token' = results'["sso"]
    BY <1>0, <2>1, KeysOf DEF D!Conclude
  <2> QED
    BY <1>3, <1>4, <2>1, <2>2, KeysOf, ConcludeStep DEF D!SsoAnswers
<1>5. CASE D!Answers
  <2>1. PICK k \in {"device", "dast", "radar"}, v \in D!Verdicts : at[k] = "request" /\ D!Conclude(k, v)
    BY <1>5 DEF D!Answers
  <2>2. Going /\ ~Idle /\ k \in D!Steps(dast)
    BY <1>3, <2>1, KeysOf DEF Going
  <2>3. UNCHANGED <<dast, D!ui>> /\ token' = results'["sso"]
    BY <1>0, <1>5, <2>1, KeysOf DEF D!Conclude, D!Answers
  <2> QED
    BY <2>1, <2>2, <2>3, ConcludeStep
<1>6. CASE D!RadarGoesOn
  <2>1. Going /\ ~Idle
    BY <1>3, <1>6, KeysOf DEF D!RadarGoesOn
  <2>2. CASE token = "PASSED"
    <3>1. /\ at' = [at EXCEPT !["radar"] = "request"] /\ at["radar"] = "token"
          /\ UNCHANGED <<results, events, dast, token, D!ui>>
      BY <1>6, <2>2 DEF D!RadarGoesOn
    <3>2. /\ at' \in [D!Keys -> {"none", "start", "token", "request", "end"}]
          /\ at'["radar"] = "request" /\ \A l \in D!Keys \ {"radar"} : at'[l] = at[l]
      BY <1>0, <3>1, KeysOf
    <3>3. Going'
      BY <2>1, <3>1, <3>2, KeysOf DEF Going, D!ui, D!table
    <3>4. ~Idle'
      BY <3>2, KeysOf DEF Idle, D!AllKeys
    <3>5. SignalsInv'
      <4>1. \A e \in Said(events) : Told(e)'
        BY <2>1, <3>1, <3>2, StillTold DEF RunInv, D!ui, D!table
      <4> QED
        BY <3>1, <4>1 DEF RunInv, SignalsInv
    <3> QED
      BY <1>0, <2>1, <3>1, <3>2, <3>3, <3>4, <3>5, Stays DEF ChecksInv
  <2>3. CASE token # "PASSED"
    <3>1. /\ D!Conclude("radar", "FAILED")
          /\ at["radar"] = "token"
          /\ UNCHANGED <<dast, token, D!ui>>
      BY <1>6, <2>3 DEF D!RadarGoesOn
    <3>2. token' = results'["sso"]
      BY <1>0, <3>1, KeysOf DEF D!Conclude
    <3>3. "FAILED" \in D!Verdicts
      BY DEF D!Verdicts
    <3> QED
      BY <2>1, <3>1, <3>2, <3>3, KeysOf, ConcludeStep
  <2> QED
    BY <2>2, <2>3
<1>7. CASE D!Gathered
  <2>1. Going /\ ~Idle /\ Idle'
    BY <1>3, <1>7, KeysOf DEF D!Gathered, Idle
  <2>2. UNCHANGED <<results, dast, token, D!ui>> /\ D!Emit(<<D!Finished(results)>>) 
        /\ at' \in [D!Keys -> {"none", "start", "token", "request", "end"}]
    BY <1>7 DEF D!Gathered, D!AllKeys
  <2> DEFINE c == D!Finished(results)
  <2>3. /\ c \in Event /\ c.kind = "finished" /\ c.results = results
        /\ <<c>> \in Seq(Event) /\ Ordered(<<c>>) /\ Said(<<c>>) = {c}
    BY <1>0, EventTypes, Shorts
  <2>4. \A e \in Said(events) : e.kind \notin Ends /\ Told(e)' /\ Before(e, c)
    <3>1. \A e \in Said(events) : e.kind \notin Ends /\ Told(e)'
      BY <2>1, <2>2, StillTold DEF RunInv, D!ui, D!table
    <3> QED
      BY <2>3, <3>1 DEF Before, Ends
  <2>5. Told(c)'
    <3>1. \A k \in D!Steps(dast) : results[k] # "none"
      BY <1>7, <2>1, KeysOf DEF D!Gathered, Going
    <3> QED
      BY <2>1, <2>2, <2>3, <3>1 DEF Told
  <2>6. SignalsInv' /\ Said(events') = Said(events) \cup {c}
    BY <2>2, <2>3, <2>4, <2>5, SignalsGrow DEF RunInv
  <2> QED
    BY <1>0, <2>1, <2>2, <2>3, <2>6, Stays DEF ChecksInv, Ends
<1>8. CASE D!ScannerAnswers
  <2>1. /\ Going
        /\ ~Idle
        /\ at["scanner"] = "request"
        /\ at["device"] = "none"
        /\ rows["device"] = "WAITING"
    BY <1>3, <1>8, KeysOf DEF D!ScannerAnswers, Going
  <2>2. UNCHANGED <<dast, token, D!ui>> /\ UNCHANGED rows
    BY <1>8 DEF D!ScannerAnswers, D!ui, D!table
  <2>3. /\ results["scanner"] = "none" /\ results["device"] = "none"
        /\ rows["scanner"] \in {"WAITING", "RUNNING"}
    <3>1. running /\ label.kind = "running"
      BY <2>1, Facts
    <3> QED
      BY <2>1, <3>1, KeysOf DEF Going, RunInv, BoardInv, D!TypeOK
  <2>4. ASSUME NEW e \in Said(events)
        PROVE  e.kind \in {"started", "completed"} /\ e.key # "device"
               /\ (e.kind = "completed" => e.key # "scanner")
    <3>1. e \in Event /\ Told(e) /\ e.kind \in {"started", "completed"}
      BY <2>1, Facts, EventKinds, LenProperties DEF RunInv, SignalsInv, Said, Ends
    <3>2. e.kind = "completed" => e.verdict # "none"
      BY <3>1, EventKinds DEF D!Verdicts
    <3> QED
      BY <2>1, <2>3, <3>1, <3>2 DEF Told
  <2> DEFINE b == D!Started("device")
  <2>5. b \in Event /\ b.kind = "started" /\ b.key = "device"
    BY EventTypes, KeysOf
  <2>6. CASE /\ D!Emit(<<D!Completed("scanner", "PASSED"), b>>)
             /\ at' = [at EXCEPT !["scanner"] = "end", !["device"] = "request"]
             /\ results' = [results EXCEPT !["scanner"] = "PASSED"]
    <3> DEFINE a == D!Completed("scanner", "PASSED")
    <3>1. a \in Event /\ a.kind = "completed" /\ a.key = "scanner" /\ a.verdict = "PASSED"
      BY EventTypes, KeysOf DEF D!Verdicts
    <3>2. /\ at' \in [D!Keys -> {"none", "start", "token", "request", "end"}]
          /\ at'["scanner"] = "end" /\ at'["device"] = "request"
          /\ \A k \in D!Keys \ {"scanner", "device"} : at'[k] = at[k]
          /\ results' \in [D!Keys -> Outcomes]
          /\ results'["scanner"] = "PASSED" /\ \A k \in D!Keys \ {"scanner"} : results'[k] = results[k]
      BY <1>0, <2>6, KeysOf DEF Outcomes, D!Verdicts
    <3>3. <<a, b>> \in Seq(Event) /\ Ordered(<<a, b>>) /\ Said(<<a, b>>) = {a, b}
      <4>1. Before(a, b)
        BY <2>5, <3>1 DEF Before, Ends
      <4> QED
        BY <2>5, <3>1, <4>1, Shorts
    <3>4. \A e \in Said(events) : Before(e, a) /\ Before(e, b)
      BY <2>4, <2>5, <3>1 DEF Before, Ends
    <3>5. \A e \in Said(events) \cup {a, b} : Told(e)'
      <4>1. \A e \in Said(events) : Told(e)'
        BY <2>1, <2>2, <2>3, <3>2, StillTold, KeysOf DEF RunInv
      <4>2. Told(a)' /\ Told(b)'
        BY <2>1, <2>2, <2>3, <2>5, <3>1, <3>2 DEF Told, Ends
      <4> QED
        BY <4>1, <4>2
    <3>6. SignalsInv' /\ Said(events') = Said(events) \cup {a, b}
      BY <2>6, <3>3, <3>4, <3>5, SignalsGrow DEF RunInv
    <3>7. Going'
      BY <2>1, <2>2, <2>3, <3>2, KeysOf DEF Going
    <3>8. ~Idle' /\ token' = results'["sso"]
      BY <1>0, <2>2, <3>2, KeysOf DEF Idle, D!AllKeys
    <3> QED
      BY <2>1, <2>2, <2>3, <3>1, <3>2, <3>6, <3>7, <3>8, Stays DEF ChecksInv
  <2>7. ASSUME NEW v \in D!Verdicts,
               D!Emit(<<D!Completed("scanner", v), b, D!Completed("device", "FAILED")>>),
               at' = [at EXCEPT !["scanner"] = "end", !["device"] = "end"],
               results' = [results EXCEPT !["scanner"] = v, !["device"] = "FAILED"]
        PROVE  RunInv'
    <3> DEFINE a == D!Completed("scanner", v)
               c == D!Completed("device", "FAILED")
    <3>1. /\ a \in Event /\ a.kind = "completed" /\ a.key = "scanner" /\ a.verdict = v
          /\ c \in Event /\ c.kind = "completed" /\ c.key = "device" /\ c.verdict = "FAILED"
      BY EventTypes, KeysOf DEF D!Verdicts
    <3>2. /\ at' \in [D!Keys -> {"none", "start", "token", "request", "end"}]
          /\ at'["scanner"] = "end" /\ at'["device"] = "end"
          /\ \A k \in D!Keys \ {"scanner", "device"} : at'[k] = at[k]
          /\ results' \in [D!Keys -> Outcomes]
          /\ results'["scanner"] = v /\ results'["device"] = "FAILED"
          /\ \A k \in D!Keys \ {"scanner", "device"} : results'[k] = results[k]
      BY <1>0, <2>7, KeysOf DEF Outcomes, D!Verdicts
    <3>3. /\ <<a, b, c>> \in Seq(Event) /\ Ordered(<<a, b, c>>)
          /\ Said(<<a, b, c>>) = {a, b, c}
      <4>1. Before(a, b) /\ Before(a, c) /\ Before(b, c)
        BY <2>5, <3>1 DEF Before, Ends
      <4> QED
        BY <2>5, <3>1, <4>1, Shorts
    <3>4. \A e \in Said(events) : Before(e, a) /\ Before(e, b) /\ Before(e, c)
      BY <2>4, <2>5, <3>1 DEF Before, Ends
    <3>5. \A e \in Said(events) \cup {a, b, c} : Told(e)'
      <4>1. \A e \in Said(events) : Told(e)'
        BY <2>1, <2>2, <2>3, <3>2, StillTold, KeysOf DEF RunInv
      <4>2. Told(a)' /\ Told(b)' /\ Told(c)'
        BY <2>1, <2>2, <2>3, <2>5, <3>1, <3>2 DEF Told, Ends
      <4> QED
        BY <4>1, <4>2
    <3>6. SignalsInv' /\ Said(events') = Said(events) \cup {a, b, c}
      BY <2>7, <3>3, <3>4, <3>5, SignalsGrow DEF RunInv
    <3>7. Going'
      BY <2>1, <2>2, <2>3, <3>2, KeysOf DEF Going, D!Verdicts
    <3>8. ~Idle' /\ token' = results'["sso"]
      BY <1>0, <2>2, <3>2, KeysOf DEF Idle, D!AllKeys
    <3> QED
      BY <2>1, <2>2, <2>3, <3>1, <3>2, <3>6, <3>7, <3>8, KeysOf, Stays DEF ChecksInv
  <2> QED
    BY <1>8, <2>6, <2>7 DEF D!ScannerAnswers
<1> QED
  BY <1>1, <1>2, <1>4, <1>5, <1>6, <1>7, <1>8 DEF D!Checks

-----------------------------------------------------------------------------
\* The signal taken was said first, and it still says what is so.
LEMMA Taken ==
    ASSUME RunInv, NEW kind, D!Take(kind)
    PROVE  /\ running /\ label.kind = "running"
           /\ Head(events) \in Event /\ Head(events).kind = kind /\ Told(Head(events))
           /\ events' \in Seq(Event) /\ Ordered(events')
           /\ Said(events) = {Head(events)} \cup Said(events')
           /\ \A f \in Said(events') : Before(Head(events), f) /\ Told(f) /\ f \in Event
           /\ ~Begun
<1>1. /\ events \in Seq(Event)
      /\ Ordered(events)
      /\ events # <<>>
      /\ events' = Tail(events)
      /\ Head(events).kind = kind
  BY DEF RunInv, SignalsInv, D!Take
<1>2. running /\ label.kind = "running" /\ ~Begun
  BY <1>1 DEF RunInv, LabelInv, Begun
<1>3. \A f \in Said(events) : Told(f)
  BY DEF RunInv, SignalsInv
<1>4. \A f \in Said(events') : f \in Event
  BY <1>1, Shrinks, LenProperties DEF Said
<1> QED
  BY <1>1, <1>2, <1>3, <1>4, Shrinks

\* A signal taken keeps the types.
LEMMA TypedOn ==
    ASSUME D!TypeOK, UNCHANGED <<D!worker, conf, steps, update, tray>>, SignalsInv',
           running' \in BOOLEAN, button' \in BOOLEAN,
           rows' \in [D!Keys -> {"none", "WAITING", "RUNNING"} \cup D!Verdicts],
           seen' \in [D!Keys -> {"none"} \cup D!Verdicts],
           label' \in [kind : {"idle", "running", "done", "failed"},
                       done : 0 .. 5, total : 0 .. 5, passed : 0 .. 5]
    PROVE  D!TypeOK'
<1>1. \A i \in DOMAIN events' : events'[i] \in D!Emitted'
  <2>1. \A e \in Said(events') : e.kind = "finished" => e.results = results'
    BY DEF SignalsInv, Told
  <2> QED
    BY <2>1, SignalsTyped DEF SignalsInv, D!Emitted
<1> QED
  BY <1>1 DEF D!TypeOK, D!worker

\* The table hears that a check has started.
LEMMA StartedStep ==
    ASSUME RunInv, D!CheckStarted
    PROVE  RunInv'
<1> DEFINE e == Head(events)
           k == e.key
<1>1. /\ running /\ label.kind = "running" /\ ~Begun
      /\ e \in Event /\ e.kind = "started" /\ Told(e)
      /\ events' \in Seq(Event) /\ Ordered(events')
      /\ Said(events) = {e} \cup Said(events')
      /\ \A f \in Said(events') : Before(e, f) /\ Told(f) /\ f \in Event
  BY Taken DEF D!CheckStarted
<1>2. k \in D!Keys /\ rows[k] = "WAITING" /\ (Idle \/ at[k] \in {"token", "request", "end"})
  BY <1>1, EventKinds DEF Told
<1>3. UNCHANGED <<at, dast, token, results, conf, running, button, steps,
                  seen, label, update, tray>>
  BY DEF D!CheckStarted, D!worker
<1>4. /\ rows' = [rows EXCEPT ![k] = "RUNNING"]
      /\ rows \in [D!Keys -> {"none", "WAITING", "RUNNING"} \cup D!Verdicts]
  BY <1>2 DEF D!CheckStarted, D!SetRow, RunInv, D!TypeOK
<1>5. rows'[k] = "RUNNING" /\ (\A l \in D!Keys \ {k} : rows'[l] = rows[l])
      /\ rows' \in [D!Keys -> {"none", "WAITING", "RUNNING"} \cup D!Verdicts]
  BY <1>2, <1>4
<1>6. SignalsInv'
  <2> SUFFICES ASSUME NEW f \in Said(events') PROVE Told(f)'
    BY <1>1 DEF SignalsInv
  <2>1. Told(f) /\ Before(e, f) /\ f \in Event
    BY <1>1
  <2>2. CASE f.kind \in Ends
    BY <1>3, <2>1, <2>2, EventKinds DEF Told, Ends, Idle
  <2>3. CASE f.kind \notin Ends
    <3>1. f.key \in D!Keys /\ (f.key = k => f.kind = "completed")
      BY <1>1, <2>1, <2>3, EventKinds DEF Before, Ends
    <3> QED
      BY <1>3, <1>5, <2>1, <2>3, <3>1 DEF Told, Idle, Ends
  <2> QED
    BY <2>2, <2>3
<1>7. D!TypeOK'
  BY <1>3, <1>5, <1>6, TypedOn DEF RunInv, D!TypeOK, D!worker
<1>8. ChecksInv'
  <2>1. CASE Idle
    BY <1>3, <2>1 DEF ChecksInv, Idle
  <2>2. CASE ~Idle
    <3>1. Going
      BY <1>1, <2>2 DEF RunInv, ChecksInv
    <3>2. at["device"] = "none" => k # "device"
      BY <1>2, <2>2
    <3> QED
      BY <1>3, <1>5, <3>1, <3>2, KeysOf DEF ChecksInv, Going
  <2> QED
    BY <2>1, <2>2
<1>9. BoardInv'
  <2> SUFFICES ASSUME NEW l \in D!Keys
               PROVE  /\ l \in D!Steps(dast) <=> rows'[l] # "none"
                      /\ seen[l] # "none" => rows'[l] = seen[l] /\ seen[l] = results[l]
                      /\ rows'[l] \in D!Verdicts => seen[l] # "none"
                      /\ results[l] # "none" /\ seen[l] = "none" =>
                           \E f \in Said(events') : f.kind = "completed" /\ f.key = l
    BY <1>3 DEF BoardInv, D!Steps
  <2>1. /\ l \in D!Steps(dast) <=> rows[l] # "none"
        /\ seen[l] # "none" => rows[l] = seen[l] /\ seen[l] = results[l]
        /\ rows[l] \in D!Verdicts => seen[l] # "none"
        /\ results[l] # "none" /\ seen[l] = "none" =>
             \E f \in Said(events) : f.kind = "completed" /\ f.key = l
    BY <1>1 DEF RunInv, BoardInv
  <2>2. seen[l] \in {"none"} \cup D!Verdicts
    BY DEF RunInv, D!TypeOK
  <2> QED
    BY <1>1, <1>2, <1>5, <2>1, <2>2 DEF D!Verdicts
<1>10. LabelInv'
  BY <1>1, <1>3, SameCount DEF RunInv, LabelInv, Idle, Ends, D!Concluded, D!Count, D!Steps
<1> QED
  BY <1>6, <1>7, <1>8, <1>9, <1>10 DEF RunInv

\* The table hears of a verdict.
LEMMA CompletedStep ==
    ASSUME RunInv, D!CheckCompleted
    PROVE  RunInv'
<1> DEFINE e == Head(events)
           k == e.key
           v == e.verdict
<1>1. /\ running /\ label.kind = "running" /\ ~Begun
      /\ e \in Event /\ e.kind = "completed" /\ Told(e)
      /\ events' \in Seq(Event) /\ Ordered(events')
      /\ Said(events) = {e} \cup Said(events')
      /\ \A f \in Said(events') : Before(e, f) /\ Told(f) /\ f \in Event
  BY Taken DEF D!CheckCompleted
<1>2. /\ k \in D!Keys /\ v \in D!Verdicts /\ results[k] = v
      /\ rows[k] \in {"WAITING", "RUNNING"}
  BY <1>1, EventKinds DEF Told
<1>3. /\ UNCHANGED <<at, dast, token, results, conf, running, button, steps, update, tray>>
      /\ seen' = [seen EXCEPT ![k] = v]
      /\ label' = D!Label("running", Cardinality(D!Concluded(seen')), Cardinality(steps),
                          D!Count("PASSED", seen'))
  BY SameCount DEF D!CheckCompleted, D!worker
<1>4. /\ rows' = [rows EXCEPT ![k] = v]
      /\ rows \in [D!Keys -> {"none", "WAITING", "RUNNING"} \cup D!Verdicts]
      /\ seen \in [D!Keys -> {"none"} \cup D!Verdicts]
  BY <1>2 DEF D!CheckCompleted, D!SetRow, RunInv, D!TypeOK
<1>5. /\ rows'[k] = v /\ seen'[k] = v
      /\ \A l \in D!Keys \ {k} : rows'[l] = rows[l] /\ seen'[l] = seen[l]
      /\ rows' \in [D!Keys -> {"none", "WAITING", "RUNNING"} \cup D!Verdicts]
      /\ seen' \in [D!Keys -> {"none"} \cup D!Verdicts]
  BY <1>2, <1>3, <1>4
<1>6. SignalsInv'
  <2> SUFFICES ASSUME NEW f \in Said(events') PROVE Told(f)'
    BY <1>1 DEF SignalsInv
  <2>1. Told(f) /\ Before(e, f) /\ f \in Event
    BY <1>1
  <2>2. CASE f.kind \in Ends
    BY <1>3, <2>1, <2>2, EventKinds DEF Told, Ends, Idle
  <2>3. CASE f.kind \notin Ends
    <3>1. f.key \in D!Keys /\ f.key # k
      BY <1>1, <2>1, <2>3, EventKinds DEF Before, Ends
    <3> QED
      BY <1>3, <1>5, <2>1, <2>3, <3>1 DEF Told, Idle, Ends
  <2> QED
    BY <2>2, <2>3
<1>7. label' \in [kind : {"idle", "running", "done", "failed"},
                  done : 0 .. 5, total : 0 .. 5, passed : 0 .. 5]
  <2>1. seen' \in [D!Keys -> {"none", "WAITING", "RUNNING"} \cup D!Verdicts]
    BY <1>5
  <2>2. Cardinality(D!Concluded(seen')) \in 0 .. 5 /\ D!Count("PASSED", seen') \in 0 .. 5
    BY <2>1, Counts
  <2>3. Cardinality(steps) \in 0 .. 5
    BY <2>1, Counts DEF RunInv, D!TypeOK
  <2> QED
    BY <1>3, <2>2, <2>3 DEF D!Label
<1>8. D!TypeOK'
  BY <1>3, <1>5, <1>6, <1>7, TypedOn DEF RunInv, D!TypeOK, D!worker
<1>9. ChecksInv'
  <2>1. CASE Idle
    BY <1>3, <2>1 DEF ChecksInv, Idle
  <2>2. CASE ~Idle
    <3>1. Going
      BY <1>1, <2>2 DEF RunInv, ChecksInv
    <3>2. at["device"] = "none" => k # "device"
      BY <1>2, <3>1, KeysOf DEF Going, D!Verdicts
    <3> QED
      BY <1>3, <1>5, <3>1, <3>2, KeysOf DEF ChecksInv, Going
  <2> QED
    BY <2>1, <2>2
<1>10. BoardInv'
  <2> SUFFICES ASSUME NEW l \in D!Keys
               PROVE  /\ l \in D!Steps(dast) <=> rows'[l] # "none"
                      /\ seen'[l] # "none" => rows'[l] = seen'[l] /\ seen'[l] = results[l]
                      /\ rows'[l] \in D!Verdicts => seen'[l] # "none"
                      /\ results[l] # "none" /\ seen'[l] = "none" =>
                           \E f \in Said(events') : f.kind = "completed" /\ f.key = l
    BY <1>3 DEF BoardInv, D!Steps
  <2>1. /\ l \in D!Steps(dast) <=> rows[l] # "none"
        /\ seen[l] # "none" => rows[l] = seen[l] /\ seen[l] = results[l]
        /\ rows[l] \in D!Verdicts => seen[l] # "none"
        /\ results[l] # "none" /\ seen[l] = "none" =>
             \E f \in Said(events) : f.kind = "completed" /\ f.key = l
    BY <1>1 DEF RunInv, BoardInv
  <2>2. v # "none"
    BY <1>2 DEF D!Verdicts
  <2> QED
    BY <1>1, <1>2, <1>5, <2>1, <2>2
<1>11. LabelInv'
  <2>1. /\ label'.kind = "running"
        /\ label'.done = Cardinality(D!Concluded(seen'))
        /\ label'.passed = D!Count("PASSED", seen')
    BY <1>3 DEF D!Label
  <2>2. Idle' => \E f \in Said(events') : f.kind \in Ends
    BY <1>1, <1>3 DEF RunInv, LabelInv, Idle, Ends
  <2> QED
    BY <1>1, <1>3, <2>1, <2>2 DEF LabelInv
<1> QED
  BY <1>6, <1>8, <1>9, <1>10, <1>11 DEF RunInv

-----------------------------------------------------------------------------
\* The end of a run is the last signal: the queue is empty behind it.
LEMMA LastTaken ==
    ASSUME RunInv, NEW kind \in Ends, D!Take(kind), D!Over
    PROVE  /\ Head(events).kind = kind /\ Told(Head(events)) /\ Idle
           /\ Said(events) = {Head(events)}
           /\ events' = <<>> /\ SignalsInv' /\ ChecksInv' /\ BoardInv /\ Idle'
           /\ label.kind = "running"
           /\ UNCHANGED <<at, dast, token, results, conf, steps, rows, seen, update, tray>>
           /\ running' = FALSE /\ button' \in BOOLEAN
<1>1. /\ label.kind = "running"
      /\ Head(events).kind = kind /\ Told(Head(events))
      /\ events' \in Seq(Event)
      /\ Said(events) = {Head(events)} \cup Said(events')
      /\ \A f \in Said(events') : Before(Head(events), f)
  BY Taken
<1>2. Said(events') = {}
  BY <1>1 DEF Before
<1>3. events' = <<>> /\ Said(events) = {Head(events)}
  BY <1>1, <1>2, NothingSaid
<1>4. Idle
  BY <1>1 DEF Told
<1>5. /\ UNCHANGED <<at, dast, token, results, conf, steps, rows, seen, update, tray>>
      /\ running' = FALSE /\ button' \in BOOLEAN
  BY DEF D!Over, D!worker, RunInv, D!TypeOK
<1>6. SignalsInv'
  BY <1>1, <1>2, <1>3, Shorts DEF SignalsInv
<1>7. Idle' /\ ChecksInv'
  BY <1>4, <1>5 DEF ChecksInv, Idle
<1> QED
  BY <1>1, <1>3, <1>4, <1>5, <1>6, <1>7 DEF RunInv

\* The run ends with an error.
LEMMA FailedStep ==
    ASSUME RunInv, D!RunFailed
    PROVE  RunInv'
<1>1. /\ events' = <<>> /\ SignalsInv' /\ ChecksInv' /\ BoardInv /\ Idle'
      /\ label.kind = "running" /\ Said(events) = {Head(events)} /\ Head(events).kind = "failed"
      /\ UNCHANGED <<at, dast, token, results, conf, steps, rows, seen, update, tray>>
      /\ running' = FALSE /\ button' \in BOOLEAN
  BY LastTaken DEF D!RunFailed, Ends
<1>2. label' = [kind |-> "failed", done |-> 0, total |-> 0, passed |-> 0]
  BY DEF D!RunFailed, D!Label
<1>3. D!TypeOK'
  <2>1. label' \in [kind : {"idle", "running", "done", "failed"},
                    done : 0 .. 5, total : 0 .. 5, passed : 0 .. 5]
    BY <1>2
  <2>2. /\ rows' \in [D!Keys -> {"none", "WAITING", "RUNNING"} \cup D!Verdicts]
        /\ seen' \in [D!Keys -> {"none"} \cup D!Verdicts]
        /\ D!TypeOK
    BY <1>1 DEF RunInv, D!TypeOK
  <2>3. UNCHANGED <<D!worker, conf, steps, update, tray>> /\ running' \in BOOLEAN
    BY <1>1 DEF D!worker
  <2> QED
    BY <1>1, <2>1, <2>2, <2>3, TypedOn
<1>4. BoardInv'
  BY <1>1 DEF BoardInv
<1>5. LabelInv'
  BY <1>1, <1>2 DEF LabelInv
<1> QED
  BY <1>1, <1>3, <1>4, <1>5 DEF RunInv

\* The run ends with the results of all checks, each of which the table has heard.
LEMMA FinishedStep ==
    ASSUME RunInv, D!AllFinished
    PROVE  RunInv'
<1> DEFINE r == Head(events).results
<1>1. /\ events' = <<>> /\ SignalsInv' /\ ChecksInv' /\ BoardInv /\ Idle'
      /\ label.kind = "running" /\ Said(events) = {Head(events)} 
      /\ Head(events).kind = "finished" /\ Told(Head(events))
      /\ UNCHANGED <<at, dast, token, results, conf, steps, rows, seen, update, tray>>
      /\ running' = FALSE /\ button' \in BOOLEAN
  BY LastTaken DEF D!AllFinished, Ends
<1>2. r = results /\ \A k \in D!Steps(dast) : results[k] # "none"
  BY <1>1 DEF Told
<1>3. /\ results \in [D!Keys -> {"none"} \cup D!Verdicts]
      /\ seen \in [D!Keys -> {"none"} \cup D!Verdicts]
  BY DEF RunInv, D!TypeOK
<1>4. ASSUME NEW k \in D!Keys PROVE results[k] = seen[k] /\ (k \in D!Steps(dast) => seen[k] # "none")
  BY <1>1, <1>2 DEF BoardInv
<1>5. results = seen
  BY <1>3, <1>4
<1>6. label' = [kind |-> "done", done |-> Cardinality(D!Concluded(seen)), 
                total |-> Cardinality(D!Concluded(seen)), passed |-> D!Count("PASSED", seen)]
  BY <1>2, <1>5, SameCount DEF D!AllFinished, D!Label
<1>7. D!TypeOK'
  <2>1. seen \in [D!Keys -> {"none", "WAITING", "RUNNING"} \cup D!Verdicts]
    BY <1>3
  <2>2. Cardinality(D!Concluded(seen)) \in 0 .. 5 /\ D!Count("PASSED", seen) \in 0 .. 5
    BY <2>1, Counts
  <2> QED
    BY <1>1, <1>6, <2>2, TypedOn DEF RunInv, D!TypeOK, D!worker
<1>8. BoardInv'
  BY <1>1 DEF BoardInv
<1>9. LabelInv'
  <2>1. \A k \in D!Steps(dast) : seen[k] # "none"
    BY <1>4, KeysOf
  <2> QED
    BY <1>1, <1>6, <2>1 DEF LabelInv
<1> QED
  BY <1>1, <1>7, <1>8, <1>9 DEF RunInv

-----------------------------------------------------------------------------
\* Nothing heard, nothing counted.
LEMMA CountNone ==
    /\ Cardinality(D!Concluded(D!AllKeys("none"))) = 0
    /\ D!Count("PASSED", D!AllKeys("none")) = 0
<1>1. /\ D!Concluded(D!AllKeys("none")) = {}
      /\ {k \in D!Keys : D!AllKeys("none")[k] = "PASSED"} = {}
  BY DEF D!Concluded, D!AllKeys, D!Verdicts
<1> QED
  BY <1>1, FS_EmptySet, SameCount DEF D!Count

\* A run begins with an empty queue.
LEMMA RunStep ==
    ASSUME RunInv, D!RunChecks
    PROVE  RunInv'
<1>1. /\ ~running /\ running' = TRUE /\ button' = FALSE
      /\ dast' \in BOOLEAN /\ steps' = D!Steps(dast')
      /\ seen' = D!AllKeys("none") /\ results' = D!AllKeys("none") /\ token' = "none"
      /\ rows' = [k \in D!Keys |-> IF k \in steps' THEN "WAITING" ELSE "none"]
      /\ label' = [kind |-> "running", done |-> 0, total |-> Cardinality(steps'), passed |-> 0]
      /\ at' = D!AllKeys("start")
      /\ UNCHANGED <<events, conf, update, tray>>
  BY SameCount DEF D!RunChecks, D!Label
<1>2. events = <<>> /\ events' = <<>>
  BY <1>1 DEF RunInv, LabelInv
<1>3. \A x, k : k \in D!Keys => D!AllKeys(x)[k] = x
  BY DEF D!AllKeys
<1>4. \A k \in D!Keys : rows'[k] = IF k \in D!Steps(dast') THEN "WAITING" ELSE "none"
  BY <1>1
<1>5. Begun' /\ ChecksInv' /\ ~Idle'
  <2>1. Begun'
    BY <1>1, <1>2, <1>4, KeysOf DEF Begun
  <2>2. ~Idle'
    BY <1>1, <1>3, KeysOf DEF Idle
  <2> QED
    BY <2>1, <2>2 DEF ChecksInv
<1>6. SignalsInv'
  BY <1>2, Shorts DEF SignalsInv
<1>7. D!TypeOK'
  <2>1. Cardinality(steps') \in 0 .. 5
    <3>1. D!AllKeys("none") \in [D!Keys -> {"none", "WAITING", "RUNNING"} \cup D!Verdicts]
      BY DEF D!AllKeys
    <3> QED
      BY <1>1, <3>1, Counts
  <2>2. label' \in [kind : {"idle", "running", "done", "failed"},
                    done : 0 .. 5, total : 0 .. 5, passed : 0 .. 5]
    BY <1>1, <2>1
  <2>3. /\ at' \in [D!Keys -> {"none", "start", "token", "request", "end"}]
        /\ results' \in [D!Keys -> {"none"} \cup D!Verdicts]
        /\ seen' \in [D!Keys -> {"none"} \cup D!Verdicts]
        /\ rows' \in [D!Keys -> {"none", "WAITING", "RUNNING"} \cup D!Verdicts]
        /\ token' = results'["sso"]
    BY <1>1, <1>3, KeysOf DEF D!AllKeys
  <2>4. \A i \in DOMAIN events' : events'[i] \in D!Emitted'
    BY <1>2
  <2>5. steps' \in {D!Steps(TRUE), D!Steps(FALSE)}
    BY <1>1
  <2> QED
    BY <1>1, <2>2, <2>3, <2>4, <2>5 DEF D!TypeOK, RunInv
<1>8. BoardInv'
  BY <1>1, <1>3, <1>4 DEF BoardInv, D!Verdicts
<1>9. LabelInv'
  <2>1. label'.kind = "running" /\ label'.done = 0 /\ label'.passed = 0
    BY <1>1
  <2> QED
    BY <1>1, <1>5, <2>1, CountNone DEF LabelInv
<1> QED
  BY <1>5, <1>6, <1>7, <1>8, <1>9 DEF RunInv

\* A step that leaves the run and its table alone.
LEMMA QuietStep ==
    ASSUME RunInv, UNCHANGED <<D!worker, events, running, rows, seen, label>>,
           button' \in BOOLEAN, conf' \in BOOLEAN, tray' \in BOOLEAN,
           steps' \in {D!Steps(TRUE), D!Steps(FALSE)},
           update' \in {"none", "asked", "downloading", "handed"}
    PROVE  RunInv'
<1>1. UNCHANGED <<at, dast, token, results, events, running, rows, seen, label>>
  BY DEF D!worker
<1>2. (\A e : Told(e)' <=> Told(e)) /\ (Idle' <=> Idle)
  BY <1>1 DEF Told, Idle
<1>3. SignalsInv'
  BY <1>1, <1>2 DEF RunInv, SignalsInv
<1>4. ChecksInv'
  BY <1>1, <1>2 DEF RunInv, ChecksInv, Begun, Going
<1>5. BoardInv' /\ LabelInv'
  BY <1>1, <1>2, SameCount DEF RunInv, BoardInv, LabelInv, D!Count, D!Concluded
<1>6. D!TypeOK'
  <2>1. \A i \in DOMAIN events' : events'[i] \in D!Emitted'
    <3>1. \A e \in Said(events') : e.kind = "finished" => e.results = results'
      BY <1>3 DEF SignalsInv, Told
    <3> QED
      BY <1>3, <3>1, SignalsTyped DEF SignalsInv, D!Emitted
  <2> QED
    BY <1>1, <2>1 DEF RunInv, D!TypeOK
<1> QED
  BY <1>3, <1>4, <1>5, <1>6 DEF RunInv

\* A Manager that has not run its checks yet.
Unrun ==
    /\ at = D!AllKeys("none") /\ results = D!AllKeys("none") /\ token = "none"
    /\ events = <<>> /\ ~running
    /\ rows = D!AllKeys("none") /\ seen = D!AllKeys("none") /\ label = D!Label("idle", 0, 0, 0)
    /\ dast \in BOOLEAN /\ conf \in BOOLEAN /\ steps = D!Steps(conf)
    /\ running \in BOOLEAN /\ button \in BOOLEAN /\ tray \in BOOLEAN
    /\ update \in {"none", "asked", "downloading", "handed"}

\* Such a Manager has the invariant.
LEMMA UnrunInv == Unrun => RunInv
<1> SUFFICES ASSUME Unrun PROVE RunInv
  OBVIOUS
<1>1. D!TypeOK
  <2>1. D!AllKeys("none")["sso"] = "none"
    BY KeysOf DEF D!AllKeys
  <2>2. /\ D!AllKeys("none") \in [D!Keys -> {"none", "start", "token", "request", "end"}]
        /\ D!AllKeys("none") \in [D!Keys -> {"none"} \cup D!Verdicts]
        /\ D!AllKeys("none") \in [D!Keys -> {"none", "WAITING", "RUNNING"} \cup D!Verdicts]
    BY DEF D!AllKeys
  <2>3. label \in [kind : {"idle", "running", "done", "failed"},
                   done : 0 .. 5, total : 0 .. 5, passed : 0 .. 5]
    BY DEF Unrun, D!Label
  <2>4. \A i \in DOMAIN events : events[i] \in D!Emitted
    BY DEF Unrun
  <2>5. steps \in {D!Steps(TRUE), D!Steps(FALSE)}
    BY DEF Unrun
  <2> QED
    BY <2>1, <2>2, <2>3, <2>4, <2>5 DEF D!TypeOK, Unrun
<1>2. SignalsInv
  BY Shorts DEF SignalsInv, Unrun
<1>3. Idle /\ ChecksInv
  BY DEF Unrun, ChecksInv, Idle
<1>4. label.kind = "idle"
  BY DEF Unrun, D!Label
<1> QED
  BY <1>1, <1>2, <1>3, <1>4 DEF Unrun, RunInv, BoardInv, LabelInv

\* What the Manager does beside a run.
LEMMA UiStep ==
    ASSUME RunInv, D!Reconfigured \/ D!Ask \/ D!Confirmed \/ D!Downloaded
    PROVE  RunInv'
<1>0. D!TypeOK
  BY DEF RunInv
<1>1. CASE D!Reconfigured
  <2>1. /\ button' \in BOOLEAN /\ conf' \in BOOLEAN /\ tray' \in BOOLEAN
        /\ steps' \in {D!Steps(TRUE), D!Steps(FALSE)}
        /\ update' \in {"none", "asked", "downloading", "handed"}
    BY <1>0, <1>1 DEF D!TypeOK, D!Reconfigured
  <2> QED
    BY <1>1, <2>1, QuietStep DEF D!Reconfigured
<1>2. CASE D!Ask \/ D!Confirmed \/ D!Downloaded
  <2>1. UNCHANGED <<at, dast, token, results, events, conf, running, button, steps,
                    rows, seen, label, tray>>
    BY <1>2 DEF D!Ask, D!Confirmed, D!Downloaded, D!worker, D!table
  <2>2. update' \in {"none", "asked", "downloading", "handed"}
    BY <1>2 DEF D!Ask, D!Confirmed, D!Downloaded
  <2>3. /\ button' \in BOOLEAN /\ conf' \in BOOLEAN /\ tray' \in BOOLEAN
        /\ steps' \in {D!Steps(TRUE), D!Steps(FALSE)}
    BY <1>0, <2>1 DEF D!TypeOK
  <2> QED
    BY <2>1, <2>2, <2>3, QuietStep DEF D!worker
<1> QED
  BY <1>1, <1>2

\* The new version of the Manager begins anew.
LEMMA ReplacedStep ==
    ASSUME RunInv, D!Replaced
    PROVE  RunInv'
<1>1. Unrun'
  BY DEF D!Replaced, Unrun, RunInv, D!TypeOK
<1> QED
  BY <1>1, UnrunInv, PTL

\* Every step keeps the invariant of a run.
LEMMA RunInvStep ==
    ASSUME RunInv, [D!Next]_(D!vars)
    PROVE  RunInv'
<1>1. CASE D!Checks
  BY <1>1, ChecksStep
<1>2. CASE D!Signals
  BY <1>2, StartedStep, CompletedStep, FinishedStep, FailedStep DEF D!Signals
<1>3. CASE D!RunChecks
  BY <1>3, RunStep
<1>4. CASE D!Reconfigured \/ D!Ask \/ D!Confirmed \/ D!Downloaded
  BY <1>4, UiStep
<1>5. CASE D!Replaced
  BY <1>5, ReplacedStep
<1>6. CASE UNCHANGED D!vars
  <2>1. UNCHANGED <<at, dast, token, results, events, conf, running, button, steps,
                    rows, seen, label, update, tray>>
    BY <1>6 DEF D!vars, D!ui, D!worker, D!table
  <2>2. /\ button' \in BOOLEAN /\ conf' \in BOOLEAN /\ tray' \in BOOLEAN
        /\ steps' \in {D!Steps(TRUE), D!Steps(FALSE)}
        /\ update' \in {"none", "asked", "downloading", "handed"}
    BY <2>1 DEF RunInv, D!TypeOK
  <2> QED
    BY <2>1, <2>2, QuietStep DEF D!worker
<1> QED
  BY <1>1, <1>2, <1>3, <1>4, <1>5, <1>6 DEF D!Next

\* It holds at first.
LEMMA RunInvInit ==
    ASSUME D!Init
    PROVE  RunInv
<1>1. Unrun
  BY DEF D!Init, Unrun
<1> QED
  BY <1>1, UnrunInv

\* The rows that have a verdict are those that were heard of.
LEMMA RowsAreSeen ==
    ASSUME RunInv
    PROVE  D!LabelCountsRows
<1> SUFFICES ASSUME label.kind # "idle" PROVE D!LabelCountsRows
  BY DEF D!LabelCountsRows
<1>1. ASSUME NEW k \in D!Keys
      PROVE  /\ rows[k] \in D!Verdicts <=> seen[k] \in D!Verdicts
             /\ rows[k] = "PASSED" <=> seen[k] = "PASSED"
             /\ rows[k] # "none" <=> k \in D!Steps(dast)
  <2>1. /\ seen[k] \in {"none"} \cup D!Verdicts
        /\ seen[k] # "none" => rows[k] = seen[k]
        /\ rows[k] \in D!Verdicts => seen[k] # "none"
        /\ rows[k] # "none" <=> k \in D!Steps(dast)
    BY DEF RunInv, D!TypeOK, BoardInv
  <2> QED
    BY <2>1 DEF D!Verdicts
<1>2. /\ D!Concluded(rows) = D!Concluded(seen)
      /\ D!Count("PASSED", rows) = D!Count("PASSED", seen)
  <2>1. {k \in D!Keys : rows[k] = "PASSED"} = {k \in D!Keys : seen[k] = "PASSED"}
    BY <1>1
  <2> QED
    BY <1>1, <2>1, SameCount DEF D!Concluded, D!Count
<1>3. label.kind = "done" => D!Concluded(rows) = {k \in D!Keys : rows[k] # "none"}
  <2> SUFFICES ASSUME label.kind = "done" PROVE \A k \in D!Keys : rows[k] # "none" => rows[k] \in D!Verdicts
    BY DEF D!Concluded, D!Verdicts
  <2>1. \A k \in D!Steps(dast) : seen[k] # "none"
    BY DEF RunInv, LabelInv
  <2>2. \A k \in D!Keys : seen[k] \in {"none"} \cup D!Verdicts
    BY DEF RunInv, D!TypeOK
  <2> QED
    BY <1>1, <2>1, <2>2
<1> QED
  BY <1>2, <1>3, SameCount DEF RunInv, LabelInv, D!LabelCountsRows

\* The button comes back with the end of a run.
LEMMA ButtonStep ==
    ASSUME RunInv, ButtonInv, [D!Next]_(D!vars)
    PROVE  ButtonInv'
<1> SUFFICES ASSUME ~tray, ~tray', IF running THEN update = "none" ELSE button
             PROVE  IF running' THEN update' = "none" ELSE button'
  <2>1. tray' = tray
    BY DEF D!Next, D!vars, D!ui, D!table, D!Checks, D!Signals, D!StartFails, D!ChecksStart,
        D!SsoAnswers, D!ScannerAnswers, D!Answers, D!RadarGoesOn, D!Gathered,
        D!CheckStarted, D!CheckCompleted, D!AllFinished, D!RunFailed, D!Over, D!RunChecks,
        D!Reconfigured, D!Ask, D!Confirmed, D!Downloaded, D!Replaced
  <2> QED
    BY <2>1 DEF ButtonInv
<1>1. CASE D!Checks
  BY <1>1
  DEF D!ui, D!Checks, D!StartFails, D!ChecksStart, D!SsoAnswers, D!ScannerAnswers,
      D!Answers, D!RadarGoesOn, D!Gathered, D!Locked
<1>2. CASE D!CheckStarted \/ D!CheckCompleted
  BY <1>2 DEF D!CheckStarted, D!CheckCompleted, D!Locked
<1>3. CASE D!AllFinished \/ D!RunFailed
  BY <1>3, Taken DEF D!AllFinished, D!RunFailed, D!Over, D!Locked
<1>4. CASE D!RunChecks
  BY <1>4 DEF D!RunChecks, D!Free, D!Locked
<1>5. CASE D!Reconfigured \/ D!Ask
  BY <1>5 DEF D!Reconfigured, D!Ask, D!Free, D!Locked
<1>6. CASE D!Confirmed \/ D!Downloaded
  <2>1. running' = running /\ button' = button /\ update # "none"
    BY <1>6 DEF D!Confirmed, D!Downloaded
  <2> QED
    BY <2>1
<1>7. CASE D!Replaced
  BY <1>7 DEF D!Replaced, D!Locked
<1>8. CASE UNCHANGED D!vars
  BY <1>8 DEF D!vars, D!ui, D!Locked
<1> QED
  BY <1>1, <1>2, <1>3, <1>4, <1>5, <1>6, <1>7, <1>8 DEF D!Next, D!Signals

\* A run under way always has someone to move it: a signal for the UI thread, or a
\* check that awaits only its own request.
NeverStuck ==
    running /\ events = <<>> =>
        \/ at["sso"] = "start"
        \/ \E k \in D!Keys : at[k] = "request"
        \/ at["radar"] = "token" /\ token # "none"
        \/ \A k \in D!Keys : at[k] = "end"

\* The invariant has no dead end.
LEMMA SomeoneMoves ==
    ASSUME RunInv
    PROVE  NeverStuck
<1> SUFFICES ASSUME running, events = <<>>, \A k \in D!Keys : at[k] # "request", ~Begun
             PROVE  (at["radar"] = "token" /\ token # "none") \/ \A k \in D!Keys : at[k] = "end"
  BY KeysOf DEF NeverStuck, Begun, D!AllKeys
<1>1. ~Idle
  BY Shorts DEF RunInv, LabelInv
<1>2. Going
  BY <1>1 DEF RunInv, ChecksInv
<1>3. at["sso"] = "end" /\ results["sso"] # "none"
  BY <1>2, KeysOf DEF Going
<1>4. token # "none"
  BY <1>3 DEF RunInv, D!TypeOK
<1>5. CASE at["radar"] = "token"
  BY <1>4, <1>5
<1>6. CASE at["radar"] # "token"
  BY <1>2, <1>6, KeysOf DEF Going
<1> QED
  BY <1>5, <1>6
\* Both are invariants of the diagnostics.
LEMMA RunHolds == D!Spec => []RunInv /\ []ButtonInv
<1>1. D!Init => RunInv /\ ButtonInv
  <2>1. D!Init => ButtonInv
    BY DEF D!Init, ButtonInv
  <2> QED
    BY <2>1, RunInvInit
<1>2. RunInv /\ ButtonInv /\ [D!Next]_(D!vars) => RunInv' /\ ButtonInv'
  BY RunInvStep, ButtonStep
<1> QED
  BY <1>1, <1>2, PTL DEF D!Spec

-----------------------------------------------------------------------------
(* All three.                                                              *)

\* A step of one story is a step or a stutter of each model.
LEMMA StoryStep ==
    ASSUME [MCNext]_<<story, vars, heartbeatVars, checkVars>>
    PROVE  [Next]_vars /\ [H!Next]_(H!vars) /\ [D!Next]_(D!vars)
<1>1. heartbeatVars' = heartbeatVars => UNCHANGED H!vars
  BY DEF heartbeatVars, H!vars, H!world, H!cache
<1>2. checkVars' = checkVars => UNCHANGED D!vars
  BY DEF checkVars, D!vars, D!worker, D!table, D!ui
<1> QED
  BY <1>1, <1>2 DEF MCNext

\* Whatever is told, each model's part of it is one of its behaviours.
LEMMA StorySpecs == MCSpec => Spec /\ H!Spec /\ D!Spec
<1>1. MCInit => Init /\ H!Init /\ D!Init
  BY DEF MCInit
<1> QED
  BY <1>1, StoryStep, PTL DEF MCSpec, Spec, H!Spec, D!Spec

\* The types of all three: no scan starts while the device is read, the lock's queue
\* holds coroutines, a signal is one of this run's, and token_task has the verdict of
\* its row (scanner_client.py, diagnostics.py).
THEOREM AllTypesHold == MCSpec => []AllTypesOK
<1>1. Inv => TypeOK
  BY DEF Inv
<1>2. RunInv => D!TypeOK
  BY DEF RunInv
<1> QED
  BY <1>1, <1>2, InvHolds, HeartbeatTypes, RunHolds, StorySpecs, PTL DEF AllTypesOK

\* However probes fail and scans begin, a testcase is reported ready only from a
\* device this heartbeat has read (scanner_client.py 219-256).
THEOREM ReadyIsFreshHolds == MCSpec => []ReadyIsFresh
  BY HeartbeatReady, StorySpecs, PTL DEF ReadyIsFresh

\* As long as the Wi-Fi address stays with its phone, no cache entry, answer of ADB or
\* old snapshot makes a heartbeat report the model of another phone
\* (scanner_client.py 185-217).
THEOREM ModelIsPhonesHolds ==
    ASSUME ~Roaming
    PROVE  MCSpec => []ModelIsPhones
<1>1. H!Spec => []H!ModelIsPhones
  BY PhonesAssumption, HeartbeatModel
<1> QED
  BY <1>1, StorySpecs, PTL DEF ModelIsPhones

\* The line under the table counts the verdicts in it and those that passed, and a
\* summary stands under a table whose every row has its verdict and counts them all,
\* whatever signals are still on their way and whatever is saved or reloaded meanwhile
\* (manager.py 1425-1437); the total while checks run is not part of it.
THEOREM LabelCountsRowsHolds == MCSpec => []LabelCountsRows
<1>1. RunInv => LabelCountsRows
  BY RowsAreSeen DEF LabelCountsRows
<1> QED
  BY <1>1, RunHolds, StorySpecs, PTL

\* No run and no update leaves "Run checks" disabled behind it, if no run is started
\* behind the update's question (manager.py 1120, 1442).
THEOREM ButtonBackHolds == MCSpec => []ButtonBack
<1>1. ButtonInv => ButtonBack
  BY DEF ButtonInv, ButtonBack, D!ButtonBack
<1> QED
  BY <1>1, RunHolds, StorySpecs, PTL

\* The checks never wait for one another in a circle: with no signal on its way, a
\* run under way has a check that is to start, awaits only its own request or has the
\* token it waited for, or all have ended.  It is what makes EveryRunEnds a matter of
\* fairness alone (check_radar's await of token_task, diagnostics.py).
THEOREM RunNeverStuck == MCSpec => []NeverStuck
<1>1. RunInv => NeverStuck
  BY SomeoneMoves
<1> QED
  BY <1>1, RunHolds, StorySpecs, PTL
===============================================================================
