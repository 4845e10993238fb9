---------------------------- MODULE ProfileOutbox ----------------------------
(***************************************************************************)
(* Which SQLite outbox belongs to which RADAR: the Manager chooses a file  *)
(* for the profile it saves (manager.py, environment_profiles.py), the     *)
(* installation script chooses again (install-service.ps1), a worker binds *)
(* the file it opens to its RADAR origin (outbox.py), and a file of a      *)
(* release before the profiles has no binding.                             *)
(*                                                                         *)
(* An origin is a URL after normalize_radar_origin.  A row, result or      *)
(* checkpoint, is only the origin whose RADAR leased the job.              *)
(***************************************************************************)
CONSTANTS
    Origins,        \* RADAR origins
    Dev, Uat,       \* the origins of the two presets
    Customs,        \* origins typed under the Custom profile
    Workers,        \* of "service" and "direct"
    LegacyOrigins,  \* where an installation before the profiles may point
    LegacyRows,     \* whose rows its agent.db may hold: DEV, by the docs
    HandEdits,      \* environments an administrator writes into .env by hand
    Unbound         \* no profile_metadata

ASSUME ConstantsAssumption ==
    /\ Dev \in Origins
    /\ Uat \in Origins
    /\ Customs \subseteq Origins
    /\ LegacyOrigins \subseteq Origins
    /\ LegacyRows \subseteq Origins
    /\ Dev # Uat
    /\ Unbound \notin Origins
    /\ Workers \subseteq {"service", "direct"}
    /\ HandEdits \subseteq {"development", "uat", "custom", ""}

VARIABLES
    env,     \* .env
    conf,    \* the Manager's _settings
    exists,  \* outbox files on the disk
    meta,    \* profile_metadata.radar_origin of each file
    rows,    \* rows of each file
    pc,      \* how far each worker is in opening its outbox
    at       \* the settings each worker read

disk == <<exists, meta, rows>>
work == <<pc, at>>
vars == <<env, conf, disk, work>>

-----------------------------------------------------------------------------
(* environment_profiles.py.  A preset fixes the origin of its environment. *)

Environments == {"development", "uat", "custom"}

\* agent.db beside .env, where every release before the profiles kept it.
Legacy == [key |-> "agent.db", origin |-> Unbound]

\* resolve_environment refuses a preset with another RADAR's URL.
Valid(s) ==
    /\ s.environment = "development" => s.origin = Dev
    /\ s.environment = "uat" => s.origin = Uat

Infer(o) == IF o = Dev THEN "development" ELSE IF o = Uat THEN "uat" ELSE "custom"

\* An old .env names no environment.
Resolve(s) ==
    IF s.environment = "" THEN [s EXCEPT !.environment = Infer(s.origin)] ELSE s

\* profiles/<key>/agent.db; the key of a custom profile is a digest of its URL.
StorageFile(e, o) == [key |-> e, origin |-> IF e = "custom" THEN o ELSE Unbound]

\* Mutant: the old file is kept for every profile, not only DEV.
DatabasePath_AnyLegacy(e, o) ==
    IF Legacy \in exists THEN Legacy ELSE StorageFile(e, o)

DatabasePath(e, o) ==
    IF e = "development" /\ Legacy \in exists THEN Legacy ELSE StorageFile(e, o)

Files    == [key: Environments \cup {"agent.db"}, origin: Origins \cup {Unbound}]
Settings == [environment: Environments, origin: Origins, file: Files]
Raw      == [environment: Environments \cup {""}, origin: Origins, file: Files]

\* The files some profile is given.
Managed ==
    {Legacy} \cup {StorageFile(e, Dev) : e \in {"development", "uat"}}
             \cup {StorageFile("custom", o) : o \in Customs}

\* What an AgentSettings without .env holds.
Default == [environment |-> "development", origin |-> Dev, file |-> Legacy]

Loaded(s) == IF Valid(Resolve(s)) THEN Resolve(s) ELSE Default

\* A table is in a file that exists.
TypeOK ==
    /\ env \in Raw
    /\ conf \in Settings
    /\ exists \in SUBSET Files
    /\ meta \in [Files -> Origins \cup {Unbound}]
    /\ rows \in [Files -> SUBSET Origins]
    /\ pc \in [Workers -> {"off", "starting", "loaded", "unbound", "checked", "running"}]
    /\ at \in [Workers -> Settings]
    /\ \A f \in Files : meta[f] # Unbound \/ rows[f] # {} => f \in exists

InitOld(o) ==
    /\ env = [environment |-> "", origin |-> o, file |-> Legacy]
    /\ exists = {Legacy}
    /\ \E r \in SUBSET (LegacyRows \cap {o}) :
         rows = [f \in Files |-> IF f = Legacy THEN r ELSE {}]

InitNew ==
    /\ env = [environment |-> "development", origin |-> Dev,
              file |-> StorageFile("development", Dev)]
    /\ exists = {}
    /\ rows = [f \in Files |-> {}]

Init ==
    /\ InitNew \/ \E o \in LegacyOrigins : InitOld(o)
    /\ conf = Loaded(env)
    /\ meta = [f \in Files |-> Unbound]
    /\ pc = [w \in Workers |-> "off"]
    /\ at = [w \in Workers |-> Default]

-----------------------------------------------------------------------------
(* A worker: run_agent (service.py) and ResultOutbox (outbox.py).          *)

GoTo(w, p) == pc' = [pc EXCEPT ![w] = p] /\ UNCHANGED at

\* The process ends.
Exit(w) ==
    /\ pc' = [pc EXCEPT ![w] = "off"]
    /\ at' = [at EXCEPT ![w] = Default]

\* Boot, WinSW's restart after a failure, or an operator.
StartService ==
    /\ "service" \in Workers
    /\ pc["service"] = "off"
    /\ GoTo("service", "starting")
    /\ UNCHANGED <<env, conf, disk>>

\* AgentSettings(): a .env that does not validate ends the process.
Load(w) ==
    /\ pc[w] = "starting"
    /\ IF Valid(Resolve(env))
       THEN /\ pc' = [pc EXCEPT ![w] = "loaded"]
            /\ at' = [at EXCEPT ![w] = Resolve(env)]
       ELSE Exit(w)
    /\ UNCHANGED <<env, conf, disk>>

\* Mutant: the stored origin is not compared.
Foreign_Never(o, s) == FALSE

Foreign(o, s) == o # Unbound /\ o # s.origin

Connect(f) == exists' = exists \cup {f}

\* sqlite3.connect creates the file; the origin it is bound to is read.
Read(w) ==
    LET s == at[w]
        o == meta[s.file]
    IN  /\ pc[w] = "loaded"
        /\ Connect(s.file)
        /\ \/ Foreign(o, s) /\ Exit(w)
           \/ ~Foreign(o, s) /\ GoTo(w, IF o = Unbound THEN "unbound" ELSE "running")
        /\ UNCHANGED <<env, conf, meta, rows>>

\* Mutant: rows in an unbound file are anyone's.
Refused_Never(s) == FALSE

\* Legacy rows are DEV's.
Refused(s) == s.environment # "development" /\ rows[s.file] # {}

CheckLegacy(w) ==
    /\ pc[w] = "unbound"
    /\ IF Refused(at[w]) THEN Exit(w) ELSE GoTo(w, "checked")
    /\ UNCHANGED <<env, conf, disk>>

\* INSERT OR IGNORE: a binding made since Read stays, and nobody looks again.
Bind(w) ==
    LET f == at[w].file
    IN  /\ pc[w] = "checked"
        /\ meta' = IF meta[f] = Unbound
                   THEN [meta EXCEPT ![f] = at[w].origin] ELSE meta
        /\ GoTo(w, "running")
        /\ UNCHANGED <<env, conf, exists, rows>>

\* A job its own RADAR leased leaves a result or a checkpoint.
Put(w) ==
    /\ pc[w] = "running"
    /\ rows' = [rows EXCEPT ![at[w].file] = @ \cup {at[w].origin}]
    /\ UNCHANGED <<env, conf, exists, meta, work>>

\* flush_outbox sends whatever the file holds; RADAR takes what it leased.
Deliver(w) ==
    /\ pc[w] = "running"
    /\ rows' = [rows EXCEPT ![at[w].file] = @ \ {at[w].origin}]
    /\ UNCHANGED <<env, conf, exists, meta, work>>

\* Stopped, or crashed: an INSERT that was not committed is undone.
Stop(w) ==
    /\ pc[w] # "off"
    /\ Exit(w)
    /\ UNCHANGED <<env, conf, disk>>

Work(w) ==
    Load(w) \/ Read(w) \/ CheckLegacy(w) \/ Bind(w) \/ Put(w) \/ Deliver(w) \/ Stop(w)

-----------------------------------------------------------------------------
(* The Manager (manager.py) and install-service.ps1.                       *)

\* _selected_database_path keeps the managed file of an unchanged profile.
Selected(e, o) ==
    IF e = conf.environment /\ o = conf.origin /\ conf.file # Legacy
    THEN conf.file
    ELSE DatabasePath(e, o)

Form(e, o) == [environment |-> e, origin |-> o, file |-> Selected(e, o)]

Choices ==
    {<<"development", Dev>>, <<"uat", Uat>>} \cup {<<"custom", o>> : o \in Customs}

\* The SCM reports the service by the time its outbox is open.
ServiceRunning == "service" \in Workers /\ pc["service"] = "running"
DirectRunning  == "direct" \in Workers /\ pc["direct"] # "off"

\* _allow_environment_switch; the question about pending rows may be answered
\* either way, and No is no step.
Allowed(s) == s # conf => ~DirectRunning /\ ~ServiceRunning

Save(s) ==
    /\ Allowed(s)
    /\ env' = s
    /\ conf' = s

SaveProfile ==
    /\ \E c \in Choices : Save(Form(c[1], c[2]))
    /\ UNCHANGED <<disk, work>>

\* start_direct saves the form before it starts the worker.
RunDirectly ==
    /\ "direct" \in Workers
    /\ pc["direct"] = "off"
    /\ ~ServiceRunning
    /\ \E c \in Choices : Save(Form(c[1], c[2]))
    /\ GoTo("direct", "starting")
    /\ UNCHANGED disk

\* The script looks for agent.db itself, then keeps the profile directory.
ScriptFile(s) ==
    IF s.environment = "development" /\ Legacy \in exists THEN Legacy ELSE s.file

\* install_or_upgrade_service: save, stop the service, write .env, start it.
InstallService ==
    /\ "service" \in Workers
    /\ \E c \in Choices :
         LET s == Form(c[1], c[2])
         IN  /\ Allowed(s)
             /\ env' = [s EXCEPT !.file = ScriptFile(s)]
             /\ conf' = env'
    /\ pc' = [pc EXCEPT !["service"] = "starting"]
    /\ at' = [at EXCEPT !["service"] = Default]
    /\ UNCHANGED disk

Reload ==
    /\ conf' = Loaded(env)
    /\ UNCHANGED <<env, disk, work>>

HandEdit ==
    /\ \E e \in HandEdits, o \in Origins, f \in Managed :
         env' = [environment |-> e, origin |-> o, file |-> f]
    /\ UNCHANGED <<conf, disk, work>>

Manage == SaveProfile \/ RunDirectly \/ InstallService \/ Reload \/ HandEdit

Next == StartService \/ (\E w \in Workers : Work(w)) \/ Manage

Spec == Init /\ [][Next]_vars

-----------------------------------------------------------------------------
(* Properties.                                                             *)

\* The outbox a worker runs on holds rows of its own RADAR only, so no result
\* is posted to another environment (flush_outbox takes the whole table).
RowsAtHome ==
    \A w \in Workers : pc[w] = "running" => rows[at[w].file] \subseteq {at[w].origin}

\* A worker only runs on a file bound to its origin, even when it found the file
\* without a binding (_bind_profile).
BoundOrRefused ==
    \A w \in Workers : pc[w] = "running" => meta[at[w].file] = at[w].origin

Opens(s) ==
    LET o == meta[s.file]
    IN  Valid(s) /\ ~Foreign(o, s) /\ ~(o = Unbound /\ Refused(s))

\* The profile in .env can be opened: no choice of profile, in any order, leaves
\* the agent with an outbox it must refuse.
EnvOpens == Opens(Resolve(env))
=============================================================================
