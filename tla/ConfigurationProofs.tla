-------------------------- MODULE ConfigurationProofs --------------------------
(***************************************************************************)
(* The saved configuration.  A worker delivers rows of its own RADAR only: *)
(* (1) for any workers, when old installations are DEV's and nobody edits  *)
(* .env, because the files of two origins differ; (2) for one worker,      *)
(* whatever .env says, because of the binding and the rule for unbound     *)
(* files.  (3) The three files of a configuration name each other, and     *)
(* together are what was saved.                                            *)
(***************************************************************************)
EXTENDS MCConfiguration, TLAPS

\* The files and settings the operators of ProfileOutbox name are of its types.
LEMMA Paths ==
    /\ Legacy \in Files
    /\ Default \in Settings
    /\ \A e \in Environments, o \in Origins : StorageFile(e, o) \in Files
    /\ \A e \in Environments, o \in Origins : DatabasePath(e, o) \in Files
    /\ Managed \subseteq Files
<1>1. Legacy \in Files
  BY DEF Legacy, Files
<1>2. Default \in Settings
  BY <1>1, ConstantsAssumption DEF Default, Settings, Environments
<1>3. \A e \in Environments, o \in Origins : StorageFile(e, o) \in Files
  BY DEF StorageFile, Files
<1>4. \A e \in Environments, o \in Origins : DatabasePath(e, o) \in Files
  BY <1>1, <1>3 DEF DatabasePath
<1>5. Managed \subseteq Files
  BY <1>1, <1>3, ConstantsAssumption DEF Managed, Environments
<1> QED
  BY <1>1, <1>2, <1>3, <1>4, <1>5

\* What load() makes of .env is settings.
LEMMA LoadType ==
    ASSUME NEW s \in Raw
    PROVE  Resolve(s) \in Settings /\ Loaded(s) \in Settings
<1>1. Resolve(s) \in Settings
  BY DEF Raw, Settings, Resolve, Infer, Environments
<1> QED
  BY <1>1, Paths DEF Loaded

\* A choice of the form is a profile and an origin it may have.
LEMMA ChoiceType ==
    ASSUME NEW c \in Choices
    PROVE  /\ c[1] \in Environments
           /\ c[2] \in Origins
           /\ c[1] = "development" => c[2] = Dev
           /\ c[1] = "uat" => c[2] = Uat
<1>1. CASE c = <<"development", Dev>>
  BY <1>1, ConstantsAssumption DEF Environments
<1>2. CASE c = <<"uat", Uat>>
  BY <1>2, ConstantsAssumption DEF Environments
<1>3. ASSUME NEW o \in Customs, c = <<"custom", o>>
      PROVE  /\ c[1] \in Environments
             /\ c[2] \in Origins
             /\ c[1] \notin {"development", "uat"}
  <2>1. c[1] = "custom" /\ c[2] = o
    BY <1>3
  <2> QED
    BY <2>1, ConstantsAssumption DEF Environments
<1> QED
  BY <1>1, <1>2, <1>3 DEF Choices

\* What the form saves is settings.
LEMMA FormType ==
    ASSUME TypeOK, NEW c \in Choices
    PROVE  Form(c[1], c[2]) \in Settings
  BY ChoiceType, Paths DEF TypeOK, Form, Selected, Settings

\* What the installation script writes can be written and opened.
LEMMA WrittenType ==
    ASSUME NEW s \in Settings
    PROVE  /\ s \in Raw
           /\ [s EXCEPT !.file = ScriptFile(s)] \in Settings
  BY Paths DEF Settings, Raw, ScriptFile

\* The file a worker has opened exists.
Opened ==
    \A w \in Workers :
      pc[w] \in {"unbound", "checked", "running"} => at[w].file \in exists

\* Every step keeps the types and touches only files that exist.
LEMMA TypeStep ==
    ASSUME TypeOK, Opened, [Next]_vars
    PROVE  TypeOK' /\ Opened'
<1> USE DEF TypeOK, Opened, disk, work
<1>1. CASE StartService
  BY <1>1 DEF StartService, GoTo
<1>2. ASSUME NEW w \in Workers, Load(w) PROVE TypeOK' /\ Opened'
  BY <1>2, LoadType, Paths DEF Load, Exit
<1>3. ASSUME NEW w \in Workers, Read(w) PROVE TypeOK' /\ Opened'
  <2>1. at[w].file \in Files
    BY DEF Settings
  <2> QED
    BY <1>3, <2>1, Paths DEF Read, Connect, Exit, GoTo
<1>4. ASSUME NEW w \in Workers, CheckLegacy(w) PROVE TypeOK' /\ Opened'
  BY <1>4, Paths DEF CheckLegacy, Exit, GoTo
<1>5. ASSUME NEW w \in Workers, Bind(w) PROVE TypeOK' /\ Opened'
  BY <1>5 DEF Bind, GoTo, Settings
<1>6. ASSUME NEW w \in Workers, Put(w) \/ Deliver(w) PROVE TypeOK' /\ Opened'
  <2>1. at[w].file \in Files /\ at[w].origin \in Origins /\ at[w].file \in exists
    BY <1>6 DEF Put, Deliver, Settings
  <2> QED
    BY <1>6, <2>1 DEF Put, Deliver
<1>7. ASSUME NEW w \in Workers, Stop(w) PROVE TypeOK' /\ Opened'
  BY <1>7, Paths DEF Stop, Exit
<1>8. CASE SaveProfile
  BY <1>8, FormType, WrittenType DEF SaveProfile, Save
<1>9. CASE RunDirectly
  BY <1>9, FormType, WrittenType DEF RunDirectly, Save, GoTo
<1>10. CASE InstallService
  <2>1. env' \in Raw /\ conf' \in Settings
    <3>1. PICK c \in Choices :
      /\ env' = [Form(c[1], c[2]) EXCEPT !.file = ScriptFile(Form(c[1], c[2]))]
      /\ conf' = env'
      BY <1>10 DEF InstallService
    <3>2. conf' \in Settings
      BY <3>1, FormType, WrittenType
    <3> QED
      BY <3>1, <3>2, WrittenType
  <2> QED
    BY <1>10, <2>1, Paths DEF InstallService
<1>11. CASE Reload
  BY <1>11, LoadType DEF Reload
<1>12. CASE HandEdit
  <2>1. env' \in Raw
    <3>1. PICK e \in HandEdits, o \in Origins, f \in Managed :
                 env' = [environment |-> e, origin |-> o, file |-> f]
      BY <1>12 DEF HandEdit
    <3>2. e \in Environments \cup {""} /\ f \in Files
      BY Paths, ConstantsAssumption DEF Environments
    <3> QED
      BY <3>1, <3>2 DEF Raw
  <2> QED
    BY <1>12, <2>1 DEF HandEdit
<1>13. CASE UNCHANGED vars
  BY <1>13 DEF vars
<1> QED
  BY <1>1, <1>2, <1>3, <1>4, <1>5, <1>6, <1>7, <1>8, <1>9, <1>10, <1>11, <1>12, <1>13
  DEF Next, Work, Manage

\* Every story of the run begins within the types, with no file opened.
LEMMA TypeInit == Init => TypeOK /\ Opened
<1> SUFFICES ASSUME Init PROVE TypeOK /\ Opened
  OBVIOUS
<1>1. env \in Raw
  <2>1. CASE InitNew
    BY <2>1, Paths, ConstantsAssumption DEF InitNew, Raw, Environments
  <2>2. ASSUME NEW o \in LegacyOrigins, InitOld(o) PROVE env \in Raw
    BY <2>2, Paths, ConstantsAssumption DEF InitOld, Raw
  <2> QED
    BY <2>1, <2>2 DEF Init
<1>2. exists \in SUBSET Files /\ rows \in [Files -> SUBSET Origins]
  BY Paths, ConstantsAssumption DEF Init, InitOld, InitNew
<1>3. \A f \in Files : rows[f] # {} => f \in exists
  BY DEF Init, InitOld, InitNew
<1> QED
  BY <1>1, <1>2, <1>3, LoadType, Paths DEF Init, TypeOK, Opened

\* Every variable keeps its type, and rows and bindings are only in files that
\* were created (ResultOutbox.__init__).
THEOREM TypeCorrect == Spec => []TypeOK
<1>1. TypeOK /\ Opened /\ [Next]_vars => TypeOK' /\ Opened'
  BY TypeStep
<1> QED
  BY <1>1, TypeInit, PTL DEF Spec

-----------------------------------------------------------------------------
(* (1) The files of two origins differ.                                    *)

\* The only origin whose profiles are given the file.
Home(f) ==
    IF f.key \in {"agent.db", "development"} THEN Dev
    ELSE IF f.key = "uat" THEN Uat ELSE f.origin

\* Settings whose file is the one of their profile.
Safe(s) ==
    /\ s \in Settings
    /\ Valid(s)
    /\ \/ s.file = Legacy /\ s.environment = "development"
       \/ s.file = StorageFile(s.environment, s.origin)

\* Settings that can be opened name a file whose home is their origin.
LEMMA SafeHome ==
    ASSUME NEW s, Safe(s)
    PROVE  s.origin = Home(s.file) /\ (s.file = Legacy => s.environment = "development")
  BY DEF Safe, Home, Valid, Legacy, StorageFile, Settings, Environments

\* The default profile names DEV's own file.
LEMMA SafeDefault == Safe(Default)
  BY Paths DEF Safe, Default, Valid, Settings

\* From settings that can be opened, the form saves such settings.
LEMMA SafeForm ==
    ASSUME TypeOK, Safe(conf), NEW c \in Choices
    PROVE  Safe(Form(c[1], c[2]))
<1> DEFINE s == Form(c[1], c[2])
<1>1. s \in Settings
  BY FormType
<1>2. Valid(s)
  BY ChoiceType DEF Form, Valid
<1>3. s.environment = c[1] /\ s.origin = c[2] /\ s.file = Selected(c[1], c[2])
  BY DEF Form
<1>4. CASE s.environment = conf.environment /\ s.origin = conf.origin /\ conf.file # Legacy
  BY <1>1, <1>2, <1>3, <1>4 DEF Safe, Selected
<1>5. CASE ~(s.environment = conf.environment /\ s.origin = conf.origin /\ conf.file # Legacy)
  BY <1>1, <1>2, <1>3, <1>5 DEF Safe, Selected, DatabasePath
<1> QED
  BY <1>4, <1>5

\* So does the script with its own path for the file.
LEMMA SafeScript ==
    ASSUME NEW s, Safe(s)
    PROVE  Safe([s EXCEPT !.file = ScriptFile(s)])
<1> DEFINE t == [s EXCEPT !.file = ScriptFile(s)]
<1>1. /\ t \in Settings
      /\ t.environment = s.environment
      /\ t.origin = s.origin
      /\ t.file = ScriptFile(s)
  BY WrittenType DEF Safe, Settings
<1> QED
  BY <1>1 DEF Safe, Valid, ScriptFile

\* Settings that can be opened are loaded as they are.
LEMMA SafeLoads ==
    ASSUME NEW s \in Settings, Safe(s)
    PROVE  Resolve(s) = s /\ Loaded(s) = s
  BY DEF Settings, Environments, Resolve, Loaded, Safe

\* The two ways a file comes to be right: what a file holds is its home's, and
\* whoever opened it has settings of that home.
FilesInv ==
    \A f \in Files :
      /\ meta[f] \in {Unbound, Home(f)}
      /\ rows[f] \subseteq {Home(f)}
      /\ f # Legacy /\ rows[f] # {} => meta[f] # Unbound

WorkersInv ==
    \A w \in Workers :
      /\ pc[w] \notin {"off", "starting"} => Safe(at[w])
      /\ pc[w] = "running" => meta[at[w].file] = at[w].origin

ManagerInv ==
    /\ Safe(Resolve(env))
    /\ Safe(conf)

\* The inductive invariant of a Manager that is alone with .env.
DisjointInv == TypeOK /\ Opened /\ FilesInv /\ WorkersInv /\ ManagerInv

\* Old installations are DEV's, and .env is the Manager's and the script's.
ManagerOnly == LegacyOrigins \subseteq {Dev} /\ HandEdits = {}

\* The settings of a new installation, and of an old one of DEV's, can be opened.
LEMMA NewIsSafe ==
    InitNew => Safe(Resolve(env))
<1> SUFFICES ASSUME InitNew PROVE Safe(Resolve(env))
  OBVIOUS
<1> DEFINE s == [environment |-> "development", origin |-> Dev,
                 file |-> StorageFile("development", Dev)]
<1>1. env = s
  BY DEF InitNew
<1>2. Resolve(s) = s
  BY DEF Resolve
<1>3. s \in Settings
  BY ConstantsAssumption DEF Settings, Environments, Files, StorageFile
<1>4. Valid(s)
  BY DEF Valid, StorageFile
<1> QED
  BY <1>1, <1>2, <1>3, <1>4 DEF Safe

\* An installation of DEV from before the profiles is read as the default profile.
LEMMA OldIsSafe ==
    InitOld(Dev) => Safe(Resolve(env))
<1> SUFFICES ASSUME InitOld(Dev) PROVE Safe(Resolve(env))
  OBVIOUS
<1>1. Resolve(env) = Default
  BY DEF InitOld, Resolve, Infer, Default
<1> QED
  BY <1>1, SafeDefault

\* An installation that begins with DEV.
LEMMA DisjointInit ==
    ASSUME Init, env.origin = Dev
    PROVE  DisjointInv
<1>0. InitNew \/ InitOld(Dev)
  <2>1. CASE InitNew
    BY <2>1
  <2>2. ASSUME NEW o \in LegacyOrigins, InitOld(o)
        PROVE  InitOld(Dev)
    <3>1. env.origin = o
      BY <2>2 DEF InitOld
    <3>2. o = Dev
      BY <3>1
    <3> QED
      BY <2>2, <3>2
  <2> QED
    BY <2>1, <2>2 DEF Init
<1>1. TypeOK /\ Opened
  BY TypeInit
<1>2. Safe(Resolve(env))
  BY <1>0, NewIsSafe, OldIsSafe
<1>3. Loaded(env) = Resolve(env)
  BY <1>2 DEF Loaded, Safe
<1>4. FilesInv
  <2>1. \A f \in Files : rows[f] # {} => f = Legacy /\ rows[f] \subseteq {Dev}
    BY <1>0 DEF InitNew, InitOld
  <2>2. Home(Legacy) = Dev
    BY DEF Home, Legacy
  <2> QED
    BY <2>1, <2>2 DEF FilesInv, Init
<1> QED
  BY <1>1, <1>2, <1>3, <1>4 DEF DisjointInv, WorkersInv, ManagerInv, Init

\* Every step but an edit of .env by hand keeps it.
LEMMA DisjointStep ==
    ASSUME DisjointInv, [Switch]_vars
    PROVE  DisjointInv'
<1> USE DEF disk, work
<1>0. TypeOK' /\ Opened'
  <2>1. [Next]_vars
    BY DEF Switch, Next, Manage
  <2> QED
    BY <2>1, TypeStep DEF DisjointInv
<1> SUFFICES FilesInv' /\ WorkersInv' /\ ManagerInv'
  BY <1>0 DEF DisjointInv
<1>1. TypeOK /\ Opened /\ FilesInv /\ WorkersInv /\ ManagerInv
  BY DEF DisjointInv
<1> HIDE DEF TypeOK, FilesInv, WorkersInv, ManagerInv
<1>2. CASE UNCHANGED disk /\ UNCHANGED <<env, conf>>
             /\ (\A w \in Workers : pc'[w] \notin {"off", "starting"} => Safe(at'[w]))
             /\ (\A w \in Workers :
                   pc'[w] = "running" => pc[w] = "running" /\ at'[w] = at[w])
  BY <1>1, <1>2 DEF FilesInv, WorkersInv, ManagerInv
<1>3. CASE StartService
  BY <1>1, <1>2, <1>3 DEF StartService, GoTo, WorkersInv, TypeOK
<1>4. ASSUME NEW w \in Workers, Load(w) PROVE FilesInv' /\ WorkersInv' /\ ManagerInv'
  BY <1>1, <1>2, <1>4 DEF Load, Exit, WorkersInv, ManagerInv, TypeOK
<1>5. ASSUME NEW w \in Workers, CheckLegacy(w) PROVE FilesInv' /\ WorkersInv' /\ ManagerInv'
  BY <1>1, <1>2, <1>5 DEF CheckLegacy, Exit, GoTo, WorkersInv, TypeOK
<1>6. ASSUME NEW w \in Workers, Stop(w) PROVE FilesInv' /\ WorkersInv' /\ ManagerInv'
  BY <1>1, <1>2, <1>6 DEF Stop, Exit, WorkersInv, TypeOK
<1>7. ASSUME NEW w \in Workers, Read(w) PROVE FilesInv' /\ WorkersInv' /\ ManagerInv'
  <2>1. UNCHANGED <<env, conf, meta, rows>>
    BY <1>7 DEF Read
  <2>2. Safe(at[w]) /\ at[w].file \in Files
    BY <1>1, <1>7 DEF Read, WorkersInv, Safe, Settings
  <2>3. pc'[w] = "running" => meta[at[w].file] = at[w].origin /\ at'[w] = at[w]
    BY <1>1, <1>7 DEF Read, Foreign, Exit, GoTo, TypeOK
  <2>4. \A v \in Workers \ {w} : pc'[v] = pc[v] /\ at'[v] = at[v]
    BY <1>1, <1>7 DEF Read, Exit, GoTo, TypeOK
  <2>5. pc'[w] # "off" => at'[w] = at[w]
    BY <1>1, <1>7 DEF Read, Exit, GoTo, TypeOK
  <2>6. WorkersInv'
    BY <1>1, <2>1, <2>2, <2>3, <2>4, <2>5 DEF WorkersInv
  <2> QED
    BY <1>1, <2>1, <2>6 DEF FilesInv, ManagerInv
<1>8. ASSUME NEW w \in Workers, Bind(w) PROVE FilesInv' /\ WorkersInv' /\ ManagerInv'
  <2> DEFINE f == at[w].file
  <2>1. Safe(at[w]) /\ f \in Files /\ at[w].origin = Home(f)
    BY <1>1, <1>8, SafeHome DEF Bind, WorkersInv, Safe, Settings
  <2>2. meta'[f] = Home(f) /\ \A g \in Files \ {f} : meta'[g] = meta[g]
    BY <1>1, <1>8, <2>1 DEF Bind, FilesInv, TypeOK
  <2>3. UNCHANGED <<env, conf, rows, at>>
    BY <1>8 DEF Bind, GoTo
  <2>4. FilesInv'
    <3>1. Home(f) # Unbound
      BY <2>1, ConstantsAssumption DEF Safe, Settings
    <3> QED
      BY <1>1, <2>2, <2>3, <3>1 DEF FilesInv
  <2>5. \A v \in Workers \ {w} : pc'[v] = pc[v]
    BY <1>1, <1>8 DEF Bind, GoTo, TypeOK
  <2>6. \A v \in Workers : pc'[v] = "running" => meta'[at[v].file] = at[v].origin
    <3> SUFFICES ASSUME NEW v \in Workers \ {w}, pc[v] = "running"
                 PROVE  meta'[at[v].file] = at[v].origin
      BY <2>1, <2>2, <2>5
    <3>1. Safe(at[v]) /\ at[v].file \in Files /\ at[v].origin = Home(at[v].file)
      BY <1>1, SafeHome DEF WorkersInv, Safe, Settings
    <3> QED
      BY <1>1, <2>2, <3>1 DEF WorkersInv
  <2>7. WorkersInv'
    BY <1>1, <2>1, <2>3, <2>5, <2>6 DEF WorkersInv
  <2> QED
    BY <1>1, <2>3, <2>4, <2>7 DEF ManagerInv
<1>9. ASSUME NEW w \in Workers, Put(w) \/ Deliver(w)
       PROVE FilesInv' /\ WorkersInv' /\ ManagerInv'
  <2> DEFINE f == at[w].file
  <2>1. Safe(at[w]) /\ f \in Files /\ at[w].origin = Home(f) /\ meta[f] = at[w].origin
    BY <1>1, <1>9, SafeHome DEF Put, Deliver, WorkersInv, Safe, Settings
  <2>2. UNCHANGED <<env, conf, meta, pc, at>>
    BY <1>9 DEF Put, Deliver
  <2>3. rows'[f] \subseteq {Home(f)} /\ \A g \in Files \ {f} : rows'[g] = rows[g]
    BY <1>1, <1>9, <2>1 DEF Put, Deliver, FilesInv, TypeOK
  <2>4. meta[f] # Unbound
    BY <2>1, ConstantsAssumption DEF Safe, Settings
  <2>5. FilesInv'
    BY <1>1, <2>1, <2>2, <2>3, <2>4 DEF FilesInv, Home
  <2> QED
    BY <1>1, <2>2, <2>5 DEF WorkersInv, ManagerInv
<1>10. CASE UNCHANGED <<meta, rows>> /\ ManagerInv'
              /\ (\A w \in Workers :
                    pc'[w] \notin {"off", "starting"} => pc'[w] = pc[w] /\ at'[w] = at[w])
  BY <1>1, <1>10 DEF FilesInv, WorkersInv
<1>11. ASSUME NEW c \in Choices
       PROVE Safe(Form(c[1], c[2])) /\ Resolve(Form(c[1], c[2])) = Form(c[1], c[2])
  BY <1>1, SafeForm, SafeLoads, FormType DEF ManagerInv
<1>12. CASE SaveProfile
  <2>1. ManagerInv'
    BY <1>11, <1>12 DEF SaveProfile, Save, ManagerInv
  <2> QED
    BY <1>10, <1>12, <2>1 DEF SaveProfile
<1>13. CASE RunDirectly
  <2>1. ManagerInv'
    BY <1>11, <1>13 DEF RunDirectly, Save, ManagerInv
  <2>2. \A w \in Workers : pc'[w] # "starting" => pc'[w] = pc[w]
    BY <1>1, <1>13 DEF RunDirectly, GoTo, TypeOK
  <2> QED
    BY <1>10, <1>13, <2>1, <2>2 DEF RunDirectly, GoTo
<1>14. CASE InstallService
  <2>1. PICK c \in Choices :
    /\ env' = [Form(c[1], c[2]) EXCEPT !.file = ScriptFile(Form(c[1], c[2]))]
    /\ conf' = env'
    BY <1>14 DEF InstallService
  <2>2. Safe(env')
    BY <1>11, <2>1, SafeScript
  <2>3. ManagerInv'
    BY <2>1, <2>2, SafeLoads DEF ManagerInv, Safe
  <2>4. \A w \in Workers : pc'[w] # "starting" => pc'[w] = pc[w] /\ at'[w] = at[w]
    BY <1>1, <1>14 DEF InstallService, TypeOK
  <2> QED
    BY <1>10, <1>14, <2>3, <2>4 DEF InstallService
<1>15. CASE Reload
  <2>1. ManagerInv'
    BY <1>1, <1>15 DEF Reload, Loaded, ManagerInv, Safe
  <2> QED
    BY <1>10, <1>15, <2>1 DEF Reload
<1>16. CASE UNCHANGED vars
  BY <1>1, <1>10, <1>16 DEF vars, ManagerInv
<1> QED
  BY <1>3, <1>4, <1>5, <1>6, <1>7, <1>8, <1>9, <1>12, <1>13, <1>14, <1>15, <1>16
  DEF Switch, Work

\* What it means for the runs.
LEMMA DisjointProperties ==
    ASSUME DisjointInv
    PROVE  RowsAtHome /\ BoundOrRefused /\ EnvOpens
<1>1. RowsAtHome
  BY SafeHome DEF DisjointInv, RowsAtHome, FilesInv, WorkersInv, Safe, Settings
<1>2. BoundOrRefused
  BY DEF DisjointInv, WorkersInv, BoundOrRefused
<1>3. EnvOpens
  <2> DEFINE s == Resolve(env)
  <2>1. Safe(s) /\ s.file \in Files /\ s.origin = Home(s.file)
    BY SafeHome DEF DisjointInv, ManagerInv, Safe, Settings
  <2>2. meta[s.file] \in {Unbound, s.origin}
    BY <2>1 DEF DisjointInv, FilesInv
  <2>3. meta[s.file] = Unbound /\ s.environment # "development" => rows[s.file] = {}
    BY <2>1, SafeHome DEF DisjointInv, FilesInv
  <2> QED
    BY <2>1, <2>2, <2>3 DEF EnvOpens, Opens, Foreign, Refused, Safe
<1> QED
  BY <1>1, <1>2, <1>3

\* With any workers, switching profiles, installing and running in any order,
\* from a new installation or one upgraded from DEV: no worker runs on rows of
\* another RADAR or on a file not bound to its own, and the profile in .env can
\* always be opened (database_path_for_environment, _bind_profile).
THEOREM SwitchesAreSafe ==
    ASSUME ManagerOnly
    PROVE  Spec => [](RowsAtHome /\ BoundOrRefused /\ EnvOpens)
<1>1. Init => DisjointInv
  <2>1. Init => env.origin = Dev
    <3>1. InitNew => env.origin = Dev
      BY DEF InitNew
    <3>2. ASSUME NEW o \in LegacyOrigins, InitOld(o)
          PROVE  env.origin = Dev
      <4>1. env.origin = o
        BY <3>2 DEF InitOld
      <4> QED
        BY <4>1 DEF ManagerOnly
    <3> QED
      BY <3>1, <3>2 DEF Init
  <2> QED
    BY <2>1, DisjointInit
<1>2. DisjointInv /\ [Next]_vars => DisjointInv'
  <2>1. [Next]_vars => [Switch]_vars
    BY DEF Next, Manage, Switch, HandEdit, ManagerOnly
  <2> QED
    BY <2>1, DisjointStep
<1>3. DisjointInv => RowsAtHome /\ BoundOrRefused /\ EnvOpens
  BY DisjointProperties
<1> QED
  BY <1>1, <1>2, <1>3, PTL DEF Spec

-----------------------------------------------------------------------------
(* (2) One worker, and a .env that may name any origin with any file.      *)

\* Unbound rows are DEV's, and the worker has looked before it runs.
BindingInv ==
    \A f \in Files : rows[f] \subseteq {IF meta[f] = Unbound THEN Dev ELSE meta[f]}

WorkerInv(w) ==
    LET s == at[w]
    IN  /\ pc[w] \notin {"off", "starting"} => Valid(s)
        /\ pc[w] \in {"unbound", "checked"} => meta[s.file] = Unbound
        /\ pc[w] = "checked" => s.origin = Dev \/ rows[s.file] = {}
        /\ pc[w] = "running" => meta[s.file] = s.origin

Others(w) == \A v \in Workers \ {w} : pc[v] = "off"

\* What an old agent.db holds is DEV's.
LEMMA BindingInit ==
    ASSUME LegacyRows \subseteq {Dev}, Init
    PROVE  BindingInv /\ \A w \in Workers : pc[w] = "off" /\ WorkerInv(w)
<1>1. \A f \in Files : rows[f] \subseteq {Dev}
  BY DEF Init, InitNew, InitOld
<1> QED
  BY <1>1 DEF BindingInv, WorkerInv, Init

\* Whatever .env says, a worker that is the only one looks before it runs.
LEMMA BindingStep ==
    ASSUME NEW w \in Workers, Others(w), Others(w)',
           TypeOK, BindingInv, WorkerInv(w), [Next]_vars
    PROVE  BindingInv' /\ WorkerInv(w)'
<1> USE DEF disk, work, WorkerInv
<1>0. at[w] \in Settings /\ at[w].file \in Files /\ at[w].origin \in Origins
  BY DEF TypeOK, Settings
<1> DEFINE f == at[w].file
<1>1. CASE UNCHANGED <<meta, rows>> /\ (pc'[w] \in {"off", "starting"} \/ UNCHANGED work)
  BY <1>1 DEF BindingInv
<1>2. CASE StartService
  BY <1>0, <1>1, <1>2 DEF StartService, GoTo, Others, TypeOK
<1>3. CASE Load(w)
  <2>1. UNCHANGED <<meta, rows>>
    BY <1>3 DEF Load
  <2>2. pc'[w] = "off" \/ (pc'[w] = "loaded" /\ Valid(at'[w]))
    <3>1. CASE Valid(Resolve(env))
      <4>1. pc'[w] = "loaded" /\ at'[w] = Resolve(env)
        BY <1>0, <1>3, <3>1 DEF Load, TypeOK
      <4> QED
        BY <3>1, <4>1
    <3>2. CASE ~Valid(Resolve(env))
      <4>1. Exit(w)
        BY <1>3, <3>2 DEF Load
      <4>2. pc'[w] = "off"
        BY <1>0, <4>1 DEF Exit, TypeOK
      <4> QED
        BY <4>2
    <3> QED
      BY <3>1, <3>2
  <2> QED
    BY <2>1, <2>2 DEF BindingInv
<1>4. CASE Read(w)
  <2>1. UNCHANGED <<meta, rows>>
    BY <1>4 DEF Read
  <2>2. \/ pc'[w] = "off"
        \/ pc'[w] = "unbound" /\ UNCHANGED at /\ meta[f] = Unbound
        \/ pc'[w] = "running" /\ UNCHANGED at /\ meta[f] = at[w].origin
    BY <1>0, <1>4 DEF Read, Exit, GoTo, Foreign, TypeOK
  <2> QED
    BY <1>4, <2>1, <2>2 DEF BindingInv, Read
<1>5. CASE CheckLegacy(w)
  <2>1. UNCHANGED <<meta, rows>>
    BY <1>5 DEF CheckLegacy
  <2>2. \/ pc'[w] = "off"
        \/ pc'[w] = "checked" /\ UNCHANGED at /\ (at[w].origin = Dev \/ rows[f] = {})
    BY <1>0, <1>5 DEF CheckLegacy, Exit, GoTo, Refused, TypeOK, Valid
  <2> QED
    BY <1>5, <2>1, <2>2 DEF BindingInv, CheckLegacy
<1>6. CASE Bind(w)
  <2>1. /\ meta' = [meta EXCEPT ![f] = at[w].origin]
        /\ UNCHANGED <<rows, at>>
        /\ pc'[w] = "running"
    BY <1>0, <1>6 DEF Bind, GoTo, TypeOK
  <2>2. rows[f] \subseteq {Dev} /\ (at[w].origin = Dev \/ rows[f] = {})
    BY <1>0, <1>6 DEF Bind, BindingInv
  <2>3. meta'[f] = at[w].origin /\ \A g \in Files \ {f} : meta'[g] = meta[g]
    BY <1>0, <2>1 DEF TypeOK
  <2>4. rows[f] \subseteq {IF meta'[f] = Unbound THEN Dev ELSE meta'[f]}
    BY <1>0, <2>2, <2>3, ConstantsAssumption
  <2> QED
    <3>1. BindingInv'
      BY <2>1, <2>3, <2>4 DEF BindingInv
    <3>2. WorkerInv(w)'
      BY <1>6, <2>1, <2>3 DEF Bind
    <3> QED
      BY <3>1, <3>2
<1>7. CASE Put(w) \/ Deliver(w)
  <2>1. UNCHANGED <<meta, pc, at>> /\ meta[f] = at[w].origin
    BY <1>7 DEF Put, Deliver
  <2>2. /\ rows'[f] \subseteq rows[f] \cup {at[w].origin}
        /\ \A g \in Files \ {f} : rows'[g] = rows[g]
    BY <1>0, <1>7 DEF Put, Deliver, TypeOK
  <2>3. rows'[f] \subseteq {IF meta[f] = Unbound THEN Dev ELSE meta[f]}
    BY <1>0, <2>1, <2>2, ConstantsAssumption DEF BindingInv
  <2>4. pc[w] = "running"
    BY <1>7 DEF Put, Deliver
  <2> QED
    BY <2>1, <2>2, <2>3, <2>4 DEF BindingInv
<1>8. CASE Stop(w)
  BY <1>0, <1>1, <1>8 DEF Stop, Exit, TypeOK
<1>9. CASE SaveProfile
  BY <1>1, <1>9 DEF SaveProfile
<1>10. CASE RunDirectly
  BY <1>0, <1>1, <1>10 DEF RunDirectly, GoTo, Others, TypeOK
<1>11. CASE InstallService
  BY <1>0, <1>1, <1>11 DEF InstallService, Others, TypeOK
<1>12. CASE Reload
  BY <1>1, <1>12 DEF Reload
<1>13. CASE HandEdit
  BY <1>1, <1>13 DEF HandEdit
<1>14. CASE UNCHANGED vars
  BY <1>1, <1>14 DEF vars
<1>15. \A v \in Workers : Work(v) => v = w
  BY DEF Others, Work, Load, Read, CheckLegacy, Bind, Put, Deliver, Stop
<1> QED
  BY <1>2, <1>3, <1>4, <1>5, <1>6, <1>7, <1>8, <1>9, <1>10, <1>11, <1>12, <1>13, <1>14,
     <1>15
  DEF Next, Work, Manage

\* What it delivers is then its own.
LEMMA BindingProperties ==
    ASSUME NEW w \in Workers, TypeOK, BindingInv, WorkerInv(w), pc[w] = "running"
    PROVE  rows[at[w].file] \subseteq {at[w].origin} /\ meta[at[w].file] = at[w].origin
<1>1. at[w].file \in Files /\ at[w].origin \in Origins /\ meta[at[w].file] = at[w].origin
  BY DEF TypeOK, WorkerInv, Settings
<1> QED
  BY <1>1, ConstantsAssumption DEF BindingInv

\* One worker at a time, and what an old agent.db holds is DEV's.
OneWorker(w) == Workers = {w} /\ LegacyRows \subseteq {Dev}

\* A single worker, on whatever file and origin .env names: it runs on a file
\* bound to its RADAR and never delivers DEV's old rows or another RADAR's
\* (_bind_profile).
THEOREM BindingIsSafe ==
    ASSUME NEW w, OneWorker(w)
    PROVE  Spec => [](RowsAtHome /\ BoundOrRefused)
<1> DEFINE Inv == TypeOK /\ Opened /\ BindingInv /\ WorkerInv(w)
<1>0. w \in Workers /\ Workers = {w} /\ LegacyRows \subseteq {Dev}
  BY DEF OneWorker
<1>1. Init => Inv
  BY <1>0, TypeInit, BindingInit
<1>2. Inv /\ [Next]_vars => Inv'
  <2>1. Others(w) /\ Others(w)'
    BY <1>0 DEF Others
  <2> QED
    BY <1>0, <2>1, TypeStep, BindingStep
<1>3. Inv => RowsAtHome /\ BoundOrRefused
  BY <1>0, BindingProperties DEF RowsAtHome, BoundOrRefused
<1> QED
  BY <1>1, <1>2, <1>3, PTL DEF Spec

-----------------------------------------------------------------------------
(* (3) The files of one configuration.                                     *)

\* A secret file half written has its writer at it, or one that was cut short.
TornInv ==
    secret = Torn => \/ step = "secret" /\ form.secret # None
                     \/ script = "secret"
                     \/ cut

\* What a writer has written is there before it writes .env that names it.
WrittenInv ==
    /\ step \in {"acl", "key", "keyWrite", "env"} => secret # None
    /\ step = "env" /\ form.dast => key # None
    /\ script \in {"sealed", "env"} => secret # None
    /\ script # "idle" /\ copy.env.dast => copy.env.keyFile /\ key # None

SaveInv == C!TypeOK /\ TornInv /\ WrittenInv /\ C!EnvNamesFiles

\* A save runs alone, or all it and the script beside it write is in doubt.
AloneInv == step # "idle" => IF beside THEN C!Fields = unsure ELSE script = "idle"

\* What a save has written so far is what it was asked to.
FormInv ==
    /\ ~beside /\ step \in {"acl", "key", "keyWrite", "env"} /\ form.secret # None =>
         secret = form.secret
    /\ step = "keyWrite" => form.dast
    /\ step = "env" /\ form.dast /\ form.key # None => key = "key"

\* A client in no doubt is in .env, or the script is about to put it there.
ClientInv ==
    "client" \notin unsure =>
      /\ script # "env" => savedEnv # Torn /\ savedEnv.client = wanted.client
      /\ script # "idle" => copy.env.client = wanted.client

\* A secret in no doubt is in its file, unless that is being written just now.
SecretInv ==
    /\ script # "idle" => copy.env.plain = None
    /\ "secret" \notin unsure =>
         /\ script # "env" => savedEnv # Torn /\ savedEnv.plain = None
         /\ script # "idle" => copy.secret = wanted.secret
         /\ (step = "idle" \/ form.secret = None) /\ script # "secret" => secret = wanted.secret

\* With a key in no doubt DAST is on if and only if a save asked for it, and the file
\* is whole, also one kept from before.
KeyInv ==
    "key" \notin unsure =>
      /\ script # "env" =>
           savedEnv # Torn /\ wanted.key = IF savedEnv.dast THEN "key" ELSE None
      /\ script # "idle" => wanted.key = IF copy.env.dast THEN "key" ELSE None
      /\ step # "keyWrite" => key # Torn

KeptInv == AloneInv /\ FormInv /\ ClientInv /\ SecretInv /\ KeyInv

\* The configuration an installation begins with.
LEMMA SaveInit ==
    ASSUME C!ConstantsAssumption, C!Init
    PROVE  SaveInv
<1>1. savedEnv \in C!Envs /\ (savedEnv.dast => savedEnv.keyFile /\ key = "key")
  BY DEF C!Init
<1>2. secret \in Secrets \cup {None} /\ (savedEnv.plain = None => secret # None)
  BY DEF C!Init
<1>3. wanted \in C!Wants
  BY <1>1, <1>2 DEF C!Init, C!Effective, C!Wants, C!Envs
<1>4. None \notin Secrets /\ Torn \notin Secrets /\ None # Torn /\ "key" \notin {None, Torn}
  BY DEF C!ConstantsAssumption
<1>5. unsure \in SUBSET C!Fields
  BY DEF C!Init, C!Fields
<1>6. C!TypeOK
  BY <1>1, <1>2, <1>3, <1>4, <1>5 DEF C!Init, C!TypeOK
<1>7. TornInv /\ WrittenInv /\ C!EnvNamesFiles
  BY <1>1, <1>2, <1>4 DEF TornInv, WrittenInv, C!EnvNamesFiles, C!Init
<1> QED
  BY <1>6, <1>7 DEF SaveInv

\* What the operators of a save return while it runs.
LEMMA Effects ==
    ASSUME C!TypeOK
    PROVE  /\ step # "idle" =>
                /\ form \in C!Forms
                /\ C!Saved \in C!Envs /\ C!Saved.plain = None
                /\ (C!Saved.dast => C!Saved.keyFile)
                /\ C!Saved.dast = form.dast /\ C!Saved.client = form.client
                /\ C!Asked \in C!Wants
           /\ C!Touched \subseteq C!Fields
           /\ unsure \cup C!Touched \subseteq C!Fields
           /\ \A e \in C!Envs : /\ [e EXCEPT !.plain = None] \in C!Envs
                                /\ [e EXCEPT !.plain = None].plain = None
                                /\ [e EXCEPT !.plain = None].dast = e.dast
                                /\ [e EXCEPT !.plain = None].client = e.client
                                /\ [e EXCEPT !.plain = None].keyFile = e.keyFile
<1>1. ASSUME step # "idle"
      PROVE  /\ form \in C!Forms
             /\ C!Saved \in C!Envs /\ C!Saved.plain = None
             /\ (C!Saved.dast => C!Saved.keyFile)
             /\ C!Saved.dast = form.dast /\ C!Saved.client = form.client
             /\ C!Asked \in C!Wants
  <2>1. savedConf \in C!Envs /\ form \in C!Forms /\ wanted \in C!Wants
    BY <1>1 DEF C!TypeOK
  <2>2. C!Saved \in C!Envs
    BY <2>1 DEF C!Saved, C!Envs, C!Forms
  <2>3. /\ C!Saved.plain = None /\ (C!Saved.dast => C!Saved.keyFile)
        /\ C!Saved.dast = form.dast /\ C!Saved.client = form.client
    BY DEF C!Saved
  <2>4. C!Asked \in C!Wants
    BY <2>1 DEF C!Asked, C!Wants, C!Forms
  <2> QED
    BY <2>1, <2>2, <2>3, <2>4
<1>2. C!Touched \subseteq C!Fields /\ unsure \cup C!Touched \subseteq C!Fields
  BY DEF C!Touched, C!Fields, C!TypeOK
<1>3. ASSUME NEW e \in C!Envs
      PROVE  /\ [e EXCEPT !.plain = None] \in C!Envs
             /\ [e EXCEPT !.plain = None].plain = None
             /\ [e EXCEPT !.plain = None].dast = e.dast
             /\ [e EXCEPT !.plain = None].client = e.client
             /\ [e EXCEPT !.plain = None].keyFile = e.keyFile
  BY DEF C!Envs
<1> QED
  BY <1>1, <1>2, <1>3

\* Every step, also one of the script beside a save, keeps it.
LEMMA SaveStep ==
    ASSUME C!ConstantsAssumption, SaveInv, [C!Next]_(C!vars)
    PROVE  SaveInv'
<1> USE DEF C!files, C!manager, C!ps1, C!history
<1>0. /\ C!TypeOK /\ TornInv /\ WrittenInv /\ C!EnvNamesFiles
      /\ None \notin Secrets /\ Torn \notin Secrets /\ None # Torn /\ "key" \notin {None, Torn}
  BY DEF SaveInv, C!ConstantsAssumption
<1> SUFFICES C!TypeOK' /\ TornInv' /\ WrittenInv' /\ C!EnvNamesFiles'
  BY DEF SaveInv
<1>e. unsure \cup C!Touched \subseteq C!Fields
  BY <1>0, Effects
<1> USE <1>0, <1>e DEF C!TypeOK, TornInv, WrittenInv, C!EnvNamesFiles
<1> USE DEF C!Go, C!Fail, C!WriteFails, C!GivenUp
<1>1. CASE C!SaveStarts
  <2>1. form' \in C!Forms /\ step' = "secret"
    BY <1>1 DEF C!SaveStarts
  <2>2. secret' \in {secret, Torn} /\ (secret' # secret => form'.secret # None)
    BY <1>1 DEF C!SaveStarts
  <2> QED
    BY <1>1, <2>1, <2>2 DEF C!SaveStarts
<1>2. CASE C!SecretWritten
  BY <1>2 DEF C!SecretWritten, C!Forms
<1>3. CASE C!Acl
  BY <1>3 DEF C!Acl
<1>4. CASE C!Key
  BY <1>4 DEF C!Key, C!KeyThere
<1>5. CASE C!KeyWritten
  BY <1>5 DEF C!KeyWritten
<1>6. CASE C!Replace
  <2>1. CASE step = "env" /\ C!Fail /\ UNCHANGED <<savedEnv, secret, key>>
    BY <2>1
  <2>2. CASE C!Replaced
    <3>1. unsure' \subseteq C!Fields
      BY <2>2 DEF C!Replaced
    <3>2. /\ savedEnv' = C!Saved /\ savedEnv' \in C!Envs /\ wanted' \in C!Wants
          /\ savedEnv'.plain = None
          /\ savedEnv'.dast => savedEnv'.keyFile /\ form.dast
      BY <2>2, Effects DEF C!Replaced
    <3> QED
      BY <2>2, <3>1, <3>2 DEF C!Replaced
  <2> QED
    BY <1>6, <2>1, <2>2 DEF C!Replace
<1>7. CASE C!ManagerDies
  BY <1>7 DEF C!ManagerDies, C!Load
<1>8. CASE C!Install
  BY <1>8, Effects DEF C!Install
<1>9. CASE C!SealBegins
  BY <1>9 DEF C!SealBegins, C!Script
<1>10. CASE C!SealEnds
  BY <1>10 DEF C!SealEnds, C!Script
<1>11. CASE C!EnvBegins
  BY <1>11 DEF C!EnvBegins, C!Script
<1>12. CASE C!EnvEnds
  BY <1>12 DEF C!EnvEnds
<1>13. CASE C!ScriptDies
  BY <1>13 DEF C!ScriptDies, C!Load
<1>14. CASE UNCHANGED C!vars
  BY <1>14 DEF C!vars
<1> QED
  BY <1>1, <1>2, <1>3, <1>4, <1>5, <1>6, <1>7, <1>8, <1>9, <1>10, <1>11, <1>12, <1>13, <1>14
  DEF C!Next

\* At first what was asked for is what is there, but for an old secret beside one in .env.
LEMMA KeptInit ==
    ASSUME C!ConstantsAssumption, C!Init
    PROVE  KeptInv
<1>1. /\ savedEnv \in C!Envs /\ savedEnv # Torn
      /\ savedEnv.client = wanted.client
      /\ wanted.key = IF savedEnv.dast THEN "key" ELSE None
      /\ key \in {"key", None} /\ None # Torn /\ "key" # Torn
  <2>1. savedEnv \in C!Envs /\ savedEnv.keyFile = savedEnv.dast
    BY DEF C!Init
  <2>2. wanted = C!Effective
    BY DEF C!Init
  <2>3. wanted.client = savedEnv.client
    BY <2>2 DEF C!Effective
  <2>4. wanted.key = IF savedEnv.dast THEN "key" ELSE None
    BY <2>1, <2>2 DEF C!Effective, C!Init
  <2> QED
    BY <2>1, <2>3, <2>4 DEF C!Init, C!ConstantsAssumption
<1>2. "secret" \notin unsure => savedEnv.plain = None /\ secret = wanted.secret
  BY DEF C!Init, C!Effective
<1> QED
  BY <1>1, <1>2
  DEF C!Init, KeptInv, AloneInv, FormInv, ClientInv, SecretInv, KeyInv

\* A save that ends in an error leaves in doubt what it may have written.
LEMMA KeptGivenUp ==
    ASSUME C!ConstantsAssumption, SaveInv, KeptInv, step # "idle", C!GivenUp,
           UNCHANGED savedEnv,
           form.secret = None => secret' = secret,
           step # "keyWrite" => key' = key
    PROVE  KeptInv'
<1> USE DEF C!ps1
<1>1. /\ "secret" \notin unsure' => "secret" \notin unsure /\ form.secret = None
      /\ "key" \notin unsure' => "key" \notin unsure /\ ~(form.dast /\ step = "keyWrite")
      /\ "client" \notin unsure' => "client" \notin unsure
  BY DEF C!GivenUp, C!Touched
<1>2. step' = "idle" /\ UNCHANGED <<script, copy, wanted>>
  BY DEF C!GivenUp
<1>3. AloneInv' /\ FormInv' /\ ClientInv'
  BY <1>1, <1>2 DEF KeptInv, AloneInv, FormInv, ClientInv
<1>4. SecretInv'
  BY <1>1, <1>2 DEF KeptInv, SecretInv
<1>5. KeyInv'
  BY <1>1, <1>2 DEF KeptInv, KeyInv, FormInv
<1> QED
  BY <1>3, <1>4, <1>5 DEF KeptInv

\* A save that succeeds has left what it was asked for, or the script was beside it.
LEMMA KeptReplaced ==
    ASSUME C!ConstantsAssumption, SaveInv, KeptInv, C!Replaced
    PROVE  KeptInv'
<1> USE DEF C!ps1
<1>0. /\ C!TypeOK /\ AloneInv /\ FormInv /\ SecretInv /\ KeyInv
      /\ step = "env" /\ step' = "idle" /\ UNCHANGED <<secret, key, script, copy>>
      /\ "client" \in C!Fields /\ "secret" \in C!Fields /\ "key" \in C!Fields
  BY DEF SaveInv, KeptInv, C!Replaced, C!Fields
<1>1. AloneInv' /\ FormInv'
  BY <1>0 DEF AloneInv, FormInv
<1>2. CASE beside
  <2>1. unsure' = C!Fields
    BY <1>2 DEF C!Replaced
  <2> QED
    BY <1>0, <1>1, <2>1 DEF KeptInv, ClientInv, SecretInv, KeyInv
<1>3. CASE ~beside
  <2>1. script = "idle" /\ script' = "idle"
    BY <1>0, <1>3 DEF AloneInv
  <2>2. /\ savedEnv' # Torn /\ savedEnv'.plain = None
        /\ savedEnv'.client = form.client /\ savedEnv'.dast = form.dast
        /\ form \in C!Forms
    BY <1>0, Effects DEF C!Replaced, C!ConstantsAssumption
  <2>3. /\ wanted'.client = form.client
        /\ wanted'.secret = IF form.secret # None THEN form.secret ELSE wanted.secret
        /\ wanted'.key = IF form.dast THEN "key" ELSE None
    BY DEF C!Replaced, C!Asked
  <2>4. unsure' = unsure \ C!Typed
    BY <1>3 DEF C!Replaced
  <2>5. "secret" \notin unsure' => secret = wanted'.secret
    <3>1. CASE form.secret # None
      BY <1>0, <1>3, <2>3, <3>1 DEF FormInv
    <3>2. CASE form.secret = None
      BY <1>0, <2>1, <2>3, <2>4, <3>2 DEF SecretInv, C!Typed
    <3> QED
      BY <3>1, <3>2
  <2>6. "key" \notin unsure' => key # Torn
    <3>1. CASE form.dast /\ form.key # None
      BY <1>0, <3>1 DEF FormInv, C!ConstantsAssumption
    <3>2. CASE ~(form.dast /\ form.key # None)
      BY <1>0, <2>4, <3>2 DEF KeyInv, C!Typed
    <3> QED
      BY <3>1, <3>2
  <2>7. ClientInv' /\ SecretInv' /\ KeyInv'
    BY <1>0, <2>1, <2>2, <2>3, <2>5, <2>6 DEF ClientInv, SecretInv, KeyInv
  <2> QED
    BY <1>1, <2>7 DEF KeptInv
<1> QED
  BY <1>2, <1>3

\* Every step keeps it: what fails or dies is in doubt from then on.
LEMMA KeptStep ==
    ASSUME C!ConstantsAssumption, SaveInv, KeptInv, [C!Next]_(C!vars)
    PROVE  KeptInv'
<1> USE DEF C!files, C!manager, C!ps1, C!history
<1>0. /\ C!TypeOK /\ WrittenInv
      /\ AloneInv /\ FormInv /\ ClientInv /\ SecretInv /\ KeyInv
      /\ None \notin Secrets /\ Torn \notin Secrets /\ None # Torn /\ "key" \notin {None, Torn}
      /\ Torn \notin C!Envs
  BY DEF SaveInv, KeptInv, C!ConstantsAssumption
<1>t. /\ step \in {"idle", "secret", "acl", "key", "keyWrite", "env"}
      /\ script \in {"idle", "begin", "secret", "sealed", "env"}
      /\ "client" \in C!Fields /\ "secret" \in C!Fields /\ "key" \in C!Fields
      /\ step # "idle" => form \in C!Forms
  BY <1>0 DEF C!TypeOK, C!Fields
<1> USE <1>0, <1>t DEF AloneInv, FormInv, ClientInv, SecretInv, KeyInv
<1>1. CASE C!SaveStarts
  BY <1>1 DEF KeptInv, C!SaveStarts
<1>2. CASE C!SecretWritten
  <2>1. CASE C!Fail \/ C!WriteFails
    BY <1>2, <2>1, KeptGivenUp DEF C!SecretWritten, C!Fail, C!WriteFails
  <2>2. CASE \/ C!Go("acl") /\ secret' = form.secret
             \/ C!Go("key") /\ form.secret = None /\ secret' = secret
    BY <1>2, <2>2 DEF KeptInv, C!SecretWritten, C!Go
  <2> QED
    BY <1>2, <2>1, <2>2 DEF C!SecretWritten
<1>3. CASE C!Acl
  <2>1. CASE C!Fail
    BY <1>3, <2>1, KeptGivenUp DEF C!Acl, C!Fail
  <2>2. CASE C!Go("key")
    BY <1>3, <2>2 DEF KeptInv, C!Acl, C!Go
  <2> QED
    BY <1>3, <2>1, <2>2 DEF C!Acl
<1>4. CASE C!Key
  <2>1. CASE C!Fail /\ UNCHANGED key
    BY <1>4, <2>1, KeptGivenUp DEF C!Key, C!Fail
  <2>2. CASE C!Go("keyWrite") /\ form.dast /\ key' = Torn
    BY <1>4, <2>2 DEF KeptInv, C!Key, C!Go
  <2>3. CASE C!Go("env") /\ UNCHANGED key /\ ~(form.dast /\ form.key # None)
    BY <1>4, <2>3 DEF KeptInv, C!Key, C!Go
  <2> QED
    BY <1>4, <2>1, <2>2, <2>3 DEF C!Key, C!KeyThere
<1>5. CASE C!KeyWritten
  <2>1. CASE C!Fail \/ C!WriteFails
    BY <1>5, <2>1, KeptGivenUp DEF C!KeyWritten, C!Fail, C!WriteFails
  <2>2. CASE C!Go("env") /\ key' = "key"
    BY <1>5, <2>2 DEF KeptInv, C!KeyWritten, C!Go
  <2> QED
    BY <1>5, <2>1, <2>2 DEF C!KeyWritten
<1>6. CASE C!Replace
  BY <1>6, KeptReplaced, KeptGivenUp DEF C!Replace, C!Fail
<1>7. CASE C!ManagerDies
  BY <1>7, KeptGivenUp DEF C!ManagerDies
<1>8. CASE C!Install
  <2>1. /\ savedEnv \in C!Envs /\ script = "idle" /\ script' = "begin" /\ step = "idle"
        /\ copy' = [env |-> [savedEnv EXCEPT !.plain = None], secret |-> C!Effective.secret]
        /\ UNCHANGED <<savedEnv, secret, key, step, form, wanted, unsure, beside>>
    BY <1>8 DEF C!Install, C!TypeOK
  <2>2. /\ copy'.env.plain = None
        /\ copy'.env.client = savedEnv.client
        /\ copy'.env.dast = savedEnv.dast
    BY <2>1, Effects
  <2>3. savedEnv.plain = None => copy'.secret = secret
    BY <2>1 DEF C!Effective
  <2> QED
    BY <2>1, <2>2, <2>3 DEF KeptInv
<1>9. CASE C!SealBegins
  BY <1>9 DEF KeptInv, C!SealBegins, C!Script
<1>10. CASE C!SealEnds
  BY <1>10 DEF KeptInv, C!SealEnds, C!Script
<1>11. CASE C!EnvBegins
  BY <1>11 DEF KeptInv, C!EnvBegins, C!Script
<1>12. CASE C!EnvEnds
  <2>1. copy.env \in C!Envs
    BY <1>12 DEF C!EnvEnds, C!TypeOK
  <2> QED
    BY <1>12, <2>1 DEF KeptInv, C!EnvEnds
<1>13. CASE C!ScriptDies
  BY <1>13 DEF KeptInv, C!ScriptDies
<1>14. CASE UNCHANGED C!vars
  BY <1>14 DEF KeptInv, C!vars
<1> QED
  BY <1>1, <1>2, <1>3, <1>4, <1>5, <1>6, <1>7, <1>8, <1>9, <1>10, <1>11, <1>12, <1>13, <1>14
  DEF C!Next

\* At rest what is in no doubt is what was asked for.
LEMMA KeptProperties ==
    ASSUME C!ConstantsAssumption, SaveInv, KeptInv
    PROVE  C!KeptAsAsked
<1> SUFFICES ASSUME step = "idle", script = "idle", NEW f \in C!Fields \ unsure
             PROVE  C!Effective[f] = wanted[f]
  BY DEF C!KeptAsAsked
<1>1. CASE f = "client"
  BY <1>1 DEF KeptInv, ClientInv, C!Effective
<1>2. CASE f = "secret"
  BY <1>2 DEF KeptInv, SecretInv, C!Effective
<1>3. CASE f = "key"
  <2>1. savedEnv # Torn /\ wanted.key = IF savedEnv.dast THEN "key" ELSE None
    BY <1>3 DEF KeptInv, KeyInv
  <2>2. savedEnv.dast => savedEnv.keyFile /\ key = "key"
    BY <1>3, <2>1 DEF KeptInv, KeyInv, SaveInv, C!TypeOK, C!EnvNamesFiles
  <2> QED
    BY <1>3, <2>1, <2>2 DEF C!Effective
<1> QED
  BY <1>1, <1>2, <1>3 DEF C!Fields

\* Whatever fails or dies half way.
LEMMA SaveHolds ==
    C!Spec => []SaveInv
<1>1. C!Init => SaveInv
  BY SaveInit, FilesAssumption
<1>2. SaveInv /\ [C!Next]_(C!vars) => SaveInv'
  BY SaveStep, FilesAssumption
<1> QED
  BY <1>1, <1>2, PTL DEF C!Spec

\* And what saves were asked for stays.
LEMMA KeptHolds ==
    C!Spec => []C!KeptAsAsked
<1>1. C!Init => KeptInv
  BY KeptInit, FilesAssumption
<1>2. SaveInv /\ KeptInv /\ [C!Next]_(C!vars) => KeptInv'
  BY KeptStep, FilesAssumption
<1>3. SaveInv /\ KeptInv => C!KeptAsAsked
  BY KeptProperties, FilesAssumption
<1> QED
  BY <1>1, <1>2, <1>3, SaveHolds, PTL DEF C!Spec

-----------------------------------------------------------------------------
(* The stories of MCConfiguration.                                         *)

\* A step of one story is a step or a stutter of each model.
LEMMA StoryStep ==
    ASSUME [MCNext]_<<story, vars, saveVars>>
    PROVE  /\ [Next]_vars
           /\ [C!Next]_(C!vars)
           /\ story = "switch" => [Switch]_vars
           /\ story = "edits" => [Edits]_vars
           /\ story = "save" => UNCHANGED vars
           /\ story' = story
<1>1. saveVars' = saveVars => UNCHANGED C!vars
  BY DEF saveVars, C!vars, C!files, C!manager, C!ps1, C!history
<1>2. (Switch => Next) /\ (Edits => Next)
  BY DEF Switch, Edits, Next, Manage
<1> QED
  BY <1>1, <1>2 DEF MCNext

\* Whatever is told, each model's part of it is one of its behaviours.
LEMMA StorySpecs == MCSpec => Spec /\ C!Spec
<1>1. MCInit => Init /\ C!Init
  BY DEF MCInit
<1> QED
  BY <1>1, StoryStep, PTL DEF MCSpec, Spec, C!Spec

\* The types of both: rows and bindings are only in files that were created, and a
\* secret is half written only while a writer is at it or after one was cut short
\* (config_store.py, install-service.ps1, outbox.py).
THEOREM AllTypesHold == MCSpec => []AllTypesOK
<1>1. SaveInv => C!TypeOK
  BY DEF SaveInv
<1> QED
  BY <1>1, TypeCorrect, SaveHolds, StorySpecs, PTL DEF AllTypesOK

\* On an installation that began with DEV, and through the Manager only, the profile
\* in .env can be opened after every step (manager.py 813-945, outbox.py 52-90).
THEOREM SwitchOpensHolds == MCSpec => []SwitchOpens
<1> DEFINE Inv == story = "switch" => DisjointInv
<1>1. MCInit => Inv
  BY DisjointInit DEF MCInit
<1>2. Inv /\ [MCNext]_<<story, vars, saveVars>> => Inv'
  BY DisjointStep, StoryStep
<1>3. Inv => SwitchOpens
  BY DisjointProperties DEF SwitchOpens
<1> QED
  BY <1>1, <1>2, <1>3, PTL DEF MCSpec

\* The service alone works while .env is edited.
EditsInv ==
    /\ BindingInv
    /\ \A w \in Workers : IF w = "service" THEN WorkerInv(w) ELSE pc[w] = "off"

\* The service alone, with .env edited by hand, is a worker that is the only one.
LEMMA EditsStep ==
    ASSUME TypeOK, EditsInv, [Edits]_vars
    PROVE  EditsInv'
<1> USE DEF disk, work
<1>1. \A w \in Workers \ {"service"} : pc'[w] = pc[w]
  <2>1. CASE StartService
    BY <2>1 DEF StartService, GoTo, TypeOK
  <2>2. CASE Work("service") /\ "service" \in Workers
    BY <2>2 DEF Work, Load, Read, CheckLegacy, Bind, Put, Deliver, Stop, Exit, GoTo, TypeOK
  <2>3. CASE InstallService
    BY <2>3 DEF InstallService, TypeOK
  <2>4. CASE SaveProfile \/ Reload \/ HandEdit \/ UNCHANGED vars
    BY <2>4 DEF SaveProfile, Reload, HandEdit, vars
  <2> QED
    BY <2>1, <2>2, <2>3, <2>4 DEF Edits
<1>2. CASE "service" \in Workers
  <2>1. Others("service") /\ Others("service")' /\ WorkerInv("service")
    BY <1>1, <1>2 DEF EditsInv, Others
  <2>2. [Next]_vars
    BY DEF Edits, Next, Manage
  <2>3. BindingInv' /\ WorkerInv("service")'
    BY <1>2, <2>1, <2>2, BindingStep DEF EditsInv
  <2> QED
    BY <2>1, <2>3 DEF EditsInv, Others
<1>3. CASE "service" \notin Workers
  <2>1. UNCHANGED <<meta, rows>>
    BY <1>3 DEF Edits, StartService, InstallService, SaveProfile, Reload, HandEdit, vars
  <2> QED
    BY <1>1, <1>3, <2>1 DEF EditsInv, BindingInv
<1> QED
  BY <1>2, <1>3

\* With any workers through the Manager, and with the service whatever an
\* administrator writes into .env: no worker runs on rows of another RADAR or on a file
\* not bound to its own, if what an old agent.db holds is DEV's (_bind_profile).
THEOREM DeliveredAtHome ==
    ASSUME LegacyRows \subseteq {Dev}
    PROVE  MCSpec => []RowsAtHome /\ []BoundOrRefused
<1> DEFINE Inv ==
      /\ story \in Stories
      /\ story = "switch" => DisjointInv
      /\ story = "edits" => EditsInv
      /\ story = "save" => \A w \in Workers : pc[w] = "off"
<1>1. MCInit => Inv
  BY DisjointInit, BindingInit DEF MCInit, EditsInv
<1>2. TypeOK /\ Inv /\ [MCNext]_<<story, vars, saveVars>> => Inv'
  <2> SUFFICES ASSUME TypeOK, Inv, [MCNext]_<<story, vars, saveVars>> PROVE Inv'
    OBVIOUS
  <2>1. story = "switch" => DisjointInv'
    BY DisjointStep, StoryStep
  <2>2. story = "edits" => EditsInv'
    BY EditsStep, StoryStep
  <2>3. story = "save" => pc' = pc
    BY StoryStep DEF vars, work
  <2> QED
    BY <2>1, <2>2, <2>3, StoryStep
<1>3. TypeOK /\ Inv => RowsAtHome /\ BoundOrRefused
  <2> SUFFICES ASSUME TypeOK, Inv PROVE RowsAtHome /\ BoundOrRefused
    OBVIOUS
  <2>1. CASE story = "switch"
    BY <2>1, DisjointProperties
  <2>2. CASE story = "edits"
    BY <2>2, BindingProperties DEF EditsInv, RowsAtHome, BoundOrRefused
  <2>3. CASE story = "save"
    BY <2>3 DEF RowsAtHome, BoundOrRefused
  <2> QED
    BY <2>1, <2>2, <2>3 DEF Stories
<1> QED
  BY <1>1, <1>2, <1>3, TypeCorrect, StorySpecs, PTL DEF MCSpec

\* However saves and installations fail or die between two writes, and even when they
\* overlap, .env never names a secret or a key that is not there
\* (config_store.py 90-145, install-service.ps1 97-153).
THEOREM EnvNamesFilesHolds == MCSpec => []EnvNamesFiles
<1>1. SaveInv => EnvNamesFiles
  BY DEF SaveInv, EnvNamesFiles
<1> QED
  BY <1>1, SaveHolds, StorySpecs, PTL

\* With no writer at work the client, its secret and the key are those that saves which
\* succeeded were asked for, but for a field that a writer failed or died with, or two
\* wrote side by side, and that no save has been asked for since (config_store.py 90-145).
THEOREM KeptAsAskedHolds == MCSpec => []KeptAsAsked
<1>1. C!KeptAsAsked => KeptAsAsked
  BY DEF KeptAsAsked
<1> QED
  BY <1>1, KeptHolds, StorySpecs, PTL
===============================================================================
