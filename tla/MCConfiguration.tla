--------------------------- MODULE MCConfiguration ---------------------------
(***************************************************************************)
(* An instance for TLC of the two models of a saved configuration: which   *)
(* outbox belongs to which profile (ProfileOutbox), and its three files    *)
(* (ConfigSave).  A behaviour is one of either model; the variables of the *)
(* other stay as they begin.                                               *)
(***************************************************************************)
EXTENDS ProfileOutbox

CONSTANTS Clients, Secrets, None, Torn, Plaintext

VARIABLES
    story,
    savedEnv, secret, key, savedConf, step, form, script, copy, wanted, unsure, beside,
    cut

C == INSTANCE ConfigSave WITH env <- savedEnv, conf <- savedConf, pc <- step

ASSUME FilesAssumption == C!ConstantsAssumption

saveVars ==
    <<savedEnv, secret, key, savedConf, step, form, script, copy, wanted, unsure, beside,
      cut>>

\* switch: any workers, on an installation that began with DEV, through the Manager
\*         only (ManagerOnly of the proofs);
\* edits:  one worker, on any installation, with .env edited by hand (OneWorker) among
\*         the two presets and their files: a bound;
\* save:   the files of one configuration.
Stories == {"switch", "edits", "save"}

SaveRests ==
    /\ savedEnv = [client |-> CHOOSE c \in Clients : TRUE, plain |-> None,
                   dast |-> FALSE, keyFile |-> FALSE]
    /\ secret = CHOOSE s \in Secrets : TRUE

MCInit ==
    /\ story \in Stories
    /\ Init
    /\ C!Init
    /\ story = "switch" => env.origin = Dev
    /\ story = "save" => InitNew
    /\ story # "save" => SaveRests

Switch ==
    \/ StartService
    \/ \E w \in Workers : Work(w)
    \/ SaveProfile \/ RunDirectly \/ InstallService \/ Reload

Edits ==
    /\ \/ StartService \/ ("service" \in Workers /\ Work("service"))
       \/ SaveProfile \/ InstallService \/ Reload \/ HandEdit
    /\ env'.origin \in {Dev, Uat}
    /\ env'.file.key # "custom"

MCNext ==
    /\ UNCHANGED story
    /\ \/ story = "switch" /\ Switch /\ UNCHANGED saveVars
       \/ story = "edits" /\ Edits /\ UNCHANGED saveVars
       \/ story = "save" /\ C!Next /\ UNCHANGED vars

MCSpec == MCInit /\ [][MCNext]_<<story, vars, saveVars>>

\* However the profiles are switched, installed and run through the Manager, the
\* profile in .env can be opened (manager.py 813-945, outbox.py 52-90).
SwitchOpens == story = "switch" => EnvOpens

\* The types of both: rows and bindings are only in files that were created, and a
\* secret is half written only while a writer is at it or after one was cut short.
AllTypesOK == TypeOK /\ C!TypeOK

\* With no writer at work the client, its secret and the key are those that saves which
\* succeeded were asked for.  Left out is a field that a writer failed or died with, or
\* that two wrote side by side, until a save in which it is typed succeeds: what then
\* shows is the subject of BlankKeeps (config_store.py 90-145).
KeptAsAsked == C!KeptAsAsked

\* Whatever fails or dies between two writes, .env never names a secret or a
\* key that is not there (config_store.py 90-145, install-service.ps1 97-153).
EnvNamesFiles == C!EnvNamesFiles
===============================================================================
