------------------------------ MODULE ConfigSave ------------------------------
(***************************************************************************)
(* One configuration in three files: .env names the client and the files,  *)
(* client-secret.dpapi holds the client's secret and                       *)
(* dast-engine-api-key.dpapi the key of the DAST engine.  The Manager      *)
(* writes them one after the other (save_settings, config_store.py), the   *)
(* installation script writes .env and the secret again from a copy        *)
(* (install-service.ps1), and either may fail or die between two writes.   *)
(*                                                                         *)
(* The last four variables are history: what the operator typed into saves *)
(* that succeeded, whatever the files hold, and what may be in doubt.      *)
(***************************************************************************)
CONSTANTS
    Clients, Secrets,
    None,       \* a file that is not there, a field left blank, no save or script
    Torn,       \* a file whose write did not end
    Plaintext   \* whether .env may hold the secret itself, written by hand

VARIABLES
    env,     \* .env
    secret,  \* client-secret.dpapi
    key,     \* dast-engine-api-key.dpapi
    conf,    \* the Manager's _settings
    pc,      \* how far save_configuration is
    form,    \* what it saves: the arguments of the call
    script,  \* how far the script is
    copy,    \* what the script writes
    wanted,  \* what saves that succeeded were asked for, field by field the last one
    unsure,  \* the fields a writer has failed with, or both wrote, since they were asked for
    beside,  \* whether the save began while the script ran
    cut      \* whether a writer ever died, or failed in the middle of a write

files   == <<env, secret, key>>
manager == <<conf, pc, form>>
ps1     == <<script, copy>>
history == <<wanted, unsure, beside, cut>>
vars    == <<files, manager, ps1, history>>

Fields == {"client", "secret", "key"}

\* keyFile: whether .env names the file of the key.
Envs  == [client: Clients, plain: Secrets \cup {None}, dast: BOOLEAN, keyFile: BOOLEAN]
Forms == [client: Clients, secret: Secrets \cup {None}, dast: BOOLEAN, key: {"key", None}]

\* What the constants are; the instance that is checked assumes it.
ConstantsAssumption ==
    /\ {None, Torn} \cap (Secrets \cup {"key"}) = {}
    /\ None # Torn
    /\ Torn \notin Envs
    /\ Plaintext \in BOOLEAN

\* resolved_client_secret and resolved_dast_engine_api_key.
Effective ==
    [client |-> env.client,
     secret |-> IF env.plain # None THEN env.plain ELSE secret,
     key    |-> IF ~env.dast THEN None ELSE IF env.keyFile THEN key ELSE None]

Wants == [client: Clients, secret: Secrets, key: {"key", None}]

\* A secret file is only half written while a writer is at it or after one was cut short.
TypeOK ==
    /\ env \in Envs \cup {Torn}
    /\ secret \in Secrets \cup {None, Torn}
    /\ key \in {"key", None, Torn}
    /\ conf \in Envs
    /\ pc \in {"idle", "secret", "acl", "key", "keyWrite", "env"}
    /\ IF pc = "idle" THEN form = None ELSE form \in Forms
    /\ script \in {"idle", "begin", "secret", "sealed", "env"}
    /\ IF script = "idle" THEN copy = None ELSE copy \in [env: Envs, secret: Secrets]
    /\ wanted \in Wants
    /\ unsure \in SUBSET Fields
    /\ beside \in BOOLEAN
    /\ cut \in BOOLEAN
    /\ secret = Torn => pc = "secret" \/ script = "secret" \/ cut
    /\ key = Torn => pc = "keyWrite" \/ cut

\* A configuration that works; one written by hand may lie beside an old secret, and
\* its own is not in the form.
Init ==
    /\ env \in {e \in Envs : e.keyFile = e.dast}
    /\ secret \in Secrets \cup {None}
    /\ IF env.plain = None THEN secret # None ELSE Plaintext
    /\ key = IF env.dast THEN "key" ELSE None
    /\ conf = env
    /\ pc = "idle"
    /\ form = None
    /\ script = "idle"
    /\ copy = None
    /\ wanted = Effective
    /\ unsure = IF env.plain # None THEN {"secret"} ELSE {}
    /\ beside = FALSE
    /\ cut = FALSE

-----------------------------------------------------------------------------
(* save_configuration and save_settings.                                   *)

\* Press of Save.  A secret in clear in .env is not in the form.  One that fails before
\* its first write (the form does not validate, DPAPI has an error) changes nothing.
SaveStarts ==
    /\ pc = "idle"
    /\ form' \in Forms
    /\ pc' = "secret"
    /\ secret' = IF form'.secret # None THEN Torn ELSE secret
    /\ beside' = (script # "idle")
    /\ unsure' = IF script # "idle" THEN Fields ELSE unsure
    /\ UNCHANGED <<env, key, conf, ps1, wanted, cut>>

\* The secrets a save has written, or begun to write.
Touched ==
    (IF form.secret # None THEN {"secret"} ELSE {})
      \cup (IF form.dast /\ pc \in {"keyWrite", "env"} THEN {"key"} ELSE {})

\* The save is over without an end; what was written stays.
GivenUp ==
    /\ pc' = "idle"
    /\ form' = None
    /\ unsure' = unsure \cup Touched
    /\ beside' = FALSE
    /\ UNCHANGED <<ps1, wanted>>

\* An error message.
Fail == GivenUp /\ UNCHANGED <<conf, cut>>

\* OSError of write_bytes, for a full disk: the file stays as far as it was written.
WriteFails == GivenUp /\ cut' = TRUE /\ UNCHANGED <<conf, files>>

Go(step) ==
    /\ pc' = step
    /\ UNCHANGED <<conf, form, ps1, history>>

\* Mutant: the file is opened before DPAPI has answered, with an error.
SecretWritten_OpenFirst ==
    /\ pc = "secret"
    /\ form.secret # None
    /\ Fail
    /\ UNCHANGED files

\* protect_secret writes the bytes in place; with no new secret there must be a
\* file already.
SecretWritten ==
    /\ pc = "secret"
    /\ \/ form.secret # None /\ secret' = form.secret /\ Go("acl")
       \/ form.secret # None /\ WriteFails
       \/ form.secret = None /\ secret # None /\ Go("key") /\ UNCHANGED secret
       \/ form.secret = None /\ secret = None /\ Fail /\ UNCHANGED secret
    /\ UNCHANGED <<env, key>>

\* _secure_machine_secret: icacls may fail, and the secret is already replaced.
Acl ==
    /\ pc = "acl"
    /\ Go("key") \/ Fail
    /\ UNCHANGED files

\* Mutant: no look at the file of the key.
KeyThere_Assumed == TRUE

KeyThere == key # None

\* A new key, or the one the settings name, read and written again.
Key ==
    /\ pc = "key"
    /\ IF form.key = None /\ form.dast /\ conf.keyFile /\ key = Torn
       THEN Fail /\ UNCHANGED key
       ELSE IF form.dast /\ (form.key # None \/ (conf.keyFile /\ key # None))
       THEN Go("keyWrite") /\ key' = Torn
       ELSE IF form.dast /\ ~KeyThere
       THEN Fail /\ UNCHANGED key
       ELSE Go("env") /\ UNCHANGED key
    /\ UNCHANGED <<env, secret>>

KeyWritten ==
    /\ pc = "keyWrite"
    /\ \/ key' = "key" /\ (Go("env") \/ Fail)
       \/ WriteFails
    /\ UNCHANGED <<env, secret>>

\* Mutant: the settings saved still name no file for the key.
Saved_NoKeyFile ==
    [client |-> form.client, plain |-> None, dast |-> form.dast, keyFile |-> conf.keyFile]

Saved ==
    [client |-> form.client, plain |-> None, dast |-> form.dast,
     keyFile |-> form.dast \/ conf.keyFile]

\* What the form asks for: a blank secret is the one asked for before, and with DAST
\* there is to be a key.
Asked ==
    [client |-> form.client,
     secret |-> IF form.secret # None THEN form.secret ELSE wanted.secret,
     key    |-> IF form.dast THEN "key" ELSE None]

\* What the operator typed, all of which this save has written.
Typed == {f \in Fields : CASE f = "client" -> TRUE
                           [] f = "secret" -> form.secret # None
                           [] f = "key"    -> form.dast /\ form.key # None}

\* os.replace of the temporary file is atomic.
Replaced ==
    /\ pc = "env"
    /\ pc' = "idle"
    /\ env' = Saved
    /\ conf' = env'
    /\ wanted' = Asked
    /\ unsure' = IF beside THEN Fields ELSE unsure \ Typed
    /\ form' = None
    /\ beside' = FALSE
    /\ UNCHANGED <<secret, key, ps1, cut>>

Replace ==
    \/ Replaced
    \/ pc = "env" /\ Fail /\ UNCHANGED files

\* load_settings; of a torn .env anything may be read, or the defaults.
Load == conf' \in IF env = Torn THEN {e \in Envs : e.plain = None} ELSE {env}

\* The Manager dies and is started again.
ManagerDies ==
    /\ pc # "idle"
    /\ GivenUp
    /\ Load
    /\ cut' = TRUE
    /\ UNCHANGED files

-----------------------------------------------------------------------------
(* install_or_upgrade_service saves first, then the script has a copy.     *)

Install ==
    /\ pc = "idle"
    /\ script = "idle"
    /\ env # Torn
    /\ Effective.secret \in Secrets
    /\ copy' = [env |-> [env EXCEPT !.plain = None], secret |-> Effective.secret]
    /\ script' = "begin"
    /\ UNCHANGED <<files, manager, history>>

Script(from, to) ==
    /\ script = from
    /\ script' = to
    /\ UNCHANGED <<key, manager, copy, history>>

SealBegins == Script("begin", "secret") /\ secret' = Torn /\ UNCHANGED env
SealEnds   == Script("secret", "sealed") /\ secret' = copy.secret /\ UNCHANGED env
EnvBegins  == Script("sealed", "env") /\ env' = Torn /\ UNCHANGED secret

\* WriteAllLines ends, and the Manager reloads (_operation_finished).
EnvEnds ==
    /\ script = "env"
    /\ script' = "idle"
    /\ env' = copy.env
    /\ conf' = env'
    /\ copy' = None
    /\ UNCHANGED <<secret, key, pc, form, history>>

\* The Manager reloads after an operation that failed, too.
ScriptDies ==
    /\ script # "idle"
    /\ script' = "idle"
    /\ Load
    /\ unsure' = Fields
    /\ cut' = TRUE
    /\ copy' = None
    /\ UNCHANGED <<files, pc, form, wanted, beside>>

Next ==
    \/ SaveStarts \/ SecretWritten \/ Acl \/ Key \/ KeyWritten \/ Replace \/ ManagerDies
    \/ Install \/ SealBegins \/ SealEnds \/ EnvBegins \/ EnvEnds \/ ScriptDies

Spec == Init /\ [][Next]_vars

-----------------------------------------------------------------------------
(* Properties.                                                             *)

\* With no writer at work the client, its secret and the key are those that saves which
\* succeeded were asked for: a save that fails leaves the client alone, and the secrets
\* it did not come to, and what it did leave in doubt is certain again when the next
\* save in which it is typed succeeds; so is a field that a save and a script wrote
\* side by side, or a secret that stood in .env (config_store.py 90-145).
KeptAsAsked ==
    pc = "idle" /\ script = "idle" => \A f \in Fields \ unsure : Effective[f] = wanted[f]

\* After a save with a blank field the secret is that of the last save that succeeded
\* (docs/installation.md 55: leaving Client secret blank keeps the existing secret).
BlankKeeps ==
    [][Replaced /\ form.secret = None => Effective'.secret = wanted.secret]_vars

\* Whatever fails or dies between two writes, .env never names a secret or a
\* key that is not there: the secrets are written before it.
EnvNamesFiles ==
    env # Torn =>
      /\ env.plain = None => secret # None
      /\ env.dast => env.keyFile /\ key # None
=============================================================================
