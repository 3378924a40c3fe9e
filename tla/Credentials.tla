------------------------------ MODULE Credentials ------------------------------
(***************************************************************************)
(* The API keys of a workspace, in its one settings record beside webhooks *)
(* and retention, and a service account with its keys (app/main.py).       *)
(*                                                                         *)
(* A settings payload is modelled by the set of changes it contains: each  *)
(* change is made once, and counters of use are left out.  Endpoints that  *)
(* change settings hold SETTINGS_WRITE_LOCK, a lock of the process; reads, *)
(* the first seeding of the record and the recording of a key's use do not.*)
(*                                                                         *)
(* A definition marked "Faulty variant" belongs to no specification.       *)
(***************************************************************************)
EXTENDS FiniteSets, Server

CONSTANTS
  ApiKeys,       \* API keys, by id
  AccountKeys    \* keys of the service account

VARIABLES
  settings,      \* settings "current", None before the first request
  settingsLock,  \* SETTINGS_WRITE_LOCK: its holder or None
  account,       \* service_accounts: the account, None before it is created
  lapsed,        \* account keys whose expiresAt has passed
  credCall,      \* per thread: the request it serves
  answered,      \* history variable: settings changes stored by a locked writer
  unlocked,      \* history variable: a save without the lock undid a change
  retired,       \* history variable: the account's revocation has been stored
  reissued       \* history variable: a save of the account undid another one

credVars == <<settings, settingsLock, account, lapsed, credCall, answered, unlocked, retired, reissued>>

-----------------------------------------------------------------------------
Create(k) == <<"create", k>>
Revoke(k) == <<"revoke", k>>
SettingsChange == {Create(k) : k \in ApiKeys} \cup {Revoke(k) : k \in ApiKeys}
                    \cup {<<"webhook", None>>, <<"retention", None>>}

\* Requests that save settings without the lock, or only read them.
KeyUse == {<<"use", k>> : k \in ApiKeys}
Look == <<"look", None>>
AccountRequest == {"create", "rotate", "revoke", "use"}

Account == [active : BOOLEAN, keys : SUBSET AccountKeys]

\* An account is created with a key; a missing record is none of the others.
ASSUME CredentialsAssumption ==
  /\ AccountKeys # {}
  /\ \A s \in SUBSET SettingsChange : s # None
  /\ \A a \in Account : a # None

NoCredCall == [at |-> "idle", what |-> Look, read |-> None]

\* api_key["status"] # "revoked" for a key the payload holds.
Usable(payload, k) == Create(k) \in payload /\ Revoke(k) \notin payload

CredInit ==
  /\ settings \in {None, {}}
  /\ settingsLock = None
  /\ account = None
  /\ lapsed = {}
  /\ credCall = [t \in Threads |-> NoCredCall]
  /\ answered = {}
  /\ unlocked = FALSE
  /\ retired = FALSE
  /\ reissued = FALSE

CredDone(t) == credCall' = [credCall EXCEPT ![t] = NoCredCall]
AccountUnchanged == UNCHANGED <<account, lapsed, retired, reissued>>
SettingsUnchanged == UNCHANGED <<settings, settingsLock, answered, unlocked>>

-----------------------------------------------------------------------------
\* Faulty variant: a writer does not take the lock.
TakesNoLock(c) == FALSE

Locks(c) == c \in SettingsChange

\* settings_payload_or_404: a request reads the settings.  Ids are random, so
\* one request creates a key.
OpenSettings(t, c) ==
  /\ credCall[t].at = "idle"
  /\ c \notin answered
  /\ \A u \in Threads : credCall[u].what # c \/ c \notin SettingsChange
  /\ Locks(c) => settingsLock = None
  /\ settingsLock' = IF Locks(c) THEN t ELSE settingsLock
  /\ credCall' = [credCall EXCEPT ![t] =
       [at |-> IF settings = None THEN "seed" ELSE "save", what |-> c, read |-> settings]]
  /\ UNCHANGED <<settings, answered, unlocked>>
  /\ AccountUnchanged

\* A missing record is filled with the defaults, with or without the lock.
SeedSettings(t) ==
  /\ credCall[t].at = "seed"
  /\ settings' = {}
  /\ unlocked' = (unlocked \/ (settings # None /\ settings # {}))
  /\ credCall' = [credCall EXCEPT ![t].at = "save", ![t].read = {}]
  /\ UNCHANGED <<settingsLock, answered>>
  /\ AccountUnchanged

\* create_api_key, revoke_api_key, create_webhook, update_retention: the
\* payload with the change, saved under the lock.
SaveChange(t) ==
  LET c == credCall[t].what IN
  /\ credCall[t].at = "save" /\ c \in SettingsChange
  /\ IF \A k \in ApiKeys : c = Revoke(k) => Create(k) \in credCall[t].read
       THEN /\ settings' = credCall[t].read \cup {c}
            /\ answered' = answered \cup {c}
       ELSE UNCHANGED <<settings, answered>>
  /\ settingsLock' = IF settingsLock = t THEN None ELSE settingsLock
  /\ CredDone(t)
  /\ UNCHANGED unlocked
  /\ AccountUnchanged

\* record_api_key_use: an authenticated request saves the payload it read.
RecordKeyUse(t) ==
  /\ credCall[t].at = "save" /\ credCall[t].what \in KeyUse
  /\ IF Usable(credCall[t].read, credCall[t].what[2])
       THEN /\ settings' = credCall[t].read
            /\ unlocked' = (unlocked \/ Stale(settings, credCall[t].read))
       ELSE UNCHANGED <<settings, unlocked>>
  /\ CredDone(t)
  /\ UNCHANGED <<settingsLock, answered>>
  /\ AccountUnchanged

\* GET /api/settings.
ReadSettings(t) ==
  /\ credCall[t].at = "save" /\ credCall[t].what = Look
  /\ CredDone(t)
  /\ SettingsUnchanged
  /\ AccountUnchanged

-----------------------------------------------------------------------------
\* service_account_or_404, and the scan of authenticate_service_account.
OpenAccount(t, r) ==
  /\ credCall[t].at = "idle"
  /\ IF r = "create" THEN account = None /\ \A u \in Threads : credCall[u].what # <<"account", r>>
                     ELSE account # None
  /\ r \in {"rotate", "use"} => account.active
  /\ r = "use" => account.keys \ lapsed # {}
  /\ credCall' = [credCall EXCEPT ![t] = [at |-> "save", what |-> <<"account", r>>, read |-> account]]
  /\ SettingsUnchanged
  /\ AccountUnchanged

\* create, rotate (which adds a key and keeps the old ones), revoke, and the
\* recording of a use: each saves the account it read.
SaveAccount(t, r) ==
  LET read == credCall[t].read
      fresh == CHOOSE k \in AccountKeys : account = None \/ k \notin account.keys \cup read.keys
  IN
  /\ credCall[t].at = "save" /\ credCall[t].what = <<"account", r>>
  /\ r = "rotate" => account.keys \cup read.keys # AccountKeys   \* a bound
  /\ account' = CASE r = "create" -> [active |-> TRUE, keys |-> {fresh}]
                  [] r = "rotate" -> [read EXCEPT !.keys = @ \cup {fresh}]
                  [] r = "revoke" -> [active |-> FALSE, keys |-> {}]
                  [] r = "use" -> read
  /\ retired' = (retired \/ r = "revoke")
  /\ reissued' = (reissued \/ Stale(account, read))
  /\ CredDone(t)
  /\ UNCHANGED lapsed
  /\ SettingsUnchanged

\* A key's expiresAt passes.
LapseKey(k) ==
  /\ k \notin lapsed
  /\ account # None /\ k \in account.keys
  /\ lapsed' = lapsed \cup {k}
  /\ UNCHANGED <<account, retired, reissued, credCall>>
  /\ SettingsUnchanged

SettingsNext ==
  \E t \in Threads :
    \/ \E c \in SettingsChange \cup KeyUse \cup {Look} : OpenSettings(t, c)
    \/ SeedSettings(t) \/ SaveChange(t) \/ RecordKeyUse(t) \/ ReadSettings(t)

AccountNext ==
  \/ \E t \in Threads, r \in AccountRequest : OpenAccount(t, r) \/ SaveAccount(t, r)
  \/ \E k \in AccountKeys : LapseKey(k)

CredNext == SettingsNext \/ AccountNext

CredSpec == CredInit /\ [][CredNext]_credVars

-----------------------------------------------------------------------------
CredTypeOK ==
  /\ settings = None \/ settings \subseteq SettingsChange
  /\ settingsLock \in Threads \cup {None}
  /\ account = None \/ account \in Account
  /\ lapsed \subseteq AccountKeys
  /\ \A t \in Threads : credCall[t].at \in {"idle", "seed", "save"}
  /\ answered \subseteq SettingsChange
  /\ {unlocked, retired, reissued} \subseteq BOOLEAN

(* A change of the settings that was answered stays, revocations above all, *)
(* and a revoked account stays revoked, unless a save without the lock went *)
(* over it: record_api_key_use, the seeding, or a save of the account.      *)
AnsweredChangesStand ==
  /\ unlocked \/ answered = {} \/ (settings # None /\ answered \subseteq settings)
  /\ reissued \/ ~retired \/ ~account.active
=============================================================================
