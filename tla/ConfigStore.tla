----------------------------- MODULE ConfigStore -----------------------------
(***************************************************************************)
(* The settings (app/config.py: config.json and the object in memory) and  *)
(* the key they are sealed with (app/secret_store.py: secret.key), over    *)
(* starts, saves by several threads, failing reads and writes, crashes.    *)
(*                                                                         *)
(* config.json maps fields to stored values; a stored value is plain (key  *)
(* 0) or sealed under the key of that number. A file that is truncated and *)
(* not yet written again does not parse: `torn`. Keys are numbered in the  *)
(* order they are made. Environment variables and .env are left out.       *)
(* A definition just before the one it varies is a wrong variant.          *)
(***************************************************************************)
EXTENDS Naturals, FiniteSets, TLC

CONSTANTS
    Savers,    \* threads that save: the settings page, a login (auth.py:179)
    Values,    \* non-empty values of a field
    Nothing,   \* the empty string
    MaxKeys    \* bound on the keys ever made

ASSUME ConfigAssumption ==
    /\ Nothing \notin Values /\ Savers \cap {"main", "nobody"} = {}
    /\ MaxKeys \in Nat

VARIABLES
    phase,     \* "down", the steps of a start "load", "migrate", "purge", "secret", and "up"
    file,      \* config.json: field -> stored value
    torn,      \* config.json does not parse
    key,       \* secret.key: its number, 0 without the file, TornKey if not 32 bytes
    cached,    \* _key_cache
    making,    \* _key has created the file and not written it
    keys,      \* number of the newest key
    mem,       \* settings: field -> value
    step,      \* of a thread: "idle", "search" (the directory), in a save "open", "write"
    data,      \* what it is to write
    named,     \* the fields it changes
    lock,      \* who holds _save_lock
    blind,     \* the threads whose save could not read config.json; "main": a step of the start
    failed     \* this process has failed to read or to write config.json

vars == <<phase, file, torn, key, cached, making, keys, mem, step, data, named, lock, blind, failed>>
errors == <<blind, failed>>
saving == <<step, data, named, lock>>
keyVars == <<key, cached, making, keys>>

\* ad_base_dn stands for the plain fields, smtp_password for SECRET_FIELDS.
EncFields == {"smtp_password", "session_secret"}
Fields == {"ad_base_dn"} \cup EncFields
Obsolete == {"default_ssh_password"}

TornKey == MaxKeys + 1
Threads == Savers \cup {"main"}
Plain(v) == [key |-> 0, val |-> v]

\* A file or a set of changes with one field; the changes over what was there; nothing.
One(field, v) == [f \in {field} |-> v]
Over(changes, old) == [f \in DOMAIN changes \cup DOMAIN old |->
                          IF f \in DOMAIN changes THEN changes[f] ELSE old[f]]
Empty == [f \in {} |-> Nothing]
Starting == {"load", "migrate", "purge", "secret"}

\* decrypt: a value sealed under another key counts as not set.
Decrypt(stored, k) == IF stored.key \in {0, k} THEN stored.val ELSE Nothing
Loaded(k) == [f \in Fields |-> IF f \in DOMAIN file THEN Decrypt(file[f], k) ELSE Nothing]

\* encrypt: what is empty or sealed stays as it is.
Encrypt(stored) == IF stored.val = Nothing \/ stored.key # 0 THEN stored
                   ELSE [stored EXCEPT !.key = cached]
Sealed(values) == [f \in DOMAIN values |-> IF f \in EncFields THEN Encrypt(values[f]) ELSE values[f]]

InClear(values) == {f \in DOMAIN values \cap EncFields :
                       values[f].key = 0 /\ values[f].val # Nothing}

-----------------------------------------------------------------------------
\* Files an earlier release, or whoever installs the program, may have left.
Legacy ==
    {Empty} \cup {[f \in {"smtp_password", "default_ssh_password"} |-> Plain(v)] : v \in Values}
            \cup {One("session_secret", Plain(v)) : v \in Values}

Init ==
    /\ phase = "down" /\ file \in Legacy /\ torn = FALSE
    /\ key = 0 /\ cached = 0 /\ making = FALSE /\ keys = 0
    /\ mem = [f \in Fields |-> Nothing]
    /\ step = [t \in Threads |-> "idle"] /\ data = [t \in Threads |-> Empty]
    /\ named = [t \in Threads |-> {}] /\ lock = "nobody"
    /\ blind = {} /\ failed = FALSE

\* The process begins; a file that does not parse ends it at once.
Start ==
    /\ phase = "down" /\ ~torn
    /\ phase' = "load"
    /\ UNCHANGED <<file, torn, keyVars, mem, saving, errors>>

\* The process ends, wherever it is; nothing in memory is left.
Die ==
    /\ phase' = "down" /\ cached' = 0 /\ making' = FALSE
    /\ mem' = [f \in Fields |-> Nothing]
    /\ step' = [t \in Threads |-> "idle"] /\ data' = [t \in Threads |-> Empty]
    /\ named' = [t \in Threads |-> {}] /\ lock' = "nobody"
    /\ blind' = {} /\ failed' = FALSE

Crash == phase # "down" /\ Die /\ UNCHANGED <<file, torn, key, keys>>

\* The operator puts a file back for one that is torn, and removes a key file that is torn or,
\* by mistake, one that is not.
Restore ==
    /\ phase = "down"
    /\ \/ torn /\ torn' = FALSE /\ file' \in Legacy /\ UNCHANGED key
       \/ key # 0 /\ key' = 0 /\ UNCHANGED <<file, torn>>
    /\ UNCHANGED <<phase, cached, making, keys, mem, saving, errors>>

-----------------------------------------------------------------------------
(* The key file (_key). It is asked for by the first sealed value to open  *)
(* and by the first value to seal: of the settings, or of a host's row.    *)

NeedsKey ==
    \/ phase = "load" /\ \E f \in DOMAIN file \cap EncFields : file[f].key # 0
    \/ phase = "migrate" /\ InClear(file) # {}
    \/ phase = "secret" /\ mem["session_secret"] = Nothing /\ step["main"] = "idle"
    \/ phase = "up"
NoKey == cached = 0 /\ key = TornKey /\ ~making
KeyReady == ~NeedsKey \/ cached # 0 \/ NoKey

ReadKey ==
    /\ NeedsKey /\ cached = 0 /\ key \notin {0, TornKey}
    /\ cached' = key
    /\ UNCHANGED <<phase, file, torn, key, making, keys, mem, saving, errors>>

\* O_CREAT | O_EXCL: for a moment the file is empty.
CreateKeyCachedFirst ==
    /\ NeedsKey /\ cached = 0 /\ key = 0 /\ keys < MaxKeys
    /\ key' = TornKey /\ making' = TRUE /\ cached' = keys + 1
    /\ UNCHANGED <<phase, file, torn, keys, mem, saving, errors>>
CreateKey ==
    /\ NeedsKey /\ cached = 0 /\ key = 0 /\ keys < MaxKeys
    /\ key' = TornKey /\ making' = TRUE
    /\ UNCHANGED <<phase, file, torn, cached, keys, mem, saving, errors>>

WriteKey ==
    /\ making
    /\ keys' = keys + 1 /\ key' = keys' /\ cached' = keys' /\ making' = FALSE
    /\ UNCHANGED <<phase, file, torn, mem, saving, errors>>

\* A value cannot be sealed without a key: RuntimeError, and the start has failed.
NoStart ==
    /\ phase \in {"migrate", "secret"} /\ NeedsKey /\ NoKey
    /\ Die /\ UNCHANGED <<file, torn, key, keys>>

-----------------------------------------------------------------------------
(* A save: under the lock, read the file, change it, open it for writing   *)
(* (which truncates it), write.                                            *)

\* The changes, and the fields that are removed, on what was read: the file, or nothing at all if
\* it cannot be read (_read_config_file takes an OSError for an empty file).
PrepareNoRead(t, seen, changes, removed) ==
    /\ lock = "nobody" /\ lock' = t
    /\ step' = [step EXCEPT ![t] = "open"]
    /\ named' = [named EXCEPT ![t] = DOMAIN changes \cup removed]
    /\ data' = [data EXCEPT ![t] = changes]
    /\ UNCHANGED <<phase, file, torn, keyVars, errors>>
Prepare(t, seen, changes, removed) ==
    /\ lock = "nobody" /\ lock' = t
    /\ step' = [step EXCEPT ![t] = "open"]
    /\ named' = [named EXCEPT ![t] = DOMAIN changes \cup removed]
    /\ data' = [data EXCEPT ![t] = [f \in (DOMAIN Over(changes, seen)) \ removed |->
                                       Over(changes, seen)[f]]]
    /\ blind' = IF seen = file THEN blind ELSE blind \cup {t}
    /\ failed' = (failed \/ seen # file)
    /\ UNCHANGED <<phase, file, torn, keyVars>>

\* save_settings: the memory changes before the file does.
SaveUnlocked(t, values) ==
    LET changes == Sealed([f \in DOMAIN values |-> Plain(values[f])])
    IN  /\ lock' = t
        /\ step' = [step EXCEPT ![t] = "open"]
        /\ named' = [named EXCEPT ![t] = DOMAIN changes]
        /\ data' = [data EXCEPT ![t] = Over(changes, file)]
        /\ mem' = Over(values, mem)
        /\ UNCHANGED <<phase, file, torn, keyVars, errors>>
SaveSettings(t, values) ==
    /\ \E seen \in {file, Empty} :
          Prepare(t, seen, Sealed([f \in DOMAIN values |-> Plain(values[f])]), {})
    /\ mem' = Over(values, mem)

Open(t) ==
    /\ step[t] = "open"
    /\ step' = [step EXCEPT ![t] = "write"]
    /\ torn' = TRUE /\ file' = Empty
    /\ UNCHANGED <<phase, keyVars, mem, data, named, lock, errors>>

Release(t) ==
    /\ step' = [step EXCEPT ![t] = "idle"] /\ lock' = "nobody"
    /\ data' = [data EXCEPT ![t] = Empty] /\ named' = [named EXCEPT ![t] = {}]
    /\ blind' = blind \ ({t} \cap Savers)

After(from) == CASE from = "migrate" -> "purge" [] from = "purge" -> "secret" [] OTHER -> "up"

Write(t) ==
    /\ step[t] = "write"
    /\ torn' = FALSE /\ file' = data[t]
    /\ Release(t)
    /\ phase' = IF t = "main" THEN After(phase) ELSE phase
    /\ UNCHANGED <<keyVars, mem, failed>>

\* The file cannot be opened, or written: the request fails, a start ends.
WriteFails(t) ==
    /\ step[t] \in {"open", "write"}
    /\ IF t = "main" THEN Die
       ELSE Release(t) /\ failed' = TRUE /\ UNCHANGED <<phase, cached, making, mem>>
    /\ UNCHANGED <<file, torn, key, keys>>

-----------------------------------------------------------------------------
(* The start *)

Load ==
    /\ phase = "load" /\ KeyReady
    /\ phase' = "migrate" /\ mem' = Loaded(cached)
    /\ UNCHANGED <<file, torn, keyVars, saving, errors>>

\* A step that finds nothing to do, and one that finds nothing because it cannot read the file.
Skip(from) ==
    /\ phase = from /\ phase' = After(from)
    /\ UNCHANGED <<file, torn, keyVars, mem, saving, errors>>
SkipUnread(from) ==
    /\ phase = from /\ phase' = After(from) /\ file # Empty
    /\ blind' = blind \cup {"main"} /\ failed' = TRUE
    /\ UNCHANGED <<file, torn, keyVars, mem, saving>>

\* migrate_plaintext_secrets
SecretFieldsInClear(values) == InClear(values) \ {"session_secret"}
MigrateSecretFields ==
    LET open == SecretFieldsInClear(file)
    IN  /\ phase = "migrate" /\ step["main"] = "idle"
        /\ \/ open = {} /\ Skip("migrate")
           \/ /\ open # {} /\ cached # 0 /\ UNCHANGED mem
              /\ Prepare("main", file, Sealed([f \in open |-> file[f]]), {})
Migrate ==
    LET open == InClear(file)
    IN  /\ phase = "migrate" /\ step["main"] = "idle"
        /\ \/ open = {} /\ Skip("migrate")
           \/ SkipUnread("migrate")
           \/ /\ open # {} /\ cached # 0 /\ UNCHANGED mem
              /\ Prepare("main", file, Sealed([f \in open |-> file[f]]), {})

\* purge_obsolete_fields
Purge ==
    /\ phase = "purge" /\ step["main"] = "idle"
    /\ \/ DOMAIN file \cap Obsolete = {} /\ Skip("purge")
       \/ SkipUnread("purge")
       \/ DOMAIN file \cap Obsolete # {} /\ Prepare("main", file, Empty, Obsolete) /\ UNCHANGED mem

EnsureSessionSecret ==
    /\ phase = "secret" /\ step["main"] = "idle"
    /\ IF mem["session_secret"] # Nothing THEN Skip("secret")
       ELSE cached # 0 /\ \E v \in Values : SaveSettings("main", One("session_secret", v))

-----------------------------------------------------------------------------
(* The running program *)

\* The settings page: its plain fields always, a secret only if one is given.
PageForm == {Over(One("ad_base_dn", dn), IF pw = Nothing THEN Empty ELSE One("smtp_password", pw)) :
                dn \in Values \cup {Nothing}, pw \in Values \cup {Nothing}}
SettingsSave(t) ==
    /\ phase = "up" /\ step[t] = "idle"
    /\ \E form \in PageForm : (DOMAIN form \cap EncFields # {} => cached # 0) /\ SaveSettings(t, form)

\* Without a key the secret cannot be sealed: the page fails when its values are in memory.
SealFails(t) ==
    /\ phase = "up" /\ step[t] = "idle" /\ lock = "nobody" /\ NoKey
    /\ \E form \in PageForm : DOMAIN form \cap EncFields # {} /\ mem' = Over(form, mem)
    /\ failed' = TRUE
    /\ UNCHANGED <<phase, file, torn, keyVars, saving, blind>>

\* authenticate_ad asks the directory for a base DN if there is none when it begins, and keeps
\* the one it finds, whatever the page has set meanwhile.
Search(t) ==
    /\ phase = "up" /\ step[t] = "idle" /\ mem["ad_base_dn"] = Nothing
    /\ step' = [step EXCEPT ![t] = "search"]
    /\ UNCHANGED <<phase, file, torn, keyVars, mem, data, named, lock, errors>>
KeepBaseDn(t) == step[t] = "search" /\ \E dn \in Values : SaveSettings(t, One("ad_base_dn", dn))
SearchFails(t) ==
    /\ step[t] = "search"
    /\ step' = [step EXCEPT ![t] = "idle"]
    /\ UNCHANGED <<phase, file, torn, keyVars, mem, data, named, lock, errors>>

Next ==
    \/ Start \/ Crash \/ Restore
    \/ ReadKey \/ CreateKey \/ WriteKey \/ NoStart
    \/ Load \/ Migrate \/ Purge \/ EnsureSessionSecret
    \/ \E t \in Savers : SettingsSave(t) \/ SealFails(t) \/ Search(t) \/ KeepBaseDn(t) \/ SearchFails(t)
    \/ \E t \in Threads : Open(t) \/ Write(t) \/ WriteFails(t)

Spec == Init /\ [][Next]_vars

-----------------------------------------------------------------------------
(* Properties *)

\* Between saves, the running program works with what a restart would read: no save lost the
\* change of another, no secret in the file is one the program cannot open. The exception is a
\* process that could not read or write config.json: the values it has need not be in the file.
MemoryIsFile ==
    phase = "up" /\ lock = "nobody" /\ ~failed => ~torn /\ mem = Loaded(cached) /\ cached = key

\* From the end of a start that could read it, config.json holds no secret in clear and no
\* credential of a removed function.
NothingInClear ==
    phase = "up" /\ "main" \notin blind => InClear(file) = {} /\ DOMAIN file \cap Obsolete = {}

\* Every secret in config.json is sealed under a key that was in full on disk before it, however
\* a start is interrupted: a crash never leaves secrets without a key.
SealedUnderWrittenKey ==
    \A f \in DOMAIN file : file[f].key <= keys

\* What a save that could read the file is about to write has every field it does not change as
\* the file has it (a file that does not parse counts as empty).
OthersKept ==
    \A t \in Threads : step[t] = "open" /\ ~torn /\ t \notin blind =>
        \A f \in (Fields \cup Obsolete) \ named[t] :
            /\ f \in DOMAIN data[t] <=> f \in DOMAIN file
            /\ f \in DOMAIN file => data[t][f] = file[f]

\* A save leaves in config.json what it does not change (config.py:169: it keeps the keys the file
\* has): no setting the program has is missing after it. The code does not keep this: a save that
\* cannot read the file, or finds it torn by a write that failed, writes its own fields only.
FileKeepsSettings ==
    [][\A t \in Threads : Write(t) => \A f \in Fields : mem[f] # Nothing => f \in DOMAIN file']_vars
=============================================================================
