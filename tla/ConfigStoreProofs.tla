-------------------------- MODULE ConfigStoreProofs --------------------------
(***************************************************************************)
(* Proofs about the settings, for any number of saving threads, any values *)
(* and keys, and crashes and failing reads and writes anywhere.            *)
(*                                                                         *)
(* What is written was prepared some steps before, so each promise about   *)
(* config.json is first one about what is to be written: Typed says so of  *)
(* the keys, Agreed of the fields a save does not change, Clean of secrets *)
(* in clear, Faithful of the memory.  In Faithful, the values in memory    *)
(* were opened with the key of that moment; that it may come later does no *)
(* harm, for then nothing was sealed.                                      *)
(***************************************************************************)
EXTENDS ConfigStore, TLAPS

AllFields == Fields \cup Obsolete
Stored == [key : Nat, val : Values \cup {Nothing}]
Saving(t) == step[t] \in {"open", "write"}

IsStore(s, newest) ==
    /\ DOMAIN s \subseteq AllFields
    /\ \A f \in DOMAIN s : s[f] \in Stored /\ s[f].key <= newest /\ (f \notin EncFields => s[f].key = 0)

Typed ==
    /\ phase \in Starting \cup {"down", "up"}
    /\ keys \in Nat /\ cached \in 0..keys /\ key \in 0..keys \cup {TornKey}
    /\ IsStore(file, keys)
    /\ mem \in [Fields -> Values \cup {Nothing}]
    /\ step \in [Threads -> {"idle", "search", "open", "write"}]
    /\ data = [t \in Threads |-> data[t]] /\ \A t \in Threads : IsStore(data[t], keys)
    /\ named = [t \in Threads |-> named[t]]
    /\ lock \in Threads \cup {"nobody"} /\ blind \subseteq Threads

\* Who saves holds the lock, and nobody else may change the file meanwhile.
Agreed ==
    /\ blind # {} => failed
    /\ \A t \in Threads : Saving(t) <=> lock = t
    /\ \A t \in Savers : step[t] # "idle" => phase = "up"
    /\ step["main"] # "idle" => phase \in {"migrate", "purge", "secret"}
    /\ \A t \in Threads : step[t] = "open" /\ t \notin blind =>
          \A f \in AllFields \ named[t] :
              /\ f \in DOMAIN data[t] <=> f \in DOMAIN file
              /\ f \in DOMAIN file => data[t][f] = file[f]

StartDone ==
    /\ phase \in {"purge", "secret"} /\ mem["session_secret"] # Nothing => cached # 0
    /\ phase = "up" => cached # 0
    /\ phase \in {"purge", "secret", "up"} => InClear(file) = {}
    /\ phase \in {"secret", "up"} => DOMAIN file \cap Obsolete = {}
    /\ \A t \in Threads : Saving(t) =>
          /\ InClear(data[t]) = {}
          /\ phase # "migrate" => DOMAIN data[t] \cap Obsolete = {}

\* The key is there before what has to be sealed is prepared, a secret that was loaded came
\* sealed or is in clear in the file, and each step of the start leaves behind what it is for,
\* unless one of them could not read the file.
Clean ==
    /\ phase = "migrate" /\ mem["session_secret"] # Nothing => cached # 0 \/ "session_secret" \in InClear(file)
    /\ phase \in {"migrate", "secret"} /\ step["main"] # "idle" => cached # 0
    /\ "main" \in blind \/ StartDone

\* What a start that reads the file s, with key k, has in memory.
Opens(s, k) == [f \in Fields |-> IF f \in DOMAIN s THEN Decrypt(s[f], k) ELSE Nothing]
AllPlain(s) == \A f \in DOMAIN s : s[f].key = 0

\* Memory is what the file says, or what is about to be in it, unless the file could not be
\* read or written; and while
\* the key is not at hand it will never be, or makes no difference.
Faithful ==
    /\ phase = "down" => cached = 0
    /\ making => phase # "down" /\ cached = 0 /\ key = TornKey
    /\ cached # 0 => key = cached
    /\ torn => phase = "down" \/ failed \/ \E t \in Threads : step[t] = "write"
    /\ phase \in {"migrate", "purge", "secret"} => cached # 0 \/ NoKey \/ AllPlain(file)
    /\ phase \in {"migrate", "purge", "secret"} /\ Saving("main") => cached # 0 \/ NoKey \/ AllPlain(data["main"])
    /\ phase \in {"migrate", "purge", "secret", "up"} /\ ~failed =>
          /\ lock = "nobody" => mem = Opens(file, cached)
          /\ \A t \in Threads : Saving(t) => mem = Opens(data[t], cached)

-----------------------------------------------------------------------------
(* Stores *)

LEMMA PlainIsStored == ASSUME NEW v \in Values \cup {Nothing} PROVE Plain(v) \in Stored /\ Plain(v).key = 0
BY DEF Plain, Stored

LEMMA EmptyIsStore == ASSUME NEW n \in Nat PROVE IsStore(Empty, n) /\ DOMAIN Empty = {}
BY DEF IsStore, Empty

\* What a save writes.
Merged(changes, s, removed) == [f \in (DOMAIN Over(changes, s)) \ removed |-> Over(changes, s)[f]]

LEMMA OverIsStore ==
  ASSUME NEW n, NEW s, NEW changes, IsStore(s, n), IsStore(changes, n), NEW removed
  PROVE  IsStore(Merged(changes, s, removed), n)
BY DEF IsStore, Over, Merged

\* A field that no save names or removes comes through.
LEMMA OverKeeps ==
  ASSUME NEW s, NEW changes, NEW removed, NEW f, f \notin DOMAIN changes, f \notin removed
  PROVE  /\ f \in DOMAIN Merged(changes, s, removed) <=> f \in DOMAIN s
         /\ f \in DOMAIN s => Merged(changes, s, removed)[f] = s[f]
BY DEF Over, Merged

LEMMA LegacyIsStore == ASSUME NEW s \in Legacy, NEW n \in Nat PROVE IsStore(s, n)
<1>1. CASE s = Empty
  BY <1>1, EmptyIsStore
<1>2. ASSUME NEW v \in Values, s = [f \in {"smtp_password", "default_ssh_password"} |-> Plain(v)]
      PROVE  IsStore(s, n)
  BY <1>2, PlainIsStored DEF IsStore, AllFields, Fields, EncFields, Obsolete
<1>3. ASSUME NEW v \in Values, s = One("session_secret", Plain(v)) PROVE IsStore(s, n)
  BY <1>3, PlainIsStored DEF IsStore, AllFields, Fields, EncFields, Obsolete, One
<1> QED
  BY <1>1, <1>2, <1>3 DEF Legacy

\* What encrypt returns is what it was given, or the same value under the key at hand.
LEMMA EncryptIsStored ==
  ASSUME NEW e \in Stored, cached \in Nat
  PROVE  /\ Encrypt(e) \in Stored /\ Encrypt(e).key \in {e.key, cached}
         /\ Encrypt(e).val = e.val
         /\ cached # 0 => ~(Encrypt(e).key = 0 /\ Encrypt(e).val # Nothing)
BY DEF Encrypt, Stored

LEMMA SealedIsStore ==
  ASSUME NEW s, NEW n \in Nat, IsStore(s, n), cached \in 0..n
  PROVE  /\ IsStore(Sealed(s), n) /\ DOMAIN Sealed(s) = DOMAIN s
         /\ cached # 0 => InClear(Sealed(s)) = {}
         /\ \A f \in DOMAIN s : s[f].key = 0 => Decrypt(Sealed(s)[f], cached) = s[f].val
<1>1. DOMAIN Sealed(s) = DOMAIN s
  BY DEF Sealed
<1>2. \A f \in DOMAIN s : /\ Sealed(s)[f] \in Stored /\ Sealed(s)[f].key <= n
                          /\ f \notin EncFields => Sealed(s)[f].key = 0
                          /\ s[f].key = 0 => Decrypt(Sealed(s)[f], cached) = s[f].val
                          /\ cached # 0 /\ f \in EncFields =>
                               ~(Sealed(s)[f].key = 0 /\ Sealed(s)[f].val # Nothing)
  <2> SUFFICES ASSUME NEW f \in DOMAIN s
               PROVE  /\ Sealed(s)[f] \in Stored /\ Sealed(s)[f].key <= n
                      /\ f \notin EncFields => Sealed(s)[f].key = 0
                      /\ s[f].key = 0 => Decrypt(Sealed(s)[f], cached) = s[f].val
                      /\ cached # 0 /\ f \in EncFields =>
                           ~(Sealed(s)[f].key = 0 /\ Sealed(s)[f].val # Nothing)
    OBVIOUS
  <2>1. s[f] \in Stored /\ s[f].key <= n /\ (f \notin EncFields => s[f].key = 0)
        /\ Sealed(s)[f] = IF f \in EncFields THEN Encrypt(s[f]) ELSE s[f]
    BY DEF IsStore, Sealed
  <2>2. /\ Encrypt(s[f]) \in Stored /\ Encrypt(s[f]).key \in {s[f].key, cached}
        /\ Encrypt(s[f]).val = s[f].val
        /\ cached # 0 => ~(Encrypt(s[f]).key = 0 /\ Encrypt(s[f]).val # Nothing)
    BY <2>1, EncryptIsStored
  <2> QED
    BY <2>1, <2>2 DEF Decrypt
<1> QED
  BY <1>1, <1>2 DEF IsStore, InClear

LEMMA StoreStays == ASSUME NEW s, NEW n \in Nat, IsStore(s, n) PROVE IsStore(s, n + 1)
BY DEF IsStore, Stored

-----------------------------------------------------------------------------
(* A save, whoever makes it: it changes fields within their types. *)

IsValues(values) == DOMAIN values \subseteq Fields /\ \A f \in DOMAIN values : values[f] \in Values \cup {Nothing}
Prepares(t) == \E seen \in {file, Empty} : \E changes, removed :
    /\ Prepare(t, seen, changes, removed)
    /\ phase \in {"migrate", "purge"} => seen = file
    /\ IsStore(changes, keys) /\ DOMAIN changes \subseteq Fields
    /\ mem' \in [Fields -> Values \cup {Nothing}]
    /\ phase # "secret" => mem'["session_secret"] = mem["session_secret"]
    /\ \A f \in DOMAIN changes :
          Decrypt(changes[f], cached) = IF phase = "migrate" THEN Decrypt(file[f], cached) ELSE mem'[f]
    /\ \A f \in Fields \ DOMAIN changes : mem'[f] = mem[f]
    /\ phase = "migrate" => mem' = mem /\ DOMAIN changes \subseteq DOMAIN file
    /\ IF t = "main" THEN phase \in {"migrate", "purge", "secret"} ELSE phase = "up"
    /\ phase \in {"migrate", "secret"} => cached # 0
    /\ phase = "migrate" => InClear(file) \subseteq DOMAIN changes
    /\ phase = "purge" => removed = Obsolete /\ changes = Empty
    /\ removed \subseteq Obsolete
    /\ phase = "purge" \/ cached # 0 => InClear(changes) = {}

LEMMA SavePrepares ==
  ASSUME Typed, NEW t, NEW values, IsValues(values), SaveSettings(t, values),
         \/ phase = "secret" /\ t = "main" /\ cached # 0
         \/ phase = "up" /\ t # "main" /\ "session_secret" \notin DOMAIN values
  PROVE  Prepares(t)
<1> DEFINE plain == [f \in DOMAIN values |-> Plain(values[f])]
<1>1. /\ IsStore(plain, keys) /\ DOMAIN plain = DOMAIN values
      /\ \A f \in DOMAIN values : plain[f].key = 0 /\ plain[f].val = values[f]
  BY PlainIsStored DEF Plain, IsValues, IsStore, Typed, AllFields
<1>2. mem' = [f \in Fields |-> IF f \in DOMAIN values THEN values[f] ELSE mem[f]]
  BY DEF SaveSettings, Over, Typed, IsValues
<1>3. mem' \in [Fields -> Values \cup {Nothing}]
      /\ ("session_secret" \notin DOMAIN values => mem'["session_secret"] = mem["session_secret"])
  BY <1>2 DEF IsValues, Typed, Fields, EncFields
<1>4. PICK seen \in {file, Empty} : Prepare(t, seen, Sealed(plain), {})
  BY DEF SaveSettings
<1> HIDE DEF plain
<1>5. IsStore(Sealed(plain), keys) /\ DOMAIN Sealed(plain) = DOMAIN plain
      /\ (cached # 0 => InClear(Sealed(plain)) = {})
      /\ \A f \in DOMAIN plain : plain[f].key = 0 => Decrypt(Sealed(plain)[f], cached) = plain[f].val
  BY <1>1, SealedIsStore DEF Typed
<1>6. /\ \A f \in DOMAIN Sealed(plain) : Decrypt(Sealed(plain)[f], cached) = mem'[f]
      /\ \A f \in Fields \ DOMAIN Sealed(plain) : mem'[f] = mem[f]
      /\ DOMAIN Sealed(plain) \subseteq Fields
  BY <1>1, <1>2, <1>5 DEF IsValues
<1> QED
  BY <1>1, <1>3, <1>4, <1>5, <1>6 DEF Prepares

LEMMA MigratePrepares ==
  ASSUME Typed, Migrate, ~(Skip("migrate") /\ InClear(file) = {}), ~SkipUnread("migrate")
  PROVE  Prepares("main")
<1> DEFINE open == [f \in InClear(file) |-> file[f]]
<1>1. /\ IsStore(open, keys) /\ DOMAIN open = InClear(file) /\ cached \in 0..keys /\ keys \in Nat
      /\ \A f \in DOMAIN open : f \in DOMAIN file /\ open[f].key = 0 /\ open[f].val = Decrypt(file[f], cached)
  BY DEF IsStore, Typed, InClear, Decrypt
<1>2. cached # 0 /\ Prepare("main", file, Sealed(open), {}) /\ UNCHANGED mem /\ phase = "migrate"
  BY DEF Migrate
<1> HIDE DEF open
<1>3. IsStore(Sealed(open), keys) /\ DOMAIN Sealed(open) = DOMAIN open /\ InClear(Sealed(open)) = {}
      /\ \A f \in DOMAIN open : open[f].key = 0 => Decrypt(Sealed(open)[f], cached) = open[f].val
  BY <1>1, <1>2, SealedIsStore
<1>4. InClear(file) \subseteq Fields
  BY DEF InClear, Fields
<1> QED
  BY <1>1, <1>2, <1>3, <1>4 DEF Prepares, Typed

LEMMA PurgePrepares ==
  ASSUME Typed, Purge, ~(Skip("purge") /\ DOMAIN file \cap Obsolete = {}), ~SkipUnread("purge")
  PROVE  Prepares("main")
<1>1. InClear(Empty) = {} /\ DOMAIN Empty \subseteq Fields
  BY DEF InClear, Empty
<1> QED
  BY <1>1, EmptyIsStore DEF Purge, Prepares, Typed

LEMMA FormIsValues ==
  ASSUME NEW form \in PageForm PROVE IsValues(form) /\ "session_secret" \notin DOMAIN form
<1>1. PICK dn \in Values \cup {Nothing}, pw \in Values \cup {Nothing} :
         form = Over(One("ad_base_dn", dn), IF pw = Nothing THEN Empty ELSE One("smtp_password", pw))
  BY DEF PageForm
<1> QED
  BY <1>1 DEF IsValues, Over, One, Empty, Fields, EncFields

LEMMA SettingsPrepare ==
  ASSUME Typed, Agreed, NEW t \in Savers, SettingsSave(t) \/ KeepBaseDn(t)
  PROVE  Prepares(t)
<1>1. \E values : IsValues(values) /\ "session_secret" \notin DOMAIN values /\ SaveSettings(t, values)
  <2>1. CASE SettingsSave(t)
    <3>1. PICK form \in PageForm : SaveSettings(t, form)
      BY <2>1 DEF SettingsSave
    <3> QED
      BY <3>1, FormIsValues
  <2>2. CASE KeepBaseDn(t)
    <3>1. PICK dn \in Values : SaveSettings(t, One("ad_base_dn", dn))
      BY <2>2 DEF KeepBaseDn
    <3>2. IsValues(One("ad_base_dn", dn)) /\ "session_secret" \notin DOMAIN One("ad_base_dn", dn)
      BY DEF IsValues, One, Fields
    <3> QED
      BY <3>1, <3>2
  <2> QED
    BY <2>1, <2>2
<1>2. phase = "up" /\ t # "main"
  BY ConfigAssumption DEF SettingsSave, KeepBaseDn, Agreed
<1> QED
  BY <1>1, <1>2, SavePrepares

LEMMA SecretPrepares ==
  ASSUME Typed, EnsureSessionSecret, mem["session_secret"] = Nothing
  PROVE  Prepares("main")
<1>1. PICK v \in Values : SaveSettings("main", One("session_secret", v))
  BY DEF EnsureSessionSecret
<1>2. IsValues(One("session_secret", v))
  BY DEF IsValues, One, Fields, EncFields
<1>3. phase = "secret" /\ cached # 0
  BY DEF EnsureSessionSecret, Skip
<1> QED
  BY <1>1, <1>2, <1>3, SavePrepares

-----------------------------------------------------------------------------

\* What a step is: a save prepared, or one of the others.
Others ==
    \/ Start \/ Crash \/ Restore \/ ReadKey \/ CreateKey \/ WriteKey \/ NoStart \/ Load
    \/ Skip("migrate") /\ step["main"] = "idle" /\ InClear(file) = {}
    \/ Skip("purge") /\ step["main"] = "idle" /\ DOMAIN file \cap Obsolete = {}
    \/ Skip("secret") /\ step["main"] = "idle" /\ mem["session_secret"] # Nothing
    \/ step["main"] = "idle" /\ (SkipUnread("migrate") \/ SkipUnread("purge"))
    \/ \E t \in Savers : Search(t) \/ SearchFails(t) \/ SealFails(t)
    \/ \E t \in Threads : Open(t) \/ Write(t) \/ WriteFails(t)
    \/ UNCHANGED vars

LEMMA KindsOfStep ==
  ASSUME Typed, Agreed, [Next]_vars
  PROVE  (\E t \in Threads : Prepares(t)) \/ Others
<1>1. \A t \in Savers : t \in Threads
  BY DEF Threads
<1>2. ASSUME Migrate \/ Purge \/ EnsureSessionSecret PROVE (\E t \in Threads : Prepares(t)) \/ Others
  <2>1. CASE Migrate
    <3>1. step["main"] = "idle"
      BY <2>1 DEF Migrate
    <3> QED
      BY <2>1, <3>1, MigratePrepares DEF Others, Threads
  <2>2. CASE Purge
    <3>1. step["main"] = "idle"
      BY <2>2 DEF Purge
    <3> QED
      BY <2>2, <3>1, PurgePrepares DEF Others, Threads
  <2>3. CASE EnsureSessionSecret
    BY <2>3, SecretPrepares DEF EnsureSessionSecret, Others, Threads
  <2> QED
    BY <1>2, <2>1, <2>2, <2>3
<1>3. ASSUME NEW t \in Savers, SettingsSave(t) \/ KeepBaseDn(t) PROVE Prepares(t)
  BY <1>3, SettingsPrepare
<1> QED
  BY <1>1, <1>2, <1>3 DEF Next, Others

LEMMA InitTyped == Init => Typed
<1> SUFFICES ASSUME Init PROVE Typed
  OBVIOUS
<1>1. IsStore(file, 0)
  BY LegacyIsStore DEF Init
<1>2. \A t \in Threads : data[t] = Empty /\ IsStore(data[t], 0)
  BY EmptyIsStore DEF Init
<1> QED
  BY <1>1, <1>2 DEF Init, Typed, Starting

LEMMA PrepareTyped == ASSUME Typed, NEW t \in Threads, Prepares(t) PROVE Typed'
<1>1. PICK seen, changes, removed : seen \in {file, Empty} /\ IsStore(changes, keys)
                                    /\ Prepare(t, seen, changes, removed)
  BY DEF Prepares
<1>2. mem' \in [Fields -> Values \cup {Nothing}]
  BY DEF Prepares
<1>3. UNCHANGED <<phase, file, torn, keyVars>> /\ lock' = t /\ blind' \subseteq Threads
      /\ step' \in [Threads -> {"idle", "search", "open", "write"}]
  BY <1>1 DEF Prepare, Typed
<1>4. named' = [u \in Threads |-> named'[u]] /\ data' = [u \in Threads |-> data'[u]]
  BY <1>1 DEF Prepare, Typed
<1>5. \A u \in Threads : IsStore(data'[u], keys)
  <2> DEFINE new == Merged(changes, seen, removed)
  <2>1. IsStore(new, keys)
    <3>1. IsStore(seen, keys)
      BY <1>1, EmptyIsStore DEF Typed
    <3> QED
      BY <1>1, <3>1, OverIsStore DEF Typed
  <2>2. data' = [data EXCEPT ![t] = new]
    BY <1>1 DEF Prepare, Merged
  <2> HIDE DEF new
  <2> QED
    BY <2>1, <2>2 DEF Typed
<1> QED
  BY <1>2, <1>3, <1>4, <1>5 DEF Typed, keyVars

LEMMA DieTyped == ASSUME Typed, Die, UNCHANGED <<file, key, keys>> PROVE Typed'
<1>1. \A t \in Threads : data'[t] = Empty /\ IsStore(data'[t], keys)
  BY EmptyIsStore DEF Die, Typed
<1> QED
  BY <1>1 DEF Die, Typed, Starting

LEMMA OtherTyped == ASSUME Typed, Others PROVE Typed'
<1>1. CASE Start
  BY <1>1 DEF Start, Typed, keyVars, saving, Starting, errors
<1>2. CASE Crash \/ NoStart
  BY <1>2, DieTyped DEF Crash, NoStart
<1>3. CASE Restore
  <2>1. IsStore(file', keys)
    BY <1>3, LegacyIsStore DEF Restore, Typed
  <2> QED
    BY <1>3, <2>1 DEF Restore, Typed, saving, errors
<1>4. CASE ReadKey \/ CreateKey
  BY <1>4 DEF ReadKey, CreateKey, Typed, saving, errors
<1>5. CASE WriteKey
  <2>1. IsStore(file, keys + 1) /\ \A t \in Threads : IsStore(data[t], keys + 1)
    BY StoreStays DEF Typed
  <2> QED
    BY <1>5, <2>1 DEF WriteKey, Typed, saving, errors
<1>6. CASE Load
  <2>1. mem' \in [Fields -> Values \cup {Nothing}]
    <3>1. \A f \in Fields : f \in DOMAIN file => Decrypt(file[f], cached) \in Values \cup {Nothing}
      BY DEF Typed, IsStore, Stored, Decrypt
    <3> QED
      BY <1>6, <3>1 DEF Load, Loaded
  <2> QED
    BY <1>6, <2>1 DEF Load, Typed, keyVars, saving, Starting, errors
<1>7. ASSUME NEW from \in {"migrate", "purge", "secret"}, Skip(from) PROVE Typed'
  BY <1>7 DEF Skip, After, Typed, keyVars, saving, Starting, errors
<1>14. ASSUME NEW from \in {"migrate", "purge"}, SkipUnread(from) PROVE Typed'
  BY <1>14 DEF SkipUnread, After, Typed, keyVars, saving, Starting, Threads
<1>15. ASSUME NEW t \in Savers, SealFails(t) PROVE Typed'
  <2>1. PICK form \in PageForm : mem' = Over(form, mem)
    BY <1>15 DEF SealFails
  <2>2. mem' \in [Fields -> Values \cup {Nothing}]
    BY <2>1, FormIsValues DEF Over, IsValues, Typed
  <2> QED
    BY <1>15, <2>2 DEF SealFails, Typed, keyVars, saving
<1>8. ASSUME NEW t \in Savers, Search(t) \/ SearchFails(t) PROVE Typed'
  BY <1>8 DEF Search, SearchFails, Typed, keyVars, errors
<1>9. ASSUME NEW t \in Threads, Open(t) PROVE Typed'
  <2>1. IsStore(file', keys)
    BY <1>9, EmptyIsStore DEF Open, Typed
  <2> QED
    BY <1>9, <2>1 DEF Open, Typed, keyVars, errors
<1>10. ASSUME NEW t \in Threads, Release(t), IsStore(file', keys), UNCHANGED <<mem, cached, key, keys>>,
              phase' \in Starting \cup {"down", "up"}
       PROVE  Typed'
  <2>1. \A u \in Threads : IsStore(data'[u], keys)
    BY <1>10, EmptyIsStore DEF Release, Typed
  <2> QED
    BY <1>10, <2>1 DEF Release, Typed
<1>11. ASSUME NEW t \in Threads, Write(t) PROVE Typed'
  BY <1>10, <1>11 DEF Write, After, Typed, keyVars, Starting
<1>12. ASSUME NEW t \in Threads, WriteFails(t) PROVE Typed'
  <2>1. CASE t = "main"
    BY <1>12, <2>1, DieTyped DEF WriteFails
  <2>2. CASE t # "main"
    BY <1>10, <1>12, <2>2 DEF WriteFails, Typed
  <2> QED
    BY <2>1, <2>2
<1>13. CASE UNCHANGED vars
  BY <1>13 DEF vars, Typed
<1> QED
  BY <1>1, <1>2, <1>3, <1>4, <1>5, <1>6, <1>7, <1>8, <1>9, <1>11, <1>12, <1>13, <1>14, <1>15 DEF Others

LEMMA NextTyped == Typed /\ Agreed /\ [Next]_vars => Typed'
BY KindsOfStep, PrepareTyped, OtherTyped

-----------------------------------------------------------------------------

LEMMA InitAgreed == Init => Agreed
BY ConfigAssumption DEF Init, Agreed, Saving, Threads

LEMMA PrepareAgreed == ASSUME Typed, Agreed, NEW t \in Threads, Prepares(t) PROVE Agreed'
<1>1. PICK seen, changes, removed : seen \in {file, Empty} /\ IsStore(changes, keys) /\ Prepare(t, seen, changes, removed)
  BY DEF Prepares
<1> DEFINE new == Merged(changes, seen, removed)
<1>2. /\ step'[t] = "open" /\ \A u \in Threads \ {t} : step'[u] = step[u] /\ ~Saving(u)
      /\ lock' = t /\ UNCHANGED <<phase, file>>
      /\ named'[t] = DOMAIN changes \cup removed /\ data'[t] = new
      /\ lock = "nobody" /\ blind \subseteq blind' /\ blind' \subseteq blind \cup {t}
      /\ (t \notin blind' => seen = file) /\ (blind' # {} => failed')
  BY <1>1, ConfigAssumption DEF Prepare, Typed, Agreed, Threads, Merged
<1> HIDE DEF new
<1>3. t \notin blind' =>
         \A f \in AllFields \ named'[t] : /\ f \in DOMAIN new <=> f \in DOMAIN file
                                          /\ f \in DOMAIN file => new[f] = file[f]
  <2> SUFFICES ASSUME t \notin blind', NEW f \in AllFields \ named'[t]
               PROVE  /\ f \in DOMAIN new <=> f \in DOMAIN file
                      /\ f \in DOMAIN file => new[f] = file[f]
    OBVIOUS
  <2>1. seen = file /\ f \notin DOMAIN changes /\ f \notin removed
    BY <1>2
  <2>2. /\ f \in DOMAIN new <=> f \in DOMAIN seen
        /\ f \in DOMAIN seen => new[f] = seen[f]
    BY <2>1, OverKeeps DEF new
  <2> QED
    BY <2>1, <2>2
<1>4. IF t = "main" THEN phase \in {"migrate", "purge", "secret"} ELSE phase = "up"
  BY DEF Prepares
<1> QED
  BY <1>2, <1>3, <1>4, ConfigAssumption DEF Agreed, Saving, Typed, Threads

LEMMA OtherAgreed == ASSUME Typed, Agreed, Others PROVE Agreed'
<1>1. CASE Start
  BY <1>1 DEF Start, Agreed, Saving, keyVars, saving, errors
<1>2. CASE Crash \/ NoStart
  BY <1>2, ConfigAssumption DEF Crash, NoStart, Die, Agreed, Saving, Threads
<1>3. CASE Restore
  BY <1>3, ConfigAssumption DEF Restore, Agreed, Saving, saving, Threads, errors
<1>4. CASE ReadKey \/ CreateKey \/ WriteKey
  BY <1>4 DEF ReadKey, CreateKey, WriteKey, Agreed, Saving, saving, errors
<1>6. CASE Load
  BY <1>6, ConfigAssumption DEF Load, Agreed, Saving, keyVars, saving, Threads, errors
<1>7. ASSUME NEW from \in {"migrate", "purge", "secret"}, Skip(from), step["main"] = "idle" PROVE Agreed'
  BY <1>7, ConfigAssumption DEF Skip, After, Agreed, Saving, keyVars, saving, Threads, errors
<1>14. ASSUME NEW from \in {"migrate", "purge"}, SkipUnread(from), step["main"] = "idle" PROVE Agreed'
  BY <1>14, ConfigAssumption DEF SkipUnread, After, Agreed, Saving, keyVars, saving, Threads
<1>15. ASSUME NEW t \in Savers, SealFails(t) PROVE Agreed'
  BY <1>15 DEF SealFails, Agreed, Saving, keyVars, saving
<1>8. ASSUME NEW t \in Savers, Search(t) \/ SearchFails(t) PROVE Agreed'
  <2>1. /\ \A u \in Threads : Saving(u)' = Saving(u) /\ (step'[u] = "open" <=> step[u] = "open")
        /\ \A u \in Savers : step'[u] # "idle" => step[u] # "idle" \/ phase = "up"
        /\ step'["main"] = step["main"]
        /\ UNCHANGED <<phase, file, data, named, lock, blind, failed>>
    BY <1>8, ConfigAssumption DEF Search, SearchFails, Saving, keyVars, Typed, Threads, errors
  <2> QED
    BY <2>1 DEF Agreed
<1>9. ASSUME NEW t \in Threads, Open(t) PROVE Agreed'
  BY <1>9, ConfigAssumption DEF Open, Agreed, Saving, keyVars, Typed, Threads, errors
<1>10. ASSUME NEW t \in Threads, Saving(t), Release(t), phase' = phase \/ t = "main", failed => failed' PROVE Agreed'
  BY <1>10, ConfigAssumption DEF Release, Agreed, Saving, Typed, Threads
<1>11. ASSUME NEW t \in Threads, Write(t) PROVE Agreed'
  BY <1>10, <1>11 DEF Write, Saving
<1>12. ASSUME NEW t \in Threads, WriteFails(t) PROVE Agreed'
  <2>1. CASE t = "main"
    BY <1>12, <2>1, ConfigAssumption DEF WriteFails, Die, Agreed, Saving, Threads
  <2>2. CASE t # "main"
    BY <1>10, <1>12, <2>2 DEF WriteFails, Saving
  <2> QED
    BY <2>1, <2>2
<1>13. CASE UNCHANGED vars
  BY <1>13 DEF vars, Agreed, Saving
<1> QED
  BY <1>1, <1>2, <1>3, <1>4, <1>6, <1>7, <1>8, <1>9, <1>11, <1>12, <1>13, <1>14, <1>15 DEF Others

LEMMA NextAgreed == Typed /\ Agreed /\ [Next]_vars => Agreed'
BY KindsOfStep, PrepareAgreed, OtherAgreed

-----------------------------------------------------------------------------

LEMMA InitClean == Init => Clean
BY DEF Init, Clean, StartDone, Saving, Threads

LEMMA PrepareClean == ASSUME Typed, Agreed, Clean, NEW t \in Threads, Prepares(t) PROVE Clean'
<1>1. PICK seen, changes, removed :
         /\ seen \in {file, Empty}
         /\ Prepare(t, seen, changes, removed)
         /\ phase \in {"migrate", "purge"} => seen = file
         /\ IsStore(changes, keys) /\ DOMAIN changes \subseteq Fields
         /\ phase # "secret" => mem'["session_secret"] = mem["session_secret"]
         /\ IF t = "main" THEN phase \in {"migrate", "purge", "secret"} ELSE phase = "up"
         /\ phase \in {"migrate", "secret"} => cached # 0
         /\ phase = "migrate" => InClear(file) \subseteq DOMAIN changes
         /\ phase = "purge" => removed = Obsolete
         /\ phase = "purge" \/ cached # 0 => InClear(changes) = {}
  BY DEF Prepares
<1> DEFINE new == Merged(changes, seen, removed)
<1>2. /\ step'[t] = "open" /\ \A u \in Threads \ {t} : step'[u] = step[u] /\ ~Saving(u)
      /\ UNCHANGED <<phase, file, cached>> /\ data'[t] = new /\ blind \subseteq blind'
  BY <1>1, ConfigAssumption DEF Prepare, Typed, Agreed, Threads, keyVars, Merged
<1>3. StartDone => InClear(changes) = {}
  BY <1>1 DEF StartDone
<1>4. StartDone /\ phase \in {"purge", "secret", "up"} => InClear(seen) = {}
  BY <1>1 DEF StartDone, InClear, Empty
<1>5. StartDone => InClear(new) = {}
  <2> SUFFICES ASSUME StartDone, NEW f \in DOMAIN new, f \in EncFields, new[f].key = 0, new[f].val # Nothing PROVE FALSE
    BY DEF InClear
  <2>1. CASE f \in DOMAIN changes
    BY <1>3, <2>1 DEF InClear, Over, Merged
  <2>2. CASE f \notin DOMAIN changes
    <3>1. f \in InClear(seen)
      BY <2>2 DEF InClear, Over, Merged
    <3> QED
      BY <1>1, <1>4, <2>2, <3>1
  <2> QED
    BY <2>1, <2>2
<1>6. StartDone /\ phase # "migrate" => DOMAIN new \cap Obsolete = {}
  <2>1. DOMAIN changes \cap Obsolete = {}
    BY <1>1 DEF Fields, EncFields, Obsolete
  <2>2. CASE phase = "purge"
    BY <1>1, <2>2 DEF Merged
  <2>3. CASE phase \in {"secret", "up"}
    BY <1>1, <2>1, <2>3 DEF StartDone, Over, Empty, Merged
  <2> QED
    BY <1>1, <2>2, <2>3
<1> HIDE DEF new
<1>7. InClear(file)' = InClear(file) /\ InClear(data'[t]) = InClear(new)
  BY <1>2 DEF InClear
<1>8. phase \in {"migrate", "purge", "secret", "up"}
  BY <1>1
<1>9. \A u \in Threads : Saving(u)' => u = t
  BY <1>2 DEF Saving
<1>10. step'["main"] # "idle" => step["main"] # "idle" \/ t = "main"
  BY <1>2 DEF Threads
<1> QED
  BY <1>1, <1>2, <1>5, <1>6, <1>7, <1>8, <1>9, <1>10 DEF Clean, StartDone, InClear

LEMMA OtherClean == ASSUME Typed, Agreed, Clean, Others PROVE Clean'
<1>1. CASE Start
  BY <1>1 DEF Start, Clean, StartDone, Agreed, Saving, InClear, keyVars, saving, errors, Threads
<1>2. ASSUME Die PROVE Clean'
  BY <1>2 DEF Die, Clean, StartDone, Saving, Threads
<1>3. CASE Restore
  BY <1>3, ConfigAssumption DEF Restore, Clean, StartDone, Agreed, Saving, saving, errors, Threads
<1>4. CASE ReadKey \/ CreateKey \/ WriteKey
  <2>1. cached' # 0 \/ cached' = cached
    BY <1>4 DEF ReadKey, CreateKey, WriteKey, Typed
  <2>2. UNCHANGED <<phase, file, mem, saving, errors>>
    BY <1>4 DEF ReadKey, CreateKey, WriteKey
  <2> QED
    BY <2>1, <2>2 DEF Clean, StartDone, Saving, InClear, saving, errors
<1>6. CASE Load
  <2>1. phase' = "migrate" /\ mem' = Loaded(cached) /\ UNCHANGED <<file, cached, step, blind>>
    BY <1>6 DEF Load, keyVars, saving, errors
  <2>2. \A t \in Threads : step[t] = "idle"
    BY <1>6 DEF Load, Agreed, Threads
  <2>3. mem'["session_secret"] # Nothing => cached # 0 \/ "session_secret" \in InClear(file)
    <3> SUFFICES ASSUME mem'["session_secret"] # Nothing, cached = 0 PROVE "session_secret" \in InClear(file)
      OBVIOUS
    <3>1. "session_secret" \in Fields \cap EncFields
      BY DEF Fields, EncFields
    <3>2. "session_secret" \in DOMAIN file /\ Decrypt(file["session_secret"], 0) # Nothing
      BY <2>1, <3>1 DEF Loaded
    <3> QED
      BY <3>1, <3>2 DEF Decrypt, InClear
  <2> QED
    BY <2>1, <2>2, <2>3 DEF Clean, StartDone, Saving, InClear, Threads
<1>7. ASSUME NEW from \in {"migrate", "purge", "secret"}, Skip(from), step["main"] = "idle",
             from = "migrate" => InClear(file) = {},
             from = "purge" => DOMAIN file \cap Obsolete = {},
             from = "secret" => mem["session_secret"] # Nothing
      PROVE  Clean'
  <2>1. phase = from /\ phase' = After(from) /\ UNCHANGED <<file, cached, mem, step, data, blind>>
    BY <1>7 DEF Skip, keyVars, saving, errors
  <2>2. \A t \in Threads : step[t] = "idle"
    BY <1>7, <2>1 DEF Agreed, Threads
  <2>3. InClear(file)' = InClear(file)
    BY <2>1 DEF InClear
  <2> QED
    BY <1>7, <2>1, <2>2, <2>3 DEF Clean, StartDone, Saving, After, Threads
<1>14. ASSUME NEW from \in {"migrate", "purge"}, SkipUnread(from), step["main"] = "idle" PROVE Clean'
  <2>1. phase' \in {"purge", "secret"} /\ "main" \in blind' /\ step'["main"] = "idle"
    BY <1>14 DEF SkipUnread, After, saving
  <2> QED
    BY <2>1 DEF Clean
<1>15. ASSUME NEW t \in Savers, SealFails(t) PROVE Clean'
  BY <1>15 DEF SealFails, Clean, StartDone, Saving, InClear, keyVars, saving
<1>8. ASSUME NEW t \in Savers, Search(t) \/ SearchFails(t) PROVE Clean'
  <2>1. /\ UNCHANGED <<phase, file, cached, mem, data, blind>>
        /\ \A u \in Threads : Saving(u)' => Saving(u)
        /\ step'["main"] = step["main"]
    BY <1>8, ConfigAssumption DEF Search, SearchFails, Saving, Typed, Threads, keyVars, errors
  <2> QED
    BY <2>1 DEF Clean, StartDone, InClear
<1>9. ASSUME NEW t \in Threads, Open(t) PROVE Clean'
  <2>1. /\ UNCHANGED <<phase, cached, mem, data, blind>> /\ file' = Empty
        /\ \A u \in Threads : Saving(u)' = Saving(u) /\ (step'[u] # "idle" => step[u] # "idle")
    BY <1>9 DEF Open, Saving, Typed, keyVars, errors
  <2>2. InClear(Empty) = {} /\ DOMAIN Empty \cap Obsolete = {}
    BY DEF Empty, InClear
  <2>3. phase = "migrate" => cached # 0
    BY <1>9 DEF Open, Clean, Agreed, Threads
  <2> QED
    BY <2>1, <2>2, <2>3 DEF Clean, StartDone, InClear, Threads
<1>10. ASSUME NEW t \in Threads, Write(t) PROVE Clean'
  <2>1. /\ step'[t] = "idle" /\ \A u \in Threads : u # t => step'[u] = step[u] /\ ~Saving(u)
        /\ UNCHANGED <<cached, mem>> /\ file' = data[t] /\ ("main" \in blind => "main" \in blind')
        /\ phase' = IF t = "main" THEN After(phase) ELSE phase
    BY <1>10, ConfigAssumption DEF Write, Release, Agreed, Saving, Typed, keyVars
  <2>2. StartDone => InClear(data[t]) = {} /\ (phase # "migrate" => DOMAIN data[t] \cap Obsolete = {})
    BY <1>10 DEF Write, StartDone, Saving
  <2>3. StartDone => InClear(file)' = {}
    BY <2>1, <2>2 DEF InClear
  <2>4. IF t = "main" THEN phase \in {"migrate", "purge", "secret"} ELSE phase = "up"
    BY <1>10 DEF Write, Agreed, Threads
  <2>5. t # "main" => step["main"] = "idle"
    BY <2>4 DEF Agreed
  <2> QED
    BY <1>10, <2>1, <2>2, <2>3, <2>4, <2>5 DEF Clean, StartDone, Saving, After, Write, Threads
<1>11. ASSUME NEW t \in Threads, WriteFails(t), t # "main" PROVE Clean'
  <2>1. /\ step'[t] = "idle" /\ \A u \in Threads : u # t => step'[u] = step[u] /\ ~Saving(u)
        /\ UNCHANGED <<cached, mem, file, phase>> /\ phase = "up"
        /\ ("main" \in blind => "main" \in blind')
    BY <1>11, ConfigAssumption DEF WriteFails, Release, Agreed, Saving, Typed, Threads
  <2> QED
    BY <2>1 DEF Clean, StartDone, Saving, InClear, Threads
<1>12. CASE UNCHANGED vars
  BY <1>12 DEF vars, Clean, StartDone, Saving, InClear
<1> QED
  BY <1>1, <1>2, <1>3, <1>4, <1>6, <1>7, <1>8, <1>9, <1>10, <1>11, <1>12, <1>14, <1>15 DEF Others, Crash, NoStart, WriteFails

LEMMA NextClean == Typed /\ Agreed /\ Clean /\ [Next]_vars => Clean'
BY KindsOfStep, PrepareClean, OtherClean

-----------------------------------------------------------------------------

LEMMA InitFaithful == Init => Faithful
BY DEF Init, Faithful

LEMMA PrepareFaithful == ASSUME Typed, Agreed, Clean, Faithful, NEW t \in Threads, Prepares(t) PROVE Faithful'
<1>1. PICK seen, changes, removed :
         /\ seen \in {file, Empty}
         /\ phase \in {"migrate", "purge"} => seen = file
         /\ Prepare(t, seen, changes, removed) /\ removed \subseteq Obsolete
         /\ IsStore(changes, keys) /\ DOMAIN changes \subseteq Fields
         /\ mem' \in [Fields -> Values \cup {Nothing}]
         /\ \A f \in DOMAIN changes :
               Decrypt(changes[f], cached) = IF phase = "migrate" THEN Decrypt(file[f], cached) ELSE mem'[f]
         /\ \A f \in Fields \ DOMAIN changes : mem'[f] = mem[f]
         /\ phase = "migrate" => mem' = mem /\ DOMAIN changes \subseteq DOMAIN file
         /\ IF t = "main" THEN phase \in {"migrate", "purge", "secret"} ELSE phase = "up"
         /\ phase \in {"migrate", "secret"} => cached # 0
         /\ phase = "purge" => changes = Empty
  BY DEF Prepares
<1> DEFINE new == Merged(changes, seen, removed)
<1>2. /\ step'[t] = "open" /\ \A u \in Threads \ {t} : step'[u] = step[u] /\ ~Saving(u)
      /\ UNCHANGED <<phase, file, torn, key, cached, making>> /\ data'[t] = new
      /\ lock = "nobody" /\ lock' # "nobody"
      /\ (failed => failed') /\ (~failed' => ~failed /\ seen = file)
  BY <1>1, ConfigAssumption DEF Prepare, Typed, Agreed, Threads, keyVars, Merged
<1>3. phase = "purge" => (AllPlain(file) => AllPlain(new))
  BY <1>1, EmptyIsStore DEF AllPlain, Over, Empty, Merged
<1>4. ~failed' => mem' = Opens(new, cached)
  <2> SUFFICES ASSUME ~failed', NEW f \in Fields
               PROVE  mem'[f] = IF f \in DOMAIN new THEN Decrypt(new[f], cached) ELSE Nothing
    BY <1>1 DEF Opens
  <2>1. mem[f] = IF f \in DOMAIN file THEN Decrypt(file[f], cached) ELSE Nothing
    BY <1>1, <1>2 DEF Faithful, Opens
  <2>2. f \notin removed
    BY <1>1 DEF Fields, EncFields, Obsolete
  <2>3. CASE f \in DOMAIN changes
    BY <1>1, <2>1, <2>2, <2>3 DEF Over, Merged
  <2>4. CASE f \notin DOMAIN changes
    <3>1. seen = file /\ mem'[f] = mem[f]
      BY <1>1, <1>2, <2>4
    <3> HIDE DEF new
    <3>2. /\ f \in DOMAIN new <=> f \in DOMAIN seen
          /\ f \in DOMAIN seen => new[f] = seen[f]
      BY <2>2, <2>4, OverKeeps DEF new
    <3> QED
      BY <2>1, <3>1, <3>2
  <2> QED
    BY <2>3, <2>4
<1> HIDE DEF new
<1>5. \A u \in Threads : Saving(u)' => u = t
  BY <1>2 DEF Saving
<1>6. \A u \in Threads : step[u] # "write"
  BY <1>2, ConfigAssumption DEF Agreed, Saving, Threads
<1> QED
  BY <1>1, <1>2, <1>3, <1>4, <1>5, <1>6 DEF Faithful, NoKey, AllPlain

LEMMA OpensPlain == ASSUME NEW s, AllPlain(s), NEW j, NEW k PROVE Opens(s, j) = Opens(s, k)
BY DEF AllPlain, Opens, Decrypt

LEMMA OtherFaithful == ASSUME Typed, Agreed, Clean, Faithful, Others PROVE Faithful'
<1>1. CASE Start
  BY <1>1 DEF Start, Faithful, keyVars, saving, errors
<1>2. ASSUME Die PROVE Faithful'
  BY <1>2 DEF Die, Faithful
<1>3. CASE Restore
  BY <1>3 DEF Restore, Faithful
<1>4. ASSUME ReadKey \/ CreateKey \/ WriteKey PROVE Faithful'
  <2>0. UNCHANGED <<phase, file, torn, mem, step, data, lock, failed>>
    BY <1>4 DEF ReadKey, CreateKey, WriteKey, saving, errors
  <2>1. phase # "down" /\ ~NoKey /\ cached = 0
    BY <1>4, ConfigAssumption DEF ReadKey, CreateKey, WriteKey, NoKey, NeedsKey, TornKey, Faithful
  <2>2. cached' # 0 => key' = cached'
    BY <1>4, <2>1 DEF ReadKey, CreateKey, WriteKey
  <2>3. making' => cached' = 0 /\ key' = TornKey
    BY <1>4, <2>1 DEF ReadKey, CreateKey, WriteKey, Faithful
  <2>4. phase \in {"migrate", "purge", "secret"} =>
           AllPlain(file) /\ (Saving("main") => AllPlain(data["main"]))
    BY <2>1 DEF Faithful
  <2>5. phase = "up" => failed
    BY <2>1 DEF Clean, StartDone, Agreed
  <2>6. phase # "up" => \A t \in Threads : Saving(t) => t = "main"
    BY DEF Agreed, Threads, Saving
  <2>7. /\ AllPlain(file) => Opens(file, cached') = Opens(file, cached)
        /\ AllPlain(data["main"]) => Opens(data["main"], cached') = Opens(data["main"], cached)
    BY OpensPlain
  <2>8. Saving("main")' = Saving("main") /\ AllPlain(file)' = AllPlain(file)
        /\ AllPlain(data["main"])' = AllPlain(data["main"])
        /\ \A t \in Threads : Saving(t)' = Saving(t)
    BY <2>0 DEF Saving, AllPlain
  <2>9. /\ mem' = mem /\ Opens(file, cached)' = Opens(file, cached')
        /\ Opens(data["main"], cached)' = Opens(data["main"], cached')
    BY <2>0 DEF Opens
  <2>10. phase \in {"migrate", "purge", "secret"} /\ ~failed =>
           /\ lock = "nobody" => mem' = Opens(file, cached)'
           /\ \A t \in Threads : Saving(t) => mem' = Opens(data["main"], cached)'
    BY <2>4, <2>6, <2>7, <2>9 DEF Faithful
  <2>11. torn => failed \/ \E t \in Threads : step[t] = "write"
    BY <2>1 DEF Faithful
  <2> QED
    BY <2>0, <2>1, <2>2, <2>3, <2>4, <2>5, <2>6, <2>8, <2>10, <2>11 DEF Faithful
<1>6. CASE Load
  <2>1. /\ phase' = "migrate" /\ mem' = Opens(file, cached)
        /\ UNCHANGED <<file, torn, key, cached, making, step, lock, failed, data>>
    BY <1>6 DEF Load, Loaded, Opens, keyVars, saving, errors
  <2>2. \A t \in Threads : step[t] = "idle"
    BY <1>6 DEF Load, Agreed, Threads
  <2>3. cached # 0 \/ NoKey \/ AllPlain(file)
    BY <1>6 DEF Load, KeyReady, NeedsKey, AllPlain, Typed, IsStore
  <2> QED
    BY <1>6, <2>1, <2>2, <2>3 DEF Faithful, Saving, NoKey, AllPlain, Load, Threads, Opens
<1>7. ASSUME NEW from \in {"migrate", "purge", "secret"}, Skip(from), step["main"] = "idle" PROVE Faithful'
  <2>1. /\ phase = from /\ phase' = After(from)
        /\ UNCHANGED <<file, torn, key, cached, making, mem, step, data, lock, failed>>
    BY <1>7 DEF Skip, keyVars, saving, errors
  <2>2. \A t \in Threads : step[t] = "idle"
    BY <1>7, <2>1 DEF Agreed, Threads
  <2> QED
    BY <2>1, <2>2 DEF Faithful, Saving, NoKey, AllPlain, After, Threads, Opens
<1>14. ASSUME NEW from \in {"migrate", "purge"}, SkipUnread(from), step["main"] = "idle" PROVE Faithful'
  <2>1. /\ phase = from /\ phase' = After(from) /\ failed'
        /\ UNCHANGED <<file, torn, key, cached, making, mem, step, data, lock>>
    BY <1>14 DEF SkipUnread, keyVars, saving
  <2> QED
    BY <2>1 DEF Faithful, Saving, NoKey, AllPlain, After
<1>15. ASSUME NEW t \in Savers, SealFails(t) PROVE Faithful'
  BY <1>15 DEF SealFails, Faithful, Saving, NoKey, AllPlain, keyVars, saving
<1>8. ASSUME NEW t \in Savers, Search(t) \/ SearchFails(t) PROVE Faithful'
  <2>1. /\ UNCHANGED <<phase, file, torn, key, cached, making, mem, data, lock, failed>>
        /\ \A u \in Threads : Saving(u)' = Saving(u) /\ (step[u] = "write" => step'[u] = "write")
    BY <1>8, ConfigAssumption DEF Search, SearchFails, Saving, Typed, Threads, keyVars, errors
  <2> QED
    BY <2>1 DEF Faithful, NoKey, AllPlain, Threads, Opens
<1>9. ASSUME NEW t \in Threads, Open(t) PROVE Faithful'
  <2>1. /\ UNCHANGED <<phase, key, cached, making, mem, data, lock, failed>>
        /\ \A u \in Threads : Saving(u)' = Saving(u)
        /\ step'[t] = "write" /\ file' = Empty /\ lock = t
    BY <1>9 DEF Open, Saving, Typed, keyVars, Agreed, errors
  <2>2. AllPlain(Empty)
    BY DEF AllPlain, Empty
  <2>3. lock # "nobody"
    BY <2>1, ConfigAssumption DEF Threads
  <2> QED
    BY <2>1, <2>2, <2>3 DEF Faithful, NoKey, AllPlain, Threads, Opens
<1>10. ASSUME NEW t \in Threads, Write(t) PROVE Faithful'
  <2>1. /\ \A u \in Threads : ~Saving(u)'
        /\ UNCHANGED <<key, cached, making, mem, failed>> /\ file' = data[t] /\ ~torn'
        /\ phase' = IF t = "main" THEN After(phase) ELSE phase
    BY <1>10 DEF Write, Release, Agreed, Saving, Typed, keyVars
  <2>2. Saving(t) /\ IF t = "main" THEN phase \in {"migrate", "purge", "secret"} ELSE phase = "up"
    BY <1>10 DEF Write, Agreed, Threads, Saving
  <2>3. phase' \in {"purge", "secret", "up"} /\ (phase' # "up" => t = "main")
    BY <2>1, <2>2 DEF After
  <2>4. ~failed => mem = Opens(data[t], cached)
    BY <2>2 DEF Faithful
  <2>5. t = "main" => cached # 0 \/ NoKey \/ AllPlain(data["main"])
    BY <2>2 DEF Faithful
  <2> QED
    BY <2>1, <2>3, <2>4, <2>5 DEF Faithful, NoKey, AllPlain, Threads, Opens
<1>11. ASSUME NEW t \in Threads, WriteFails(t), t # "main" PROVE Faithful'
  <2>1. /\ failed' /\ phase = "up" /\ UNCHANGED <<file, key, cached, making, phase>>
    BY <1>11 DEF WriteFails, Agreed, Threads
  <2> QED
    BY <2>1 DEF Faithful
<1>12. CASE UNCHANGED vars
  BY <1>12 DEF vars, Faithful, Saving, NoKey, AllPlain, Opens
<1> QED
  BY <1>1, <1>2, <1>3, <1>4, <1>6, <1>7, <1>8, <1>9, <1>10, <1>11, <1>12, <1>14, <1>15 DEF Others, Crash, NoStart, WriteFails

LEMMA NextFaithful == Typed /\ Agreed /\ Clean /\ Faithful /\ [Next]_vars => Faithful'
BY KindsOfStep, PrepareFaithful, OtherFaithful

-----------------------------------------------------------------------------

LEMMA Invariant == Spec => [](Typed /\ Agreed /\ Clean /\ Faithful)
<1>1. Init => Typed /\ Agreed /\ Clean /\ Faithful
  BY InitTyped, InitAgreed, InitClean, InitFaithful
<1>2. Typed /\ Agreed /\ Clean /\ Faithful /\ [Next]_vars => (Typed /\ Agreed /\ Clean /\ Faithful)'
  BY NextTyped, NextAgreed, NextClean, NextFaithful
<1> QED
  BY <1>1, <1>2, PTL DEF Spec

\* Wherever a start or a save is interrupted, no secret in config.json is sealed under a key that
\* was not in full on disk.
THEOREM KeyBeforeSecret == Spec => []SealedUnderWrittenKey
<1>1. Typed => SealedUnderWrittenKey
  BY DEF Typed, IsStore, SealedUnderWrittenKey
<1> QED
  BY <1>1, Invariant, PTL

\* A save that could read the file writes what it has in every field the save does not name,
\* however many threads save.
THEOREM NothingLost == Spec => []OthersKept
<1>1. Agreed => OthersKept
  BY DEF Agreed, OthersKept, AllFields
<1> QED
  BY <1>1, Invariant, PTL

\* After a start that could read config.json, no secret is in it in clear, whatever an earlier
\* release had left in it and however often a start was interrupted.
THEOREM NoSecretInClear == Spec => []NothingInClear
<1>1. Clean => NothingInClear
  BY DEF Clean, StartDone, NothingInClear
<1> QED
  BY <1>1, Invariant, PTL

\* Between saves the running program works with what a restart would read, unless it could not
\* read or write config.json.
THEOREM RestartChangesNothing == Spec => []MemoryIsFile
<1>1. Typed /\ Agreed /\ Clean /\ Faithful => MemoryIsFile
  <2> SUFFICES ASSUME Typed, Agreed, Clean, Faithful, phase = "up", lock = "nobody", ~failed
               PROVE  ~torn /\ mem = Loaded(cached) /\ cached = key
    BY DEF MemoryIsFile
  <2>1. \A t \in Threads : step[t] # "write"
    BY ConfigAssumption DEF Agreed, Saving, Threads
  <2>2. ~torn
    BY <2>1 DEF Faithful
  <2>3. mem = Loaded(cached)
    BY DEF Faithful, Opens, Loaded
  <2>4. cached = key
    BY DEF Clean, StartDone, Agreed, Faithful
  <2> QED
    BY <2>2, <2>3, <2>4
<1> QED
  BY <1>1, Invariant, PTL
=============================================================================
