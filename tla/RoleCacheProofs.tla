-------------------------- MODULE RoleCacheProofs --------------------------
(***************************************************************************)
(* What the role cache promises holds for every set of accounts and        *)
(* browsers, every TTL and however long the program runs.                  *)
(*                                                                         *)
(* The properties look at the moment of the decision, which rests on an    *)
(* answer that a thread got, or another thread left in the cache, earlier. *)
(* The invariant says what such an answer is worth: it was right at some   *)
(* time not before the time it is stamped with.                            *)
(***************************************************************************)
EXTENDS RoleCache, TLAPS

(* The account had the right at some time not before t.                    *)
HadRight(u, t) == Right(u) \/ lost[u] >= t

(* The account's row was missing, or not found, at some time not before t. *)
HadNoRow(u, t) == "full_admin" \notin Listed(u) \/ lacked[u] >= t

(* What the decision is worth that a request holds.                        *)
Sound(r) ==
  /\ r.start <= now
  /\ r.pc # "idle" => r.user \in Users
  /\ r.pc # "resolved" => "full_admin" \notin r.roles
  /\ (r.pc = "resolved" /\ "full_admin" \in r.roles) =>
       HadRight(r.user, r.start)
  /\ (r.pc \in {"read", "resolved"} /\ "full_admin" \notin r.roles) =>
       HadNoRow(r.user, r.start)
  /\ r.pc = "served" => HadRight(r.user, r.start - TTL + 1)
  /\ r.pc = "refused" => HadNoRow(r.user, r.start - TTL + 1)

(* What the entry of an account is worth.                                  *)
SoundEntry(u, e) ==
  /\ e.at <= now
  /\ "full_admin" \in e.roles => HadRight(u, e.at)
  /\ (e # NoEntry /\ "full_admin" \notin e.roles) => HadNoRow(u, e.at)

Inv ==
  /\ TypeOK
  /\ \A b \in Browsers : Sound(req[b])
  /\ \A u \in Users : SoundEntry(u, cache[u])

---------------------------------------------------------------------------
(* Types are kept by every step.                                           *)
LEMMA TypeStep == TypeOK /\ [Next]_vars => TypeOK'
<1> SUFFICES ASSUME TypeOK, [Next]_vars PROVE TypeOK'
  OBVIOUS
<1> USE RoleAssumption DEF TypeOK, Roles, Requests, Idle, Request, Goto, End
<1>1. CASE Tick
  BY <1>1 DEF Tick
<1>2. ASSUME NEW b \in Browsers, NEW u \in Users, Login(b, u) PROVE TypeOK'
  BY <1>2 DEF Login
<1>3. ASSUME NEW b \in Browsers, Logout(b) PROVE TypeOK'
  BY <1>3 DEF Logout
<1>4. ASSUME NEW b \in Browsers, NEW write \in BOOLEAN, Ask(b, write)
      PROVE TypeOK'
  BY <1>4 DEF Ask
<1>5. ASSUME NEW b \in Browsers, NEW roles, Answer(b, roles)
      PROVE req' \in [Browsers -> Requests]
  <2>1. CASE End(b)
    BY <2>1
  <2>2. CASE Goto(b, "served", {})
    BY <2>2
  <2>3. CASE Goto(b, "refused", {})
    BY <2>3
  <2> QED
    BY <1>5, <2>1, <2>2, <2>3, Zenon DEF Answer
<1>6. ASSUME NEW b \in Browsers, Hit(b) PROVE TypeOK'
  BY <1>5, <1>6 DEF Hit
<1>7. ASSUME NEW b \in Browsers, Miss(b) PROVE TypeOK'
  BY <1>7 DEF Miss
<1>8. ASSUME NEW b \in Browsers, ReadTable(b) PROVE TypeOK'
  BY <1>8 DEF ReadTable, Listed
<1>9. ASSUME NEW b \in Browsers, TableFails(b) PROVE TypeOK'
  <2>1. req' \in [Browsers -> Requests]
    BY <1>9 DEF TableFails
  <2>2. lacked' \in [Users -> Int]
    <3>1. lacked' = [lacked EXCEPT ![req[b].user] = now]
      BY <1>9 DEF TableFails
    <3>2. lacked \in [Users -> Int] /\ now \in Int
      OBVIOUS
    <3> QED
      BY ONLY <3>1, <3>2
  <2>3. UNCHANGED <<now, table, default, cache, session, lost>>
    BY <1>9 DEF TableFails
  <2> QED
    BY <2>1, <2>2, <2>3
<1>10. ASSUME NEW b \in Browsers, ReadDefault(b) PROVE TypeOK'
  BY <1>10 DEF ReadDefault
<1>11. ASSUME NEW b \in Browsers, Store(b) PROVE TypeOK'
  BY <1>5, <1>11 DEF Store
<1>12. ASSUME NEW b \in Browsers, Finish(b) PROVE TypeOK'
  BY <1>12 DEF Finish
<1>13. ASSUME Remember PROVE lost' \in [Users -> Int] /\ lacked' \in [Users -> Int]
  BY <1>13 DEF Remember
<1>14. ASSUME NEW b \in Browsers, NEW u \in Users, NEW r \in Roles,
              RolesSet(b, u, r) PROVE TypeOK'
  BY <1>13, <1>14 DEF RolesSet, Handle
<1>15. ASSUME NEW b \in Browsers, NEW row \in table, RolesDelete(b, row)
       PROVE TypeOK'
  BY <1>13, <1>15 DEF RolesDelete, Handle
<1>16. ASSUME NEW b \in Browsers, NEW r \in Roles, SetDefault(b, r)
       PROVE TypeOK'
  BY <1>13, <1>16 DEF SetDefault, Handle
<1>17. CASE UNCHANGED vars
  BY <1>17 DEF vars
<1> QED
  BY <1>1, <1>2, <1>3, <1>4, <1>6, <1>7, <1>8, <1>9, <1>10, <1>11, <1>12,
     <1>14, <1>15, <1>16, <1>17 DEF Next, LookUp

(* How the history of rights keeps up with the changes of a handler.       *)
LEMMA HistoryStep ==
  ASSUME TypeOK, Remember, NEW u \in Users, NEW t \in Int, t <= now
  PROVE  /\ HadRight(u, t) => HadRight(u, t)'
         /\ HadNoRow(u, t) => HadNoRow(u, t)'
<1>1. lost' = [v \in Users |-> IF Right(v) /\ ~Right(v)' THEN now ELSE lost[v]]
  BY DEF Remember
<1>2. lacked' = [v \in Users |-> IF "full_admin" \in Listed(v)' \ Listed(v)
                                THEN now ELSE lacked[v]]
  BY DEF Remember
<1>3. lost'[u] = IF Right(u) /\ ~Right(u)' THEN now ELSE lost[u]
  BY <1>1
<1>4. lacked'[u] = IF "full_admin" \in Listed(u)' \ Listed(u)
                   THEN now ELSE lacked[u]
  BY <1>2
<1>5. HadRight(u, t) => HadRight(u, t)'
  BY <1>3 DEF HadRight, TypeOK
<1>6. HadNoRow(u, t) => HadNoRow(u, t)'
  BY <1>4 DEF HadNoRow, TypeOK
<1> QED
  BY <1>5, <1>6

(* Rights only grow older or newer, never vanish from the history.         *)
Keeps ==
  /\ now' >= now
  /\ \A u \in Users, t \in Int : t <= now =>
       /\ HadRight(u, t) => HadRight(u, t)'
       /\ HadNoRow(u, t) => HadNoRow(u, t)'

(* What was worth something stays so.                                      *)
LEMMA StillSound ==
  ASSUME TypeOK, TypeOK', Keeps
  PROVE  /\ \A r \in Requests : Sound(r) => Sound(r)'
         /\ \A u \in Users, e \in [at : Nat, roles : SUBSET Roles] :
              SoundEntry(u, e) => SoundEntry(u, e)'
<1>1. ASSUME NEW r \in Requests, Sound(r) PROVE Sound(r)'
  <2>1. r.start \in Nat /\ r.start <= now /\ now \in Nat
        /\ now' \in Nat /\ now' >= now
    BY <1>1 DEF Sound, Requests, TypeOK, Keeps
  <2>2. r.start - TTL + 1 \in Int /\ r.start - TTL + 1 <= now
    BY <2>1, RoleAssumption
  <2>3. r.pc # "idle" =>
          /\ HadRight(r.user, r.start) => HadRight(r.user, r.start)'
          /\ HadNoRow(r.user, r.start) => HadNoRow(r.user, r.start)'
    BY <1>1, <2>1 DEF Keeps, Sound
  <2>4. r.pc # "idle" =>
          /\ HadRight(r.user, r.start - TTL + 1) =>
               HadRight(r.user, r.start - TTL + 1)'
          /\ HadNoRow(r.user, r.start - TTL + 1) =>
               HadNoRow(r.user, r.start - TTL + 1)'
    BY <1>1, <2>2 DEF Keeps, Sound
  <2>5. r.start <= now'
    BY <2>1
  <2> QED
    BY <1>1, <2>3, <2>4, <2>5 DEF Sound
<1>2. ASSUME NEW u \in Users, NEW e \in [at : Nat, roles : SUBSET Roles],
             SoundEntry(u, e)
      PROVE  SoundEntry(u, e)'
  BY <1>2 DEF SoundEntry, Keeps, TypeOK
<1> QED
  BY <1>1, <1>2

(* Every step is kept by the history.                                      *)
LEMMA KeepsStep == TypeOK /\ [Next]_vars => Keeps
<1> SUFFICES ASSUME TypeOK, [Next]_vars PROVE Keeps
  OBVIOUS
<1>1. ASSUME UNCHANGED <<table, default, lost, lacked>>,
             now' \in Nat, now' >= now
      PROVE  Keeps
  BY <1>1 DEF Keeps, HadRight, HadNoRow, Right, Listed
<1>2. ASSUME NEW b \in Browsers, TableFails(b) PROVE Keeps
  <2>1. UNCHANGED <<now, table, default, lost>>
    BY <1>2 DEF TableFails
  <2>2. \A u \in Users : lacked'[u] = lacked[u] \/ lacked'[u] = now
    BY <1>2 DEF TableFails, TypeOK
  <2> QED
    BY <2>1, <2>2 DEF Keeps, HadRight, HadNoRow, Right, Listed, TypeOK
<1>3. ASSUME Remember, now' = now PROVE Keeps
  BY <1>3, HistoryStep DEF Keeps, TypeOK
<1>4. ASSUME NEW b \in Browsers, LookUp(b), ~TableFails(b) PROVE Keeps
  BY <1>1, <1>4 DEF LookUp, Hit, Miss, ReadTable, ReadDefault, Store, TypeOK
<1>5. ASSUME NEW b \in Browsers,
             \/ \E u \in Users \ {Admin}, r \in Roles : RolesSet(b, u, r)
             \/ \E row \in table : RolesDelete(b, row)
             \/ \E r \in Roles : SetDefault(b, r)
      PROVE  Keeps
  BY <1>3, <1>5 DEF RolesSet, RolesDelete, SetDefault, Handle
<1>6. ASSUME NEW b \in Browsers,
             \/ \E u \in Users : Login(b, u)
             \/ Logout(b)
             \/ \E write \in BOOLEAN : Ask(b, write)
             \/ Finish(b)
      PROVE  Keeps
  BY <1>1, <1>6 DEF Login, Logout, Ask, Finish, TypeOK
<1>7. CASE Tick
  BY <1>1, <1>7 DEF Tick, TypeOK
<1>8. CASE UNCHANGED vars
  BY <1>1, <1>8 DEF vars, TypeOK
<1> QED
  BY <1>2, <1>4, <1>5, <1>6, <1>7, <1>8 DEF Next

(* A step keeps the invariant if what requests come to hold, and what is   *)
(* left in the cache, is worth something.                                  *)
LEMMA SoundStep ==
  ASSUME Inv, TypeOK', Keeps,
         \A b \in Browsers : req'[b] = req[b] \/ Sound(req[b])',
         \A u \in Users : cache'[u] = cache[u] \/ SoundEntry(u, cache[u])'
  PROVE  Inv'
<1>1. ASSUME NEW b \in Browsers, req'[b] = req[b] PROVE Sound(req[b])'
  <2>1. req[b] \in Requests /\ Sound(req[b])
    BY DEF Inv, TypeOK
  <2>2. ASSUME NEW r \in Requests, Sound(r), req'[b] = r
        PROVE  Sound(req[b])'
    <3>1. Sound(r)'
      BY <2>2, StillSound DEF Inv
    <3> QED
      BY <2>2, <3>1 DEF Sound, HadRight, HadNoRow, Right, Listed
  <2> QED
    BY <1>1, <2>1, <2>2
<1>2. ASSUME NEW u \in Users, cache'[u] = cache[u] PROVE SoundEntry(u, cache[u])'
  <2>1. cache[u] \in [at : Nat, roles : SUBSET Roles] /\ SoundEntry(u, cache[u])
    BY DEF Inv, TypeOK
  <2>2. ASSUME NEW e \in [at : Nat, roles : SUBSET Roles],
               SoundEntry(u, e), cache'[u] = e
        PROVE  SoundEntry(u, cache[u])'
    <3>1. SoundEntry(u, e)'
      BY <2>2, StillSound DEF Inv
    <3> QED
      BY <2>2, <3>1 DEF SoundEntry, HadRight, HadNoRow, Right, Listed
  <2> QED
    BY <1>2, <2>1, <2>2
<1> QED
  BY <1>1, <1>2 DEF Inv

(* Every step keeps the invariant.                                         *)
LEMMA InvStep == Inv /\ [Next]_vars => Inv'
<1> SUFFICES ASSUME Inv, [Next]_vars PROVE Inv'
  OBVIOUS
<1> DEFINE CacheKept ==
             \A v \in Users : cache'[v] = cache[v] \/ SoundEntry(v, cache[v])'
<1>1. TypeOK /\ TypeOK' /\ Keeps
  BY TypeStep, KeepsStep DEF Inv
<1>2. ASSUME UNCHANGED <<cache, req>> PROVE Inv'
  BY <1>1, <1>2, SoundStep
<1>3. ASSUME NEW b \in Browsers, CacheKept,
             \A c \in Browsers \ {b} : req'[c] = req[c], Sound(req[b])'
      PROVE  Inv'
  BY <1>1, <1>3, SoundStep
<1>4. ASSUME NEW b \in Browsers, End(b)
      PROVE  (\A c \in Browsers \ {b} : req'[c] = req[c]) /\ Sound(req[b])'
  BY <1>1, <1>4 DEF End, Idle, Request, Sound, TypeOK, Roles
<1>5. ASSUME NEW b \in Browsers, NEW pc, NEW roles, Goto(b, pc, roles)
      PROVE  /\ \A c \in Browsers \ {b} : req'[c] = req[c]
             /\ req'[b] = Request(pc, req[b].user, req[b].write,
                                  req[b].start, roles)
  BY <1>1, <1>5 DEF Goto, TypeOK
<1>6. ASSUME NEW b \in Browsers, NEW r, Sound(r)', req'[b] = r
      PROVE  Sound(req[b])'
  BY <1>6 DEF Sound, HadRight, HadNoRow, Right, Listed
<1>7. ASSUME NEW b \in Browsers, Ask(b, TRUE) \/ Ask(b, FALSE) PROVE Inv'
  <2>1. Sound(req[b])'
    BY <1>1, <1>7 DEF Ask, Request, Sound, TypeOK
  <2>2. UNCHANGED cache /\ \A c \in Browsers \ {b} : req'[c] = req[c]
    BY <1>1, <1>7 DEF Ask, TypeOK
  <2> QED
    BY <1>3, <2>1, <2>2
<1>8. ASSUME NEW b \in Browsers, NEW pc, NEW roles, NEW u, NEW t,
             u = req[b].user, t = req[b].start,
             Goto(b, pc, roles), CacheKept,
             Sound(Request(pc, u, FALSE, t, roles))'
      PROVE  Inv'
  <2>1. \A c \in Browsers \ {b} : req'[c] = req[c]
    BY <1>5, <1>8
  <2>2. req'[b] = Request(pc, u, req[b].write, t, roles)
    BY <1>5, <1>8
  <2>3. Sound(req[b])'
    BY <1>8, <2>2 DEF Request, Sound, HadRight, HadNoRow, Right, Listed
  <2> QED
    BY <1>3, <1>8, <2>1, <2>3
<1>9. ASSUME NEW b \in Browsers, NEW u, NEW t,
             u = req[b].user, t = req[b].start
      PROVE  LookUp(b) \/ Finish(b) => Inv'
  <2>1. t \in Nat /\ t <= now /\ (req[b].pc # "idle" => u \in Users)
    BY <1>1, <1>9 DEF Inv, Sound, TypeOK, Requests
  <2>2. ASSUME Miss(b) PROVE Inv'
    <3>1. req[b].pc = "timed" /\ Goto(b, "missed", {})
          /\ UNCHANGED <<now, cache>>
      BY <2>2 DEF Miss
    <3>2. Sound(Request("missed", u, FALSE, t, {}))'
      BY <2>1, <3>1 DEF Request, Sound
    <3> QED
      BY <1>8, <1>9, <3>1, <3>2
  <2>3. ASSUME TableFails(b) PROVE Inv'
    <3>1. req[b].pc = "missed" /\ Goto(b, "read", {})
          /\ UNCHANGED <<now, cache>>
          /\ lacked' = [lacked EXCEPT ![u] = now]
      BY <1>9, <2>3 DEF TableFails
    <3>2. lacked'[u] >= t
      BY <1>1, <2>1, <3>1 DEF TypeOK
    <3>3. Sound(Request("read", u, FALSE, t, {}))'
      BY <2>1, <3>1, <3>2 DEF Request, Sound, HadNoRow
    <3> QED
      BY <1>8, <1>9, <3>1, <3>3
  <2>4. ASSUME ReadTable(b) PROVE Inv'
    <3>1. PICK pc \in {"read", "resolved"} :
            /\ req[b].pc = "missed" /\ Goto(b, pc, Listed(u))
            /\ (pc = "read") <=> (Listed(u) = {})
            /\ UNCHANGED <<now, table, default, cache, lost, lacked>>
      BY <1>9, <2>4 DEF ReadTable
    <3>2. Sound(Request(pc, u, FALSE, t, Listed(u)))'
      BY <2>1, <3>1 DEF Request, Sound, HadRight, HadNoRow, Right, Listed
    <3>3. Listed(u)' = Listed(u)
      BY <3>1 DEF Listed
    <3> QED
      BY <1>8, <1>9, <3>1, <3>2, <3>3
  <2>5. ASSUME ReadDefault(b) PROVE Inv'
    <3>1. req[b].pc = "read" /\ Goto(b, "resolved", {default})
          /\ UNCHANGED <<now, table, default, cache, lost, lacked>>
      BY <2>5 DEF ReadDefault
    <3>2. HadNoRow(u, t)
      BY <1>9, <3>1 DEF Inv, Sound
    <3>3. "full_admin" \in {default} => HadRight(u, t)
      BY DEF HadRight, Right
    <3>4. Sound(Request("resolved", u, FALSE, t, {default}))'
      BY <2>1, <3>1, <3>2, <3>3
         DEF Request, Sound, HadRight, HadNoRow, Right, Listed
    <3> QED
      BY <1>8, <1>9, <3>1, <3>4
  <2>6. ASSUME NEW roles \in SUBSET Roles, Answer(b, roles), CacheKept,
               UNCHANGED <<now, table, default, lost, lacked>>,
               u \in Users,
               "full_admin" \in roles => HadRight(u, t - TTL + 1),
               "full_admin" \notin roles => HadNoRow(u, t - TTL + 1)
        PROVE  Inv'
    <3>1. CASE End(b)
      BY <1>3, <1>4, <2>6, <3>1
    <3>2. CASE Goto(b, "served", {}) /\ "full_admin" \in roles
      <4>1. Sound(Request("served", u, FALSE, t, {}))'
        BY <2>1, <2>6, <3>2 DEF Request, Sound, HadRight, Right, Listed
      <4> QED
        BY <1>8, <1>9, <2>6, <3>2, <4>1
    <3>3. CASE Goto(b, "refused", {}) /\ "full_admin" \notin roles
      <4>1. Sound(Request("refused", u, FALSE, t, {}))'
        BY <2>1, <2>6, <3>3 DEF Request, Sound, HadNoRow, Listed
      <4> QED
        BY <1>8, <1>9, <2>6, <3>3, <4>1
    <3> QED
      BY <2>6, <3>1, <3>2, <3>3, Zenon DEF Answer
  <2>7. ASSUME Hit(b) PROVE Inv'
    <3>1. req[b].pc = "timed" /\ Fresh(u, t) /\ Answer(b, cache[u].roles)
          /\ UNCHANGED <<now, table, default, cache, lost, lacked>>
      BY <1>9, <2>7 DEF Hit
    <3>2. u \in Users
      BY <2>1, <3>1
    <3>3. SoundEntry(u, cache[u]) /\ cache[u] # NoEntry
          /\ cache[u].at \in Nat /\ cache[u].roles \in SUBSET Roles
          /\ t - TTL + 1 <= cache[u].at
      BY <1>1, <2>1, <3>1, <3>2, RoleAssumption DEF Inv, Fresh, TypeOK
    <3>4. "full_admin" \in cache[u].roles => HadRight(u, t - TTL + 1)
      BY <1>1, <2>1, <3>2, <3>3, RoleAssumption DEF SoundEntry, HadRight, TypeOK
    <3>5. "full_admin" \notin cache[u].roles => HadNoRow(u, t - TTL + 1)
      BY <1>1, <2>1, <3>2, <3>3, RoleAssumption DEF SoundEntry, HadNoRow, TypeOK
    <3> QED
      BY <2>6, <3>1, <3>2, <3>3, <3>4, <3>5
  <2>8. ASSUME Store(b) PROVE Inv'
    <3>1. req[b].pc = "resolved" /\ Answer(b, req[b].roles)
          /\ cache' = [cache EXCEPT ![u] = [at |-> t, roles |-> req[b].roles]]
          /\ UNCHANGED <<now, table, default, lost, lacked>>
      BY <1>9, <2>8 DEF Store
    <3>2. u \in Users /\ req[b].roles \in SUBSET Roles /\ Sound(req[b])
      BY <1>1, <2>1, <3>1 DEF Inv, TypeOK, Requests
    <3>3. "full_admin" \in req[b].roles => HadRight(u, t)
      BY <1>9, <3>1, <3>2 DEF Sound
    <3>4. "full_admin" \notin req[b].roles => HadNoRow(u, t)
      BY <1>9, <3>1, <3>2 DEF Sound
    <3>5. ASSUME NEW v \in Users
          PROVE  cache'[v] = cache[v] \/ SoundEntry(v, cache[v])'
      <4>1. CASE v # u
        BY <1>1, <3>1, <4>1 DEF TypeOK
      <4>2. CASE v = u
        <5>1. cache'[u] = [at |-> t, roles |-> req[b].roles]
          BY <1>1, <3>1, <3>2 DEF TypeOK
        <5> QED
          BY <2>1, <3>1, <3>3, <3>4, <4>2, <5>1
             DEF SoundEntry, HadRight, HadNoRow, Right, Listed
      <4> QED
        BY <4>1, <4>2
    <3> lost[u] \in Int /\ lacked[u] \in Int /\ t - TTL + 1 \in Int
        /\ t - TTL + 1 <= t
      BY <1>1, <2>1, <3>2, RoleAssumption DEF TypeOK
    <3>6. "full_admin" \in req[b].roles => HadRight(u, t - TTL + 1)
      BY <2>1, <3>3 DEF HadRight
    <3>7. "full_admin" \notin req[b].roles => HadNoRow(u, t - TTL + 1)
      BY <2>1, <3>4 DEF HadNoRow
    <3>8. CacheKept
      BY <3>5
    <3> HIDE DEF CacheKept
    <3> QED
      BY <2>6, <3>1, <3>2, <3>6, <3>7, <3>8
  <2>9. ASSUME Finish(b) PROVE Inv'
    BY <1>3, <1>4, <2>9 DEF Finish
  <2> QED
    BY <2>2, <2>3, <2>4, <2>5, <2>7, <2>8, <2>9 DEF LookUp
<1>10. ASSUME NEW b \in Browsers,
              \/ \E u \in Users \ {Admin}, r \in Roles : RolesSet(b, u, r)
              \/ \E row \in table : RolesDelete(b, row)
              \/ \E r \in Roles : SetDefault(b, r)
       PROVE  Inv'
  <2>1. End(b) /\ UNCHANGED cache
    BY <1>10 DEF RolesSet, RolesDelete, SetDefault, Handle
  <2> QED
    BY <1>3, <1>4, <2>1
<1>11. ASSUME \/ Tick
              \/ \E b \in Browsers, u \in Users : Login(b, u)
              \/ \E b \in Browsers : Logout(b)
              \/ UNCHANGED vars
       PROVE  Inv'
  BY <1>2, <1>11 DEF Tick, Login, Logout, vars
<1> QED
  BY <1>7, <1>9, <1>10, <1>11 DEF Next

(* The invariant gives both properties.                                    *)
LEMMA InvImplies == Inv => RevokedWithinTTL /\ GrantedWithinTTL
<1> SUFFICES ASSUME Inv PROVE RevokedWithinTTL /\ GrantedWithinTTL
  OBVIOUS
<1> USE RoleAssumption DEF Inv, TypeOK, Requests
<1>1. ASSUME NEW b \in Browsers, req[b].pc = "served"
      PROVE  Right(req[b].user) \/ lost[req[b].user] > req[b].start - TTL
  BY <1>1 DEF Sound, HadRight
<1>2. ASSUME NEW b \in Browsers, req[b].pc = "refused"
      PROVE  \/ "full_admin" \notin Listed(req[b].user)
             \/ lacked[req[b].user] > req[b].start - TTL
  BY <1>2 DEF Sound, HadNoRow
<1> QED
  BY <1>1, <1>2 DEF RevokedWithinTTL, GrantedWithinTTL

(* It holds at the start, before anything was looked up.                   *)
LEMMA InvInit == Init => Inv
  BY RoleAssumption DEF Init, Inv, TypeOK, Roles, Requests, Idle, Request,
     NoEntry, Sound, SoundEntry

(* A write is let through only on a right that the account had at some     *)
(* time less than TTL before the request, whatever lookups, failures and   *)
(* changes of the roles interleave.                                        *)
THEOREM Revocation == Spec => []RevokedWithinTTL
<1>1. Init => Inv
  BY InvInit
<1>2. Inv /\ [Next]_vars => Inv'
  BY InvStep
<1>3. Inv => RevokedWithinTTL
  BY InvImplies
<1> QED
  BY <1>1, <1>2, <1>3, PTL DEF Spec

(* A write of a full_admin is refused only if the row is younger than TTL, *)
(* or could not be read within that time.                                  *)
THEOREM Granting == Spec => []GrantedWithinTTL
<1>1. Init => Inv
  BY InvInit
<1>2. Inv /\ [Next]_vars => Inv'
  BY InvStep
<1>3. Inv => GrantedWithinTTL
  BY InvImplies
<1> QED
  BY <1>1, <1>2, <1>3, PTL DEF Spec
=============================================================================
