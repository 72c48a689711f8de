----------------------------- MODULE RoleCache -----------------------------
(***************************************************************************)
(* Login, account roles and the ten-second cache that decides which        *)
(* requests may write (app/auth.py, app/routes/auth.py, require_login in   *)
(* app/main.py).                                                           *)
(*                                                                         *)
(* A browser has at most one request on its way.  The event loop hands the *)
(* lookup of the roles to a thread (asyncio.to_thread), so lookups of      *)
(* several browsers interleave step by step, and with the handlers that    *)
(* change the table of roles, which are themselves writes that were let    *)
(* through.                                                                *)
(***************************************************************************)
EXTENDS Integers

CONSTANTS
  Users,     \* account ids
  Admin,     \* the built-in account `admin'
  NoUser,    \* the session of nobody
  Directory, \* the accounts the AD authenticates (in the allowed group)
  Browsers,  \* sessions, each with at most one request under way
  TTL,       \* _ROLES_TTL
  MaxTime    \* bound: the clock stops here

ASSUME RoleAssumption ==
  /\ Admin \in Users
  /\ NoUser \notin Users
  /\ Directory \subseteq Users
  /\ TTL \in Nat \ {0}
  /\ MaxTime \in Nat

Roles == {"full_admin", "readonly"}

NoEntry == [at |-> 0, roles |-> {}]

Request(pc, u, write, start, roles) ==
  [pc |-> pc, user |-> u, write |-> write, start |-> start, roles |-> roles]

Requests ==
  [pc : {"idle", "timed", "missed", "read", "resolved", "served", "refused"},
   user : Users \cup {NoUser}, write : BOOLEAN, start : Nat,
   roles : SUBSET Roles]

Idle == Request("idle", NoUser, FALSE, 0, {})

VARIABLES
  now,      \* time.monotonic()
  table,    \* account_roles: pairs of an account and a role
  default,  \* settings.default_role
  cache,    \* _roles_cache: NoEntry, or the roles and the time they are from
  session,  \* the user in the signed cookie of each browser
  req,      \* the request of each browser
  lost,     \* history: when the account last lost the right to write
  lacked    \* history: when a lookup last had to miss full_admin

vars == <<now, table, default, cache, session, req, lost, lacked>>

TypeOK ==
  /\ now \in Nat
  /\ table \subseteq Users \X Roles
  /\ default \in Roles
  /\ cache \in [Users -> [at : Nat, roles : SUBSET Roles]]
  /\ session \in [Browsers -> Users \cup {NoUser}]
  /\ req \in [Browsers -> Requests]
  /\ lost \in [Users -> Int]
  /\ lacked \in [Users -> Int]

(* The roles the table lists for an account; `admin' needs no row.         *)
Listed(u) ==
  IF u = Admin THEN {"full_admin"} ELSE {r \in Roles : <<u, r>> \in table}

(* The account may write: by its row, or because everyone may.             *)
Right(u) == "full_admin" \in Listed(u) \/ default = "full_admin"

Init ==
  /\ now = 0
  /\ table \in SUBSET ((Users \ {Admin}) \X Roles)
  /\ default \in Roles
  /\ cache = [u \in Users |-> NoEntry]
  /\ session = [b \in Browsers |-> NoUser]
  /\ req = [b \in Browsers |-> Idle]
  /\ lost = [u \in Users |-> -TTL]
  /\ lacked = [u \in Users |-> -TTL]

Tick ==
  /\ now < MaxTime
  /\ now' = now + 1
  /\ UNCHANGED <<table, default, cache, session, req, lost, lacked>>

(* login_submit: the local administrator with his password, or an account  *)
(* the AD accepts.  What the session stores of the roles is never read     *)
(* again.                                                                  *)
Login(b, u) ==
  /\ req[b] = Idle
  /\ u \in Directory \cup {Admin}
  /\ session' = [session EXCEPT ![b] = u]
  /\ UNCHANGED <<now, table, default, cache, req, lost, lacked>>

Logout(b) ==
  /\ req[b] = Idle
  /\ session' = [session EXCEPT ![b] = NoUser]
  /\ UNCHANGED <<now, table, default, cache, req, lost, lacked>>

(* require_login hands the lookup to a thread, which first reads the       *)
(* clock.  A request without a session is sent to the login page.          *)
Ask(b, write) ==
  /\ req[b] = Idle
  /\ session[b] # NoUser
  /\ req' = [req EXCEPT ![b] = Request("timed", session[b], write, now, {})]
  /\ UNCHANGED <<now, table, default, cache, session, lost, lacked>>

(* The request goes on with these roles.                                   *)
Goto(b, pc, roles) ==
  req' = [req EXCEPT ![b] = Request(pc, req[b].user, req[b].write,
                                    req[b].start, roles)]

End(b) == req' = [req EXCEPT ![b] = Idle]

(* require_login with the roles of the request: a page is shown and that   *)
(* is all, a write goes on to its handler or is refused.                   *)
Answer(b, roles) ==
  IF ~req[b].write THEN End(b)
  ELSE Goto(b, IF "full_admin" \in roles THEN "served" ELSE "refused", {})

FreshAnyAge(u, t) == cache[u] # NoEntry

(* The entry is looked up after the clock was read.                        *)
Fresh(u, t) == cache[u] # NoEntry /\ t - cache[u].at < TTL

(* resolve_roles_cached.                                                   *)
Hit(b) ==
  /\ req[b].pc = "timed"
  /\ Fresh(req[b].user, req[b].start)
  /\ Answer(b, cache[req[b].user].roles)
  /\ UNCHANGED <<now, table, default, cache, session, lost, lacked>>

Miss(b) ==
  /\ req[b].pc = "timed"
  /\ ~Fresh(req[b].user, req[b].start)
  /\ Goto(b, "missed", {})
  /\ UNCHANGED <<now, table, default, cache, session, lost, lacked>>

(* resolve_roles: the rows of the account are its roles ...                *)
ReadTable(b) ==
  /\ req[b].pc = "missed"
  /\ LET found == Listed(req[b].user) IN
       Goto(b, IF found = {} THEN "read" ELSE "resolved", found)
  /\ UNCHANGED <<now, table, default, cache, session, lost, lacked>>

(* ... or the database fails, which counts as an account without a row ... *)
TableFails(b) ==
  /\ req[b].pc = "missed"
  /\ req[b].user # Admin
  /\ Goto(b, "read", {})
  /\ lacked' = [lacked EXCEPT ![req[b].user] = now]
  /\ UNCHANGED <<now, table, default, cache, session, lost>>

(* ... and an account without a row has the default role.                  *)
ReadDefault(b) ==
  /\ req[b].pc = "read"
  /\ Goto(b, "resolved", {default})
  /\ UNCHANGED <<now, table, default, cache, session, lost, lacked>>

StoreStampedLate(b) ==
  /\ req[b].pc = "resolved"
  /\ cache' = [cache EXCEPT ![req[b].user] =
                 [at |-> now, roles |-> req[b].roles]]
  /\ Answer(b, req[b].roles)
  /\ UNCHANGED <<now, table, default, session, lost, lacked>>

(* The answer is stored under the time at which the lookup began.  A slow  *)
(* thread may so replace a younger entry by an older one.                  *)
Store(b) ==
  /\ req[b].pc = "resolved"
  /\ cache' = [cache EXCEPT ![req[b].user] =
                 [at |-> req[b].start, roles |-> req[b].roles]]
  /\ Answer(b, req[b].roles)
  /\ UNCHANGED <<now, table, default, session, lost, lacked>>

(* A refusal has gone out, or a write ends that touches nothing here.      *)
Finish(b) ==
  /\ req[b].pc \in {"served", "refused"}
  /\ End(b)
  /\ UNCHANGED <<now, table, default, cache, session, lost, lacked>>

(* The handler of a write that was let through.                            *)
Handle(b) ==
  /\ req[b].pc = "served"
  /\ End(b)
  /\ UNCHANGED <<now, cache, session>>

Remember ==
  /\ lost' = [u \in Users |-> IF Right(u) /\ ~Right(u)' THEN now ELSE lost[u]]
  /\ lacked' = [u \in Users |-> IF "full_admin" \in Listed(u)' \ Listed(u)
                                THEN now ELSE lacked[u]]

(* roles_set: one more row, unless the pair is there.                      *)
RolesSet(b, u, r) ==
  /\ Handle(b)
  /\ table' = table \cup {<<u, r>>}
  /\ UNCHANGED default
  /\ Remember

(* roles_delete.                                                           *)
RolesDelete(b, row) ==
  /\ Handle(b)
  /\ table' = table \ {row}
  /\ UNCHANGED default
  /\ Remember

(* settings_save with another default role; an unknown one is readonly.    *)
SetDefault(b, r) ==
  /\ Handle(b)
  /\ default' = r
  /\ UNCHANGED table
  /\ Remember

LookUp(b) ==
  \/ Hit(b) \/ Miss(b) \/ ReadTable(b) \/ TableFails(b)
  \/ ReadDefault(b) \/ Store(b)

Next ==
  \/ Tick
  \/ \E b \in Browsers :
       \/ \E u \in Users : Login(b, u)
       \/ Logout(b)
       \/ \E write \in BOOLEAN : Ask(b, write)
       \/ LookUp(b)
       \/ Finish(b)
       \/ \E u \in Users \ {Admin}, r \in Roles : RolesSet(b, u, r)
       \/ \E row \in table : RolesDelete(b, row)
       \/ \E r \in Roles : SetDefault(b, r)

Spec == Init /\ [][Next]_vars

---------------------------------------------------------------------------
(* A right that is taken away is gone within TTL of the start of a         *)
(* request: whatever threads look up, store late or overwrite, a write is  *)
(* let through only if its account had the right at some time less than    *)
(* TTL before the request began or after that (main.py:146-149,            *)
(* auth.py:96-110).  Everyone has it while default_role is full_admin.     *)
RevokedWithinTTL ==
  \A b \in Browsers :
    req[b].pc = "served" =>
      Right(req[b].user) \/ lost[req[b].user] > req[b].start - TTL

(* A right that is given works within TTL: a write of an account whose row *)
(* says full_admin is refused only if the row is younger than that, or the *)
(* database failed to read it (auth.py:77-88, 96-110).                     *)
GrantedWithinTTL ==
  \A b \in Browsers :
    req[b].pc = "refused" =>
      \/ "full_admin" \notin Listed(req[b].user)
      \/ lacked[req[b].user] > req[b].start - TTL
=============================================================================
