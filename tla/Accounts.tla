------------------------------ MODULE Accounts ------------------------------
(***************************************************************************)
(* Users, sessions, API keys and the budget of failed logins: the store's  *)
(* rows (store/users.go, store/apikeys.go), the handlers that change them  *)
(* (api/auth.go, api/apikeys.go, api/tenants.go), the in-memory throttle   *)
(* (api/throttle.go) and the console command that resets a password        *)
(* (cmd/server/main.go).                                                   *)
(*                                                                         *)
(* A request looks its caller up once, in the middleware, and works on     *)
(* with that answer: every later store call is a step of its own, between  *)
(* which other requests run.  Which password somebody types is not part of *)
(* the model: a check of one may go either way.                            *)
(***************************************************************************)
EXTENDS Naturals, FiniteSets

CONSTANTS
    Tenants, Users,    \* ids, never reused
    Tokens, Keys,      \* session tokens and API keys
    Requests,          \* HTTP requests in flight
    Console,           \* the -reset-password process
    None, Unborn, Gone,
    MaxAuthFailures,   \* maxAuthFailures (10 in the code)
    MaxCounted         \* bound: users with an entry in the throttle at a time

ASSUME AccountsBounds == MaxAuthFailures \in Nat \ {0} /\ MaxCounted \in Nat /\ IsFiniteSet(Requests)
VARIABLES
    up,          \* the server runs
    tenants,     \* tenants that are there
    users,       \* user -> Unborn, Gone or [admin, tenant]
    sessions,    \* token -> None or [user, age]: a row that has not expired
    keys,        \* API key -> None or [user, age]
    entries,     \* throttle: user -> failures in the window, and whether it has passed
    req          \* request -> None or what it does next

(* age: a row is new until the password is set (sessions) or reset by      *)
(* somebody else (keys), which makes it due to be deleted; it is left when *)
(* the request that was to delete it stopped before it did.                *)
vars == <<up, tenants, users, sessions, keys, entries, req>>

UserRow == [admin : BOOLEAN, tenant : Tenants \cup {None}]
Credential == [user : Users, age : {"new", "due", "left"}]
Actors == Requests \cup {Console}
Doing ==
    [op : {"login", "verify", "cookie"}, user : Users]
    \cup [op : {"authed"}, user : Users, admin : BOOLEAN]
    \cup [op : {"update", "drop"}, target : Users, self : BOOLEAN]
    \cup [op : {"revoke"}, target : Users]

(* The nulls are no ids and no rows. *)
ASSUME AccountsNulls ==
    /\ Unborn # Gone /\ Console \notin Requests
    /\ \A n \in {None, Unborn, Gone} :
          n \notin Tenants \cup Users /\ n \notin UserRow /\ n \notin Credential /\ n \notin Doing

there(u) == users[u] \notin {Unborn, Gone}
at(r, op) == req[r] # None /\ req[r].op = op
goto(r, next) == req' = [req EXCEPT ![r] = next]

TypeOK ==
    /\ up \in BOOLEAN /\ tenants \subseteq Tenants
    /\ users \in [Users -> {Unborn, Gone} \cup UserRow]
    /\ sessions \in [Tokens -> {None} \cup Credential]
    /\ keys \in [Keys -> {None} \cup Credential]
    /\ entries \in [Users -> [failures : 0 .. MaxAuthFailures + Cardinality(Requests), passed : BOOLEAN]]
    /\ req \in [Actors -> {None} \cup Doing]

Init ==
    /\ up = FALSE /\ tenants = Tenants
    /\ users = [u \in Users |-> Unborn]
    /\ sessions = [t \in Tokens |-> None] /\ keys = [k \in Keys |-> None]
    /\ entries = [u \in Users |-> [failures |-> 0, passed |-> FALSE]]
    /\ req = [r \in Actors |-> None]

-----------------------------------------------------------------------------
(* The tables. *)
of(f, X) == [i \in DOMAIN f |-> IF f[i] # None /\ f[i].user \in X THEN None ELSE f[i]]
due(f, u) == [i \in DOMAIN f |-> IF f[i] # None /\ f[i].user = u THEN [f[i] EXCEPT !.age = "due"] ELSE f[i]]
left(f, X) ==
    [i \in DOMAIN f |-> IF f[i] # None /\ f[i].user \in X /\ f[i].age = "due"
                       THEN [f[i] EXCEPT !.age = "left"] ELSE f[i]]

(* Users go with everything that is theirs. *)
DeleteUsers(X) ==
    /\ users' = [u \in Users |-> IF u \in X THEN Gone ELSE users[u]]
    /\ sessions' = of(sessions, X)
    /\ keys' = of(keys, X)

CreateUser(u, admin, tenant) ==
    /\ users[u] = Unborn
    /\ tenant \in tenants \cup {None}
    /\ users' = [users EXCEPT ![u] = [admin |-> admin, tenant |-> tenant]]

(* Mutant of CreateSession: the token is stored for whoever it was. *)
CreateSessionUnchecked(t, u) ==
    /\ sessions[t] = None
    /\ sessions' = [sessions EXCEPT ![t] = [user |-> u, age |-> "new"]]

(* The user's row may have gone since the caller read it: the foreign key  *)
(* refuses the session, and the request ends with an error (Fails).        *)
CreateSession(t, u) ==
    /\ sessions[t] = None /\ there(u)
    /\ sessions' = [sessions EXCEPT ![t] = [user |-> u, age |-> "new"]]

CreateAPIKey(k, u) ==
    /\ keys[k] = None /\ there(u)
    /\ keys' = [keys EXCEPT ![k] = [user |-> u, age |-> "new"]]

-----------------------------------------------------------------------------
(* The throttle.  An attempt asks allow before the password is checked and *)
(* reports fail or success after it.  There is one client address.         *)
pruned == [u \in Users |-> IF entries[u].passed THEN [failures |-> 0, passed |-> FALSE] ELSE entries[u]]

(* Mutant of allow: one failure more than the budget. *)
allowOneMore(u) ==
    /\ entries' = pruned
    /\ entries'[u].failures <= MaxAuthFailures

allow(u) ==
    /\ entries' = pruned
    /\ entries'[u].failures < MaxAuthFailures

fail(u) == entries' = [entries EXCEPT ![u] = [pruned[u] EXCEPT !.failures = @ + 1]]

success(u) == entries' = [entries EXCEPT ![u] = [failures |-> 0, passed |-> FALSE]]

(* A minute after the first failure. *)
WindowPasses(u) ==
    /\ entries[u].failures > 0 /\ ~ entries[u].passed
    /\ entries' = [entries EXCEPT ![u].passed = TRUE]
    /\ UNCHANGED <<up, tenants, users, sessions, keys, req>>

(* The attempt, a login or a change of one's own password, is refused      *)
(* before the password is looked at (429).                                 *)
Throttled(r, u) ==
    /\ up /\ req[r] \in {None} \cup [op : {"authed"}, user : {u}, admin : BOOLEAN]
    /\ pruned[u].failures >= MaxAuthFailures
    /\ entries' = pruned
    /\ goto(r, None)
    /\ UNCHANGED <<up, tenants, users, sessions, keys>>

-----------------------------------------------------------------------------
(* handleLogin: the budget, then the row with its hash and the comparison  *)
(* with it, then the session.  A name may be nobody's, yet or any more:    *)
(* its attempts are counted like all others and fail.                      *)
HandleLogin(r, u) ==
    /\ up /\ req[r] = None
    /\ allow(u)
    /\ goto(r, [op |-> "login", user |-> u])
    /\ UNCHANGED <<up, tenants, users, sessions, keys>>

(* logAuthFailure, for a login and for a change of one's own password. *)
LogAuthFailure(r) ==
    /\ at(r, "login") \/ at(r, "verify")
    /\ Cardinality({u \in Users \ {req[r].user} : entries[u].failures > 0}) < MaxCounted
    /\ fail(req[r].user)
    /\ goto(r, None)
    /\ UNCHANGED <<up, tenants, users, sessions, keys>>

LoggedIn(r) ==
    /\ at(r, "login") /\ there(req[r].user)
    /\ success(req[r].user)
    /\ goto(r, [op |-> "cookie", user |-> req[r].user])
    /\ UNCHANGED <<up, tenants, users, sessions, keys>>

(* The session a login or a changed password ends with. *)
GiveSession(r, t) ==
    /\ at(r, "cookie")
    /\ CreateSession(t, req[r].user)
    /\ goto(r, None)
    /\ UNCHANGED <<up, tenants, users, keys, entries>>

(* handleLogout needs no valid session, only the token. *)
HandleLogout(t) ==
    /\ up /\ sessions[t] # None
    /\ sessions' = [sessions EXCEPT ![t] = None]
    /\ UNCHANGED <<up, tenants, users, keys, entries, req>>

(* Seven days after it was made SessionUser no longer finds a session. *)
SessionExpires(t) ==
    /\ sessions[t] # None
    /\ sessions' = [sessions EXCEPT ![t] = None]
    /\ UNCHANGED <<up, tenants, users, keys, entries, req>>

-----------------------------------------------------------------------------
(* auth: a bearer key or a session names the caller; what it read of the   *)
(* caller is handed to the handler.                                        *)
Auth(r, credential) ==
    LET u == credential.user IN
    /\ up /\ req[r] = None
    /\ there(u)
    /\ goto(r, [op |-> "authed", user |-> u, admin |-> users[u].admin])
    /\ UNCHANGED <<up, tenants, users, sessions, keys, entries>>

SessionUser(r, t) == sessions[t] # None /\ Auth(r, sessions[t])
APIKeyUser(r, k) == keys[k] # None /\ Auth(r, keys[k])

(* admin, the second middleware. *)
asAdmin(r) == at(r, "authed") /\ req[r].admin

(* Handlers that only read, and handlers that refuse their input: a short  *)
(* password, an empty name, a taken one.                                   *)
Answered(r) ==
    /\ at(r, "authed")
    /\ goto(r, None)
    /\ UNCHANGED <<up, tenants, users, sessions, keys, entries>>

HandleDeleteTenant(r, t) ==
    /\ asAdmin(r) /\ t \in tenants
    /\ tenants' = tenants \ {t}
    /\ DeleteUsers({u \in Users : there(u) /\ users[u].tenant = t})
    /\ goto(r, None)
    /\ UNCHANGED <<up, entries>>

(* An admin may have a tenant, everybody else must. *)
HandleCreateUser(r, u, admin, tenant) ==
    /\ asAdmin(r)
    /\ admin \/ tenant # None
    /\ CreateUser(u, admin, tenant)
    /\ goto(r, None)
    /\ UNCHANGED <<up, tenants, sessions, keys, entries>>

HandleDeleteUser(r, u) ==
    /\ asAdmin(r)
    /\ u # req[r].user
    /\ there(u)
    /\ DeleteUsers({u})
    /\ goto(r, None)
    /\ UNCHANGED <<up, tenants, entries>>

HandleCreateAPIKey(r, k) ==
    /\ at(r, "authed")
    /\ CreateAPIKey(k, req[r].user)
    /\ goto(r, None)
    /\ UNCHANGED <<up, tenants, users, sessions, entries>>

HandleDeleteAPIKey(r, k) ==
    /\ at(r, "authed")
    /\ keys[k] # None /\ keys[k].user = req[r].user
    /\ keys' = [keys EXCEPT ![k] = None]
    /\ goto(r, None)
    /\ UNCHANGED <<up, tenants, users, sessions, entries>>

-----------------------------------------------------------------------------
(* handleSetPassword.  For one's own user the current password is checked  *)
(* first; for another one the caller has to be an admin.  The user's row   *)
(* may be gone: Authenticate does not find it.                             *)
HandleSetPassword(r, u) ==
    /\ at(r, "authed")
    /\ UNCHANGED <<up, tenants, users, sessions, keys>>
    /\ \/ /\ u = req[r].user
          /\ allow(u)
          /\ goto(r, [op |-> "verify", user |-> u])
       \/ /\ u # req[r].user /\ req[r].admin
          /\ goto(r, [op |-> "update", target |-> u, self |-> FALSE])
          /\ UNCHANGED entries

Verified(r) ==
    /\ at(r, "verify") /\ there(req[r].user)
    /\ success(req[r].user)
    /\ goto(r, [op |-> "update", target |-> req[r].user, self |-> TRUE])
    /\ UNCHANGED <<up, tenants, users, sessions, keys>>

(* resetUserPassword: the same as an admin's reset, from another process. *)
ResetUserPassword(u) ==
    /\ req[Console] = None /\ there(u)
    /\ goto(Console, [op |-> "update", target |-> u, self |-> FALSE])
    /\ UNCHANGED <<up, tenants, users, sessions, keys, entries>>

(* SetPassword, its first statement: nothing is affected when the user is  *)
(* gone, and the request ends (Fails).                                     *)
SetPassword(r) ==
    LET u == req[r].target IN
    /\ at(r, "update") /\ there(u)
    /\ sessions' = due(sessions, u)
    /\ keys' = IF req[r].self THEN keys ELSE due(keys, u)
    /\ goto(r, [op |-> "drop", target |-> u, self |-> req[r].self])
    /\ UNCHANGED <<up, tenants, users, entries>>

(* SetPassword, its second statement, and which way the handler goes on. *)
DropSessions(r) ==
    LET u == req[r].target IN
    /\ at(r, "drop")
    /\ sessions' = of(sessions, {u})
    /\ goto(r, IF req[r].self THEN [op |-> "cookie", user |-> u] ELSE [op |-> "revoke", target |-> u])
    /\ UNCHANGED <<up, tenants, users, keys, entries>>

(* Mutant of DeleteAPIKeysForUser: a reset leaves the keys alone, as a     *)
(* change of one's own password does.                                      *)
KeepAPIKeys(r) ==
    /\ at(r, "revoke")
    /\ goto(r, None)
    /\ UNCHANGED <<up, tenants, users, sessions, keys, entries>>

DeleteAPIKeysForUser(r) ==
    LET u == req[r].target IN
    /\ at(r, "revoke")
    /\ keys' = of(keys, {u})
    /\ goto(r, None)
    /\ UNCHANGED <<up, tenants, users, sessions, entries>>

-----------------------------------------------------------------------------
(* What the requests in R have still to delete is left when they stop. *)
Interrupt(R) ==
    /\ sessions' = left(sessions, {req[r].target : r \in {q \in R : at(q, "drop")}})
    /\ keys' = left(keys, {req[r].target :
                          r \in {q \in R : (at(q, "drop") /\ ~ req[q].self) \/ at(q, "revoke")}})

(* A store call fails, by a foreign key, because the row is gone, or       *)
(* because the database is busy with the other process: the rest of the    *)
(* request is not done.                                                    *)
Fails(r) ==
    /\ req[r] # None /\ req[r].op \notin {"authed", "login", "verify"}
    /\ Interrupt({r})
    /\ goto(r, None)
    /\ UNCHANGED <<up, tenants, users, entries>>

(* The server stops in the middle of what it is doing; the throttle is in  *)
(* its memory.                                                             *)
Stop ==
    /\ up /\ up' = FALSE
    /\ Interrupt(Requests)
    /\ req' = [r \in Actors |-> IF r \in Requests THEN None ELSE req[r]]
    /\ entries' = [u \in Users |-> [failures |-> 0, passed |-> FALSE]]
    /\ UNCHANGED <<tenants, users>>

(* bootstrapAdmin: a database without users gets one, an admin. *)
BootstrapAdmin ==
    /\ ~ up /\ up' = TRUE
    /\ IF \E u \in Users : there(u)
       THEN UNCHANGED users
       ELSE \E u \in Users : CreateUser(u, TRUE, None)
    /\ UNCHANGED <<tenants, sessions, keys, entries, req>>

-----------------------------------------------------------------------------
Steps(r) ==
    \/ LogAuthFailure(r) \/ LoggedIn(r) \/ Answered(r) \/ Verified(r)
    \/ \E t \in Tokens : GiveSession(r, t) \/ SessionUser(r, t)
    \/ \E k \in Keys : APIKeyUser(r, k) \/ HandleCreateAPIKey(r, k) \/ HandleDeleteAPIKey(r, k)
    \/ \E t \in Tenants : HandleDeleteTenant(r, t)
    \/ \E u \in Users :
          \/ HandleLogin(r, u) \/ Throttled(r, u) \/ HandleDeleteUser(r, u) \/ HandleSetPassword(r, u)
          \/ \E admin \in BOOLEAN, t \in Tenants \cup {None} : HandleCreateUser(r, u, admin, t)

Next ==
    \/ Stop \/ BootstrapAdmin
    \/ \E r \in Requests : Steps(r)
    \/ \E r \in Actors : SetPassword(r) \/ DropSessions(r) \/ DeleteAPIKeysForUser(r) \/ Fails(r)
    \/ \E u \in Users : WindowPasses(u) \/ ResetUserPassword(u)
    \/ \E t \in Tokens : HandleLogout(t) \/ SessionExpires(t)

Spec == Init /\ [][Next]_vars

-----------------------------------------------------------------------------
(* A session or a key belongs to a user that is there, whatever was deleted *)
(* while the request that made it was under way (sessions.user_id,         *)
(* api_keys.user_id).                                                      *)
NoOrphanCredentials ==
    /\ \A t \in Tokens : sessions[t] # None => there(sessions[t].user)
    /\ \A k \in Keys : keys[k] # None => there(keys[k].user)

(* Setting a password drops the user's sessions, and a reset by somebody   *)
(* else the API keys: what was there before outlives it only while the     *)
(* request is between its statements, or when one of them did not run      *)
(* (users.go: "so a reset actually locks out whoever was logged in").  Two *)
(* changes of one user's password at a time are no exception.              *)
LockedOut ==
    /\ \A t \in Tokens : sessions[t] # None /\ sessions[t].age = "due" =>
          \E r \in Actors : at(r, "drop") /\ req[r].target = sessions[t].user
    /\ \A k \in Keys : keys[k] # None /\ keys[k].age = "due" =>
          \E r \in Actors :
              /\ (at(r, "drop") /\ ~ req[r].self) \/ at(r, "revoke")
              /\ req[r].target = keys[k].user

(* The budget: attempts that were allowed before the others had failed are *)
(* all that can come on top of it (throttle.go, allow and fail are two     *)
(* critical sections with the password check between them).                *)
ThrottleBound ==
    \A u \in Users : entries[u].failures <= MaxAuthFailures + Cardinality(Requests) - 1
=============================================================================
