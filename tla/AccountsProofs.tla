--------------------------- MODULE AccountsProofs --------------------------
(***************************************************************************)
(* Accounts proved for any tenants, users, credentials and requests: no    *)
(* credential without its user, no credential that a completed change of   *)
(* the password should have removed, and a bounded number of failed        *)
(* attempts.                                                               *)
(***************************************************************************)
EXTENDS Accounts, FiniteSetTheorems, TLAPS

-----------------------------------------------------------------------------
Typed ==
    /\ up \in BOOLEAN /\ tenants \subseteq Tenants
    /\ users \in [Users -> {Unborn, Gone} \cup UserRow]
    /\ sessions \in [Tokens -> {None} \cup Credential]
    /\ keys \in [Keys -> {None} \cup Credential]
    /\ entries \in [Users -> [failures : Nat, passed : BOOLEAN]]
    /\ req \in [Actors -> {None} \cup Doing]

(* Attempts between allow and the outcome of the password check. *)
Attempts(u) ==
    {r \in Requests : req[r] # None /\ req[r].op \in {"login", "verify"} /\ req[r].user = u}

(* Every attempt under way may still fail: the failures that are counted   *)
(* and those that may come stay within the budget and one per request.     *)
Budget ==
    \A u \in Users :
        entries[u].failures + Cardinality(Attempts(u)) <= MaxAuthFailures + Cardinality(Requests) - 1

(* What the middleware handed on is still true of a caller that is there:  *)
(* nobody is made an admin or ceases to be one.                            *)
CallersTrue ==
    \A r \in Requests : at(r, "authed") =>
        /\ users[req[r].user] # Unborn
        /\ there(req[r].user) => users[req[r].user].admin = req[r].admin

IInv == Typed /\ NoOrphanCredentials /\ LockedOut /\ Budget /\ CallersTrue

-----------------------------------------------------------------------------
(* Lemma: the fields of what a request does next. *)
LEMMA DoingFields ==
    ASSUME NEW w \in Doing
    PROVE  /\ w.op \in {"login", "verify", "cookie", "authed", "update", "drop", "revoke"}
           /\ w.op \in {"login", "verify", "cookie", "authed"} => w.user \in Users
           /\ w.op = "authed" => w.admin \in BOOLEAN
           /\ w.op \in {"update", "drop", "revoke"} => w.target \in Users
           /\ w.op \in {"update", "drop"} => w.self \in BOOLEAN
BY DEF Doing

(* Lemma: what the handlers go on to. *)
LEMMA DoingNext ==
    ASSUME NEW u \in Users, NEW b \in BOOLEAN
    PROVE  /\ [op |-> "login", user |-> u] \in Doing
           /\ [op |-> "verify", user |-> u] \in Doing
           /\ [op |-> "cookie", user |-> u] \in Doing
           /\ [op |-> "authed", user |-> u, admin |-> b] \in Doing
           /\ [op |-> "update", target |-> u, self |-> b] \in Doing
           /\ [op |-> "drop", target |-> u, self |-> b] \in Doing
           /\ [op |-> "revoke", target |-> u] \in Doing
BY DEF Doing

(* Lemma: a credential made older is a credential of the same user. *)
LEMMA Older ==
    ASSUME NEW c \in Credential, NEW a \in {"due", "left"}
    PROVE  /\ [c EXCEPT !.age = a] \in Credential
           /\ [c EXCEPT !.age = a].user = c.user /\ [c EXCEPT !.age = a].age = a
           /\ [c EXCEPT !.age = a] # None /\ c # None
<1>1. /\ [c EXCEPT !.age = a] \in Credential
      /\ [c EXCEPT !.age = a].user = c.user /\ [c EXCEPT !.age = a].age = a
  BY DEF Credential
<1> QED BY <1>1, AccountsNulls

(* Lemmas: the tables of credentials keep their type, and what becomes of  *)
(* each credential.                                                        *)
LEMMA OfTable ==
    ASSUME NEW I, NEW f \in [I -> {None} \cup Credential], NEW X
    PROVE  /\ of(f, X) \in [I -> {None} \cup Credential]
           /\ \A i \in I : of(f, X)[i] = IF f[i] # None /\ f[i].user \in X THEN None ELSE f[i]
BY DEF of

(* Marking the credentials of a user as due for the deletion leaves every row in place with its user. *)
LEMMA DueTable ==
    ASSUME NEW I, NEW f \in [I -> {None} \cup Credential], NEW u
    PROVE  /\ due(f, u) \in [I -> {None} \cup Credential]
           /\ \A i \in I :
                 /\ (due(f, u)[i] = None) = (f[i] = None)
                 /\ f[i] # None => /\ due(f, u)[i].user = f[i].user
                                   /\ due(f, u)[i].age = IF f[i].user = u THEN "due" ELSE f[i].age
<1>1. due(f, u) \in [I -> {None} \cup Credential]
  BY Older DEF due
<1>2. \A i \in I : due(f, u)[i] = IF f[i] # None /\ f[i].user = u THEN [f[i] EXCEPT !.age = "due"] ELSE f[i]
  BY DEF due
<1>3. \A c \in Credential : /\ [c EXCEPT !.age = "due"].user = c.user /\ [c EXCEPT !.age = "due"].age = "due"
                            /\ [c EXCEPT !.age = "due"] # None
  BY Older
<1>4. ASSUME NEW i \in I
      PROVE  /\ (due(f, u)[i] = None) = (f[i] = None)
             /\ f[i] # None => /\ due(f, u)[i].user = f[i].user
                               /\ due(f, u)[i].age = IF f[i].user = u THEN "due" ELSE f[i].age
  <2>1. CASE f[i] = None
    BY <1>2, <2>1
  <2>2. CASE f[i] \in Credential
    BY <1>2, <1>3, <2>2, AccountsNulls
  <2> QED BY <2>1, <2>2
<1> QED BY <1>1, <1>4

(* Giving up on the deletions of the users X turns their due rows into left ones and touches no other row. *)
LEMMA LeftTable ==
    ASSUME NEW I, NEW f \in [I -> {None} \cup Credential], NEW X
    PROVE  /\ left(f, X) \in [I -> {None} \cup Credential]
           /\ \A i \in I :
                 /\ (left(f, X)[i] = None) = (f[i] = None)
                 /\ f[i] # None => /\ left(f, X)[i].user = f[i].user
                                   /\ left(f, X)[i].age = IF f[i].user \in X /\ f[i].age = "due"
                                                          THEN "left" ELSE f[i].age
<1>1. left(f, X) \in [I -> {None} \cup Credential]
  BY Older DEF left
<1>2. \A i \in I : left(f, X)[i] = IF f[i] # None /\ f[i].user \in X /\ f[i].age = "due"
                                   THEN [f[i] EXCEPT !.age = "left"] ELSE f[i]
  BY DEF left
<1>3. \A c \in Credential : /\ [c EXCEPT !.age = "left"].user = c.user /\ [c EXCEPT !.age = "left"].age = "left"
                            /\ [c EXCEPT !.age = "left"] # None
  BY Older
<1>4. ASSUME NEW i \in I
      PROVE  /\ (left(f, X)[i] = None) = (f[i] = None)
             /\ f[i] # None => /\ left(f, X)[i].user = f[i].user
                               /\ left(f, X)[i].age = IF f[i].user \in X /\ f[i].age = "due"
                                                      THEN "left" ELSE f[i].age
  <2>1. CASE f[i] = None
    BY <1>2, <2>1
  <2>2. CASE f[i] \in Credential
    BY <1>2, <1>3, <2>2, AccountsNulls
  <2> QED BY <2>1, <2>2
<1> QED BY <1>1, <1>4

(* Lemma: pruning gives an entry back or empties it. *)
LEMMA PrunedEntries ==
    ASSUME Typed
    PROVE  /\ pruned \in [Users -> [failures : Nat, passed : BOOLEAN]]
           /\ \A u \in Users : pruned[u].failures <= entries[u].failures
           /\ \A u \in Users : pruned[u].failures = 0 \/ pruned[u] = entries[u]
BY DEF Typed, pruned

(* Lemma: the attempts of a user are requests. *)
LEMMA AttemptsFinite ==
    ASSUME NEW u
    PROVE  /\ IsFiniteSet(Attempts(u)) /\ Cardinality(Attempts(u)) \in Nat
           /\ Cardinality(Attempts(u)) <= Cardinality(Requests) /\ Cardinality(Requests) \in Nat
BY AccountsBounds, FS_Subset, FS_CardinalityType DEF Attempts

(* The server starts with no tenant, no credential and no failed login on record. *)
LEMMA InitIInv == Init => IInv
<1> SUFFICES ASSUME Init PROVE IInv
  OBVIOUS
<1>1. Typed
  BY DEF Init, Typed
<1>2. NoOrphanCredentials /\ LockedOut
  BY DEF Init, NoOrphanCredentials, LockedOut
<1>3. Budget
  <2> SUFFICES ASSUME NEW u \in Users
               PROVE  entries[u].failures + Cardinality(Attempts(u)) <= MaxAuthFailures + Cardinality(Requests) - 1
    BY DEF Budget
  <2>1. entries[u].failures = 0
    BY DEF Init
  <2>2. Attempts(u) = {}
    BY DEF Init, Attempts, Actors
  <2>3. Cardinality(Attempts(u)) = 0
    BY <2>2, FS_EmptySet
  <2>4. Cardinality(Requests) \in Nat
    BY AttemptsFinite
  <2> QED BY <2>1, <2>3, <2>4, AccountsBounds
<1>4. CallersTrue
  BY DEF Init, CallersTrue, at, Actors
<1> QED BY <1>1, <1>2, <1>3, <1>4 DEF IInv

-----------------------------------------------------------------------------
(* Lemma: attempts end without being counted. *)
LEMMA BudgetShrinks ==
    ASSUME Typed, Typed', Budget,
           \A u \in Users : entries'[u].failures <= entries[u].failures,
           \A u \in Users : Attempts(u)' \subseteq Attempts(u)
    PROVE  Budget'
<1> SUFFICES ASSUME NEW u \in Users
             PROVE  entries'[u].failures + Cardinality(Attempts(u)') <= MaxAuthFailures + Cardinality(Requests) - 1
  BY DEF Budget
<1>1. entries[u].failures + Cardinality(Attempts(u)) <= MaxAuthFailures + Cardinality(Requests) - 1
  BY DEF Budget
<1>2. /\ Cardinality(Attempts(u)) \in Nat /\ IsFiniteSet(Attempts(u)) /\ Cardinality(Requests) \in Nat
  BY AttemptsFinite
<1>3. Cardinality(Attempts(u)') \in Nat /\ Cardinality(Attempts(u)') <= Cardinality(Attempts(u))
  BY <1>2, FS_Subset, FS_CardinalityType
<1>4. entries'[u].failures \in Nat /\ entries[u].failures \in Nat
  BY DEF Typed
<1> QED BY <1>1, <1>2, <1>3, <1>4, AccountsBounds

(* Lemma: an attempt that is allowed starts below the budget. *)
LEMMA BudgetAllowed ==
    ASSUME Typed, Typed', Budget, NEW v \in Users, allow(v),
           \A u \in Users \ {v} : Attempts(u)' \subseteq Attempts(u)
    PROVE  Budget'
<1> SUFFICES ASSUME NEW u \in Users
             PROVE  entries'[u].failures + Cardinality(Attempts(u)') <= MaxAuthFailures + Cardinality(Requests) - 1
  BY DEF Budget
<1>1. entries' = pruned /\ entries'[v].failures < MaxAuthFailures
  BY DEF allow
<1>2. /\ entries[u].failures + Cardinality(Attempts(u)) <= MaxAuthFailures + Cardinality(Requests) - 1
      /\ entries'[u].failures <= entries[u].failures
      /\ entries'[u].failures \in Nat /\ entries[u].failures \in Nat
  BY <1>1, PrunedEntries DEF Budget, Typed
<1>3. /\ Cardinality(Attempts(u)) \in Nat /\ IsFiniteSet(Attempts(u)) /\ Cardinality(Requests) \in Nat
  BY AttemptsFinite
<1>4. CASE u = v
  <2>1. Attempts(u)' \subseteq Requests
    BY DEF Attempts
  <2>2. Cardinality(Attempts(u)') \in Nat /\ Cardinality(Attempts(u)') <= Cardinality(Requests)
    BY <2>1, AccountsBounds, FS_Subset, FS_CardinalityType
  <2> QED BY <1>1, <1>2, <1>3, <1>4, <2>2, AccountsBounds
<1>5. CASE u # v
  <2>1. Cardinality(Attempts(u)') \in Nat /\ Cardinality(Attempts(u)') <= Cardinality(Attempts(u))
    BY <1>3, <1>5, FS_Subset, FS_CardinalityType
  <2> QED BY <1>2, <1>3, <2>1, AccountsBounds
<1> QED BY <1>4, <1>5

(* Lemma: a failure that is counted is no longer an attempt. *)
LEMMA BudgetFailed ==
    ASSUME Typed, Typed', Budget, NEW v \in Users, NEW r \in Attempts(v), fail(v),
           Attempts(v)' = Attempts(v) \ {r},
           \A u \in Users \ {v} : Attempts(u)' \subseteq Attempts(u)
    PROVE  Budget'
<1> SUFFICES ASSUME NEW u \in Users
             PROVE  entries'[u].failures + Cardinality(Attempts(u)') <= MaxAuthFailures + Cardinality(Requests) - 1
  BY DEF Budget
<1>1. entries[u].failures + Cardinality(Attempts(u)) <= MaxAuthFailures + Cardinality(Requests) - 1
  BY DEF Budget
<1>2. /\ Cardinality(Attempts(u)) \in Nat /\ IsFiniteSet(Attempts(u)) /\ Cardinality(Requests) \in Nat
      /\ Cardinality(Attempts(u)) <= Cardinality(Requests)
  BY AttemptsFinite
<1>3. entries'[u].failures \in Nat /\ entries[u].failures \in Nat
  BY DEF Typed
<1>4. CASE u = v
  <2>1. Cardinality(Attempts(u)') = Cardinality(Attempts(u)) - 1
    BY <1>2, <1>4, FS_RemoveElement
  <2>2. entries'[u].failures <= entries[u].failures + 1
    <3>1. entries'[u].failures = pruned[u].failures + 1
      BY <1>4, PrunedEntries DEF fail, Typed
    <3>2. pruned[u].failures <= entries[u].failures /\ pruned[u].failures \in Nat
      BY PrunedEntries
    <3> QED BY <1>3, <3>1, <3>2
  <2> QED BY <1>1, <1>2, <1>3, <2>1, <2>2, AccountsBounds
<1>5. CASE u # v
  <2>1. Cardinality(Attempts(u)') \in Nat /\ Cardinality(Attempts(u)') <= Cardinality(Attempts(u))
    BY <1>2, <1>5, FS_Subset, FS_CardinalityType
  <2>2. entries'[u] = entries[u]
    BY <1>5 DEF fail, Typed
  <2> QED BY <1>1, <1>2, <1>3, <2>1, <2>2, AccountsBounds
<1> QED BY <1>4, <1>5

(* Users age: nobody comes back, and a row does not change. *)
UsersAge == \A u \in Users : users[u] # Unborn => users'[u] \in {users[u], Gone}

(* Requests that begin no attempt and are not let in. *)
NoneBegins ==
    \A r \in Requests :
        req'[r] = req[r] \/ req'[r] = None \/ req'[r].op \notin {"login", "verify", "authed"}

(* Lemma: callers stay who they were. *)
LEMMA CallersKept ==
    ASSUME Typed, CallersTrue, UsersAge,
           \A r \in Requests : at(r, "authed")' => req'[r] = req[r]
    PROVE  CallersTrue'
<1> SUFFICES ASSUME NEW r \in Requests, req'[r] # None, req'[r].op = "authed"
             PROVE  /\ users'[req'[r].user] # Unborn
                    /\ users'[req'[r].user] \notin {Unborn, Gone} =>
                          users'[req'[r].user].admin = req'[r].admin
  BY DEF CallersTrue, at, there
<1>1. /\ req'[r] = req[r] /\ req[r] \in Doing /\ users[req[r].user] # Unborn
      /\ users[req[r].user] \notin {Unborn, Gone} => users[req[r].user].admin = req[r].admin
  BY DEF at, Typed, CallersTrue, there, Actors
<1>2. req[r].user \in Users
  BY <1>1, DoingFields
<1> QED BY <1>1, <1>2, AccountsNulls DEF UsersAge

(* Lemma: the budget and the callers, when no attempt begins or ends in a  *)
(* count.                                                                  *)
LEMMA EntriesStay ==
    ASSUME Typed, Typed', Budget, CallersTrue, UNCHANGED entries, UsersAge, NoneBegins
    PROVE  Budget' /\ CallersTrue'
<1>1. \A u \in Users : Attempts(u)' \subseteq Attempts(u)
  BY DEF Attempts, NoneBegins
<1>2. \A u \in Users : entries'[u].failures <= entries[u].failures
  BY DEF Typed
<1>3. Budget'
  BY <1>1, <1>2, BudgetShrinks
<1>4. \A r \in Requests : at(r, "authed")' => req'[r] = req[r]
  BY DEF at, NoneBegins
<1> QED BY <1>3, <1>4, CallersKept

(* Lemma: no credential becomes due, and who has to delete one still has. *)
LEMMA LockedKept ==
    ASSUME Typed, LockedOut,
           \A t \in Tokens : sessions'[t] # None /\ sessions'[t].age = "due" => sessions'[t] = sessions[t],
           \A k \in Keys : keys'[k] # None /\ keys'[k].age = "due" => keys'[k] = keys[k],
           \A r \in Actors : at(r, "drop") \/ at(r, "revoke") => req'[r] = req[r]
    PROVE  LockedOut'
<1>1. ASSUME NEW t \in Tokens, sessions'[t] # None, sessions'[t].age = "due"
      PROVE  \E r \in Actors : req'[r] # None /\ req'[r].op = "drop" /\ req'[r].target = sessions'[t].user
  BY <1>1 DEF LockedOut, at
<1>2. ASSUME NEW k \in Keys, keys'[k] # None, keys'[k].age = "due"
      PROVE  \E r \in Actors :
                /\ req'[r] # None
                /\ (req'[r].op = "drop" /\ ~ req'[r].self) \/ req'[r].op = "revoke"
                /\ req'[r].target = keys'[k].user
  <2>1. PICK r \in Actors : /\ (at(r, "drop") /\ ~ req[r].self) \/ at(r, "revoke")
                            /\ req[r].target = keys[k].user
    BY <1>2 DEF LockedOut
  <2>2. req'[r] = req[r] /\ req[r] # None
    BY <2>1 DEF at
  <2> QED BY <1>2, <2>1, <2>2 DEF at
<1> QED BY <1>1, <1>2 DEF LockedOut, at

(* Lemma: a step of one request that leaves the rows alone. *)
LEMMA RequestMoves ==
    ASSUME IInv, NEW r \in Actors, NEW w \in {None} \cup Doing,
           req' = [req EXCEPT ![r] = w], ~ at(r, "drop"), ~ at(r, "revoke"),
           w = None \/ w.op # "authed" \/ (users[w.user] # Unborn /\ users[w.user].admin = w.admin),
           UNCHANGED <<up, tenants, users, sessions, keys>>,
           entries' \in [Users -> [failures : Nat, passed : BOOLEAN]],
           Typed' => Budget'
    PROVE  IInv'
<1>1. Typed /\ NoOrphanCredentials /\ LockedOut /\ CallersTrue
  BY DEF IInv
<1>2. Typed'
  BY <1>1 DEF Typed
<1>3. req'[r] = w /\ \A q \in Actors \ {r} : req'[q] = req[q]
  BY <1>1 DEF Typed
<1>4. NoOrphanCredentials'
  BY <1>1 DEF NoOrphanCredentials, there
<1>5. LockedOut'
  <2>1. \A q \in Actors : at(q, "drop") \/ at(q, "revoke") => req'[q] = req[q]
    BY <1>3
  <2> QED BY <1>1, <2>1, LockedKept
<1>6. CallersTrue'
  BY <1>1, <1>3 DEF CallersTrue, at, there, Actors
<1> QED BY <1>2, <1>4, <1>5, <1>6 DEF IInv

-----------------------------------------------------------------------------
(* Logins, the middleware and the checks of a password. *)
LEMMA AllowedKeeps ==
    ASSUME IInv, NEW r \in Requests, NEW u \in Users,
           \/ HandleLogin(r, u)
           \/ HandleSetPassword(r, u) /\ u = req[r].user
    PROVE  IInv'
<1>1. Typed /\ Budget /\ r \in Actors
  BY DEF IInv, Actors
<1>2. PICK w \in Doing :
         /\ w.op \in {"login", "verify"} /\ w.user = u
         /\ req' = [req EXCEPT ![r] = w]
         /\ allow(u) /\ UNCHANGED <<up, tenants, users, sessions, keys>>
         /\ ~ at(r, "drop") /\ ~ at(r, "revoke")
  BY DoingNext DEF HandleLogin, HandleSetPassword, goto, at
<1>3. entries' \in [Users -> [failures : Nat, passed : BOOLEAN]]
  BY <1>1, <1>2, PrunedEntries DEF allow
<1>4. \A v \in Users \ {u} : Attempts(v)' \subseteq Attempts(v)
  BY <1>1, <1>2 DEF Attempts, Typed
<1>5. Typed' => Budget'
  BY <1>1, <1>2, <1>4, BudgetAllowed
<1> QED BY <1>1, <1>2, <1>3, <1>5, RequestMoves

(* A refused password is counted in the entry of the user it was checked for, within the budget of checks in flight. *)
LEMMA FailureKeeps ==
    ASSUME IInv, NEW r \in Requests, LogAuthFailure(r)
    PROVE  IInv'
<1>1. /\ Typed /\ Budget /\ r \in Actors
      /\ req[r] # None /\ req[r] \in Doing /\ req[r].op \in {"login", "verify"}
      /\ fail(req[r].user) /\ req' = [req EXCEPT ![r] = None]
      /\ UNCHANGED <<up, tenants, users, sessions, keys>>
  BY DEF IInv, LogAuthFailure, at, goto, Typed, Actors
<1>2. req[r].user \in Users
  BY <1>1, DoingFields
<1>3. entries' \in [Users -> [failures : Nat, passed : BOOLEAN]]
  <2>1. pruned[req[r].user] \in [failures : Nat, passed : BOOLEAN]
    BY <1>1, <1>2, PrunedEntries
  <2>2. [pruned[req[r].user] EXCEPT !.failures = @ + 1] \in [failures : Nat, passed : BOOLEAN]
    BY <2>1
  <2> QED BY <1>1, <2>2 DEF fail, Typed
<1>4. r \in Attempts(req[r].user)
  BY <1>1 DEF Attempts
<1>5. /\ {q \in Requests : req'[q] # None /\ req'[q].op \in {"login", "verify"} /\ req'[q].user = req[r].user}
         = Attempts(req[r].user) \ {r}
      /\ \A v \in Users : Attempts(v)' \subseteq Attempts(v)
  BY <1>1 DEF Attempts, Typed
<1>6. ASSUME NEW v \in Users, v = req[r].user
      PROVE  Attempts(v)' = Attempts(v) \ {r}
  BY <1>5, <1>6 DEF Attempts
<1>7. Typed' => Budget'
  BY <1>1, <1>2, <1>4, <1>5, <1>6, BudgetFailed
<1>8. ~ at(r, "drop") /\ ~ at(r, "revoke")
  BY <1>1 DEF at
<1> QED BY <1>1, <1>3, <1>7, <1>8, RequestMoves

(* Lemma: a request moves on and no attempt begins or is counted. *)
LEMMA QuietMove ==
    ASSUME IInv, NEW r \in Actors, NEW w \in {None} \cup Doing,
           req' = [req EXCEPT ![r] = w], ~ at(r, "drop"), ~ at(r, "revoke"),
           w = None \/ w.op \notin {"login", "verify", "authed"}
                    \/ (w.op = "authed" /\ users[w.user] # Unborn /\ users[w.user].admin = w.admin),
           UNCHANGED <<up, tenants, users, sessions, keys>>,
           entries' \in [Users -> [failures : Nat, passed : BOOLEAN]],
           \A u \in Users : entries'[u].failures <= entries[u].failures
    PROVE  IInv'
<1>1. Typed /\ Budget
  BY DEF IInv
<1>2. \A u \in Users : Attempts(u)' \subseteq Attempts(u)
  BY <1>1 DEF Attempts, Typed
<1>3. Typed' => Budget'
  BY <1>1, <1>2, BudgetShrinks
<1> QED BY <1>3, RequestMoves

(* An accepted password only clears the entry of its user. *)
LEMMA SuccessKeeps ==
    ASSUME IInv, NEW r \in Requests, LoggedIn(r) \/ Verified(r)
    PROVE  IInv'
<1>1. /\ Typed /\ r \in Actors /\ req[r] # None /\ req[r] \in Doing /\ req[r].op \in {"login", "verify"}
      /\ success(req[r].user) /\ UNCHANGED <<up, tenants, users, sessions, keys>>
      /\ ~ at(r, "drop") /\ ~ at(r, "revoke")
  BY DEF IInv, LoggedIn, Verified, at, Typed, Actors
<1>2. req[r].user \in Users
  BY <1>1, DoingFields
<1>3. PICK w \in Doing : w.op \in {"cookie", "update"} /\ req' = [req EXCEPT ![r] = w]
  BY <1>2, DoingNext DEF LoggedIn, Verified, goto
<1>4. /\ entries' \in [Users -> [failures : Nat, passed : BOOLEAN]]
      /\ \A u \in Users : entries'[u].failures <= entries[u].failures
  BY <1>1, <1>2 DEF success, Typed
<1> QED BY <1>1, <1>3, <1>4, QuietMove

(* The steps that answer, refuse or identify a caller write no table. *)
LEMMA CallerKeeps ==
    ASSUME IInv, NEW r \in Requests,
           \/ Answered(r)
           \/ \E u \in Users : Throttled(r, u)
           \/ \E u \in Users : HandleSetPassword(r, u) /\ u # req[r].user
           \/ \E t \in Tokens : SessionUser(r, t)
           \/ \E k \in Keys : APIKeyUser(r, k)
    PROVE  IInv'
<1>1. Typed /\ r \in Actors
  BY DEF IInv, Actors
<1>2. entries \in [Users -> [failures : Nat, passed : BOOLEAN]] /\ \A u \in Users : entries[u].failures <= entries[u].failures
  BY <1>1 DEF Typed
<1>3. CASE Answered(r)
  <2>1. /\ req' = [req EXCEPT ![r] = None] /\ ~ at(r, "drop") /\ ~ at(r, "revoke")
        /\ UNCHANGED <<up, tenants, users, sessions, keys, entries>>
    BY <1>3 DEF Answered, goto, at
  <2> QED BY <1>1, <1>2, <2>1, QuietMove
<1>4. ASSUME NEW u \in Users, Throttled(r, u)
      PROVE  IInv'
  <2>1. /\ req' = [req EXCEPT ![r] = None] /\ ~ at(r, "drop") /\ ~ at(r, "revoke")
        /\ UNCHANGED <<up, tenants, users, sessions, keys>> /\ entries' = pruned
    BY <1>4 DEF Throttled, goto, at
  <2> QED BY <1>1, <2>1, PrunedEntries, QuietMove
<1>5. ASSUME NEW u \in Users, HandleSetPassword(r, u), u # req[r].user
      PROVE  IInv'
  <2> DEFINE w == [op |-> "update", target |-> u, self |-> FALSE]
  <2>1. /\ req' = [req EXCEPT ![r] = w] /\ ~ at(r, "drop") /\ ~ at(r, "revoke")
        /\ UNCHANGED <<up, tenants, users, sessions, keys, entries>>
    BY <1>5 DEF HandleSetPassword, goto, at
  <2>2. w \in Doing /\ w.op = "update"
    BY DoingNext
  <2> HIDE DEF w
  <2> QED BY <1>1, <1>2, <2>1, <2>2, QuietMove
<1>6. ASSUME NEW c \in Credential, Auth(r, c)
      PROVE  IInv'
  <2> DEFINE w == [op |-> "authed", user |-> c.user, admin |-> users[c.user].admin]
  <2>1. /\ req' = [req EXCEPT ![r] = w] /\ req[r] = None /\ there(c.user)
        /\ UNCHANGED <<up, tenants, users, sessions, keys, entries>>
    BY <1>6 DEF Auth, goto
  <2>2. c.user \in Users
    BY DEF Credential
  <2>3. users[c.user].admin \in BOOLEAN /\ users[c.user] # Unborn
    BY <1>1, <2>1, <2>2 DEF Typed, there, UserRow
  <2>4. w \in Doing /\ w.op = "authed" /\ w.user = c.user /\ w.admin = users[c.user].admin
    BY <2>2, <2>3, DoingNext
  <2>5. ~ at(r, "drop") /\ ~ at(r, "revoke")
    BY <2>1 DEF at
  <2> HIDE DEF w
  <2> QED BY <1>1, <1>2, <2>1, <2>3, <2>4, <2>5, QuietMove
<1>7. ASSUME NEW t \in Tokens, SessionUser(r, t)
      PROVE  IInv'
  BY <1>1, <1>6, <1>7 DEF SessionUser, Typed
<1>8. ASSUME NEW k \in Keys, APIKeyUser(r, k)
      PROVE  IInv'
  BY <1>1, <1>6, <1>8 DEF APIKeyUser, Typed
<1> QED BY <1>3, <1>4, <1>5, <1>7, <1>8

(* The window of the throttle running out, and the password reset of the command line. *)
LEMMA OutsideKeeps ==
    ASSUME IInv, NEW u \in Users, WindowPasses(u) \/ ResetUserPassword(u)
    PROVE  IInv'
<1>1. Typed
  BY DEF IInv
<1>2. CASE WindowPasses(u)
  <2>1. /\ UNCHANGED <<up, tenants, users, sessions, keys, req>>
        /\ entries' = [entries EXCEPT ![u].passed = TRUE]
    BY <1>2 DEF WindowPasses
  <2>2. /\ entries' \in [Users -> [failures : Nat, passed : BOOLEAN]]
        /\ \A v \in Users : entries'[v].failures = entries[v].failures
    BY <1>1, <2>1 DEF Typed
  <2>3. Typed'
    BY <1>1, <2>1, <2>2 DEF Typed
  <2>4. \A v \in Users : Attempts(v)' \subseteq Attempts(v)
    BY <2>1 DEF Attempts
  <2>5. \A v \in Users : entries'[v].failures <= entries[v].failures
    BY <1>1, <2>2 DEF Typed
  <2>6. Budget'
    BY <1>1, <2>3, <2>4, <2>5, BudgetShrinks DEF IInv
  <2> QED BY <2>1, <2>3, <2>6 DEF IInv, NoOrphanCredentials, LockedOut, CallersTrue, at, there
<1>3. CASE ResetUserPassword(u)
  <2> DEFINE w == [op |-> "update", target |-> u, self |-> FALSE]
  <2>1. /\ req' = [req EXCEPT ![Console] = w] /\ ~ at(Console, "drop") /\ ~ at(Console, "revoke")
        /\ UNCHANGED <<up, tenants, users, sessions, keys, entries>>
    BY <1>3 DEF ResetUserPassword, goto, at
  <2>2. w \in Doing /\ w.op = "update" /\ Console \in Actors
    BY DoingNext DEF Actors
  <2>3. entries \in [Users -> [failures : Nat, passed : BOOLEAN]] /\ \A v \in Users : entries[v].failures <= entries[v].failures
    BY <1>1 DEF Typed
  <2> HIDE DEF w
  <2> QED BY <2>1, <2>2, <2>3, QuietMove
<1> QED BY <1>2, <1>3

-----------------------------------------------------------------------------
(* Lemma: a request writes rows and moves on or ends, and nobody's attempt *)
(* or caller is touched.                                                   *)
LEMMA WriteKeeps ==
    ASSUME IInv, NEW r \in Actors, NEW w \in {None} \cup Doing,
           req' = [req EXCEPT ![r] = w] \/ UNCHANGED req,
           w = None \/ w.op \notin {"login", "verify", "authed"},
           up' \in BOOLEAN, tenants' \subseteq Tenants, UNCHANGED entries, UsersAge,
           users' \in [Users -> {Unborn, Gone} \cup UserRow],
           sessions' \in [Tokens -> {None} \cup Credential],
           keys' \in [Keys -> {None} \cup Credential],
           NoOrphanCredentials', LockedOut'
    PROVE  IInv'
<1>1. Typed /\ Budget /\ CallersTrue
  BY DEF IInv
<1>2. Typed'
  BY <1>1 DEF Typed
<1>3. NoneBegins
  BY <1>1 DEF NoneBegins, Typed, Actors
<1> QED BY <1>1, <1>2, <1>3, EntriesStay DEF IInv

(* A session or a key is made for a user that is there, and is not due. *)
LEMMA IssueKeeps ==
    ASSUME IInv, NEW r \in Requests,
           \/ \E t \in Tokens : GiveSession(r, t)
           \/ \E k \in Keys : HandleCreateAPIKey(r, k)
    PROVE  IInv'
<1>1. /\ Typed /\ NoOrphanCredentials /\ LockedOut /\ r \in Actors
      /\ req[r] # None /\ req[r] \in Doing /\ req[r].op \in {"cookie", "authed"} /\ there(req[r].user)
      /\ req' = [req EXCEPT ![r] = None] /\ UNCHANGED <<up, tenants, users, entries>>
  BY DEF IInv, GiveSession, HandleCreateAPIKey, CreateSession, CreateAPIKey, at, goto, Typed, Actors
<1> DEFINE c == [user |-> req[r].user, age |-> "new"]
<1>2. c \in Credential /\ c.user = req[r].user /\ c.age = "new"
  BY <1>1, DoingFields DEF Credential
<1>3. \/ \E t \in Tokens : sessions' = [sessions EXCEPT ![t] = c] /\ UNCHANGED keys
      \/ \E k \in Keys : keys' = [keys EXCEPT ![k] = c] /\ UNCHANGED sessions
  BY DEF GiveSession, HandleCreateAPIKey, CreateSession, CreateAPIKey
<1> HIDE DEF c
<1>4. /\ sessions' \in [Tokens -> {None} \cup Credential] /\ keys' \in [Keys -> {None} \cup Credential]
      /\ \A t \in Tokens : sessions'[t] \in {sessions[t], c}
      /\ \A k \in Keys : keys'[k] \in {keys[k], c}
  BY <1>1, <1>2, <1>3 DEF Typed
<1>5. NoOrphanCredentials'
  BY <1>1, <1>2, <1>4 DEF NoOrphanCredentials, there
<1>6. LockedOut'
  <2>1. \A q \in Actors : at(q, "drop") \/ at(q, "revoke") => req'[q] = req[q]
    BY <1>1 DEF at, Typed
  <2>2. /\ \A t \in Tokens : sessions'[t] # None /\ sessions'[t].age = "due" => sessions'[t] = sessions[t]
        /\ \A k \in Keys : keys'[k] # None /\ keys'[k].age = "due" => keys'[k] = keys[k]
    BY <1>2, <1>4
  <2> QED BY <1>1, <2>1, <2>2, LockedKept
<1>7. UsersAge
  BY <1>1 DEF UsersAge
<1> QED BY <1>1, <1>4, <1>5, <1>6, <1>7, WriteKeeps DEF Typed

(* A credential goes, by its owner's request or by itself. *)
LEMMA RemoveKeeps ==
    ASSUME IInv,
           \/ \E t \in Tokens : HandleLogout(t) \/ SessionExpires(t)
           \/ \E r \in Requests, k \in Keys : HandleDeleteAPIKey(r, k)
    PROVE  IInv'
<1>1. Typed /\ NoOrphanCredentials /\ LockedOut
  BY DEF IInv
<1> DEFINE Effect(q) ==
           /\ req' = [req EXCEPT ![q] = None] \/ UNCHANGED req
           /\ UNCHANGED req \/ at(q, "authed")
           /\ UNCHANGED <<up, tenants, users, entries>>
           /\ sessions' \in [Tokens -> {None} \cup Credential] /\ keys' \in [Keys -> {None} \cup Credential]
           /\ \A t \in Tokens : sessions'[t] \in {sessions[t], None}
           /\ \A k \in Keys : keys'[k] \in {keys[k], None}
<1>2. PICK r \in Actors : Effect(r)
  <2>1. ASSUME NEW t \in Tokens, HandleLogout(t) \/ SessionExpires(t)
        PROVE  \E q \in Actors : Effect(q)
    <3>1. /\ UNCHANGED <<up, tenants, users, keys, entries, req>> /\ sessions' = [sessions EXCEPT ![t] = None]
      BY <2>1 DEF HandleLogout, SessionExpires
    <3> QED BY <1>1, <3>1 DEF Typed, Actors
  <2>2. ASSUME NEW r \in Requests, NEW k \in Keys, HandleDeleteAPIKey(r, k)
        PROVE  \E q \in Actors : Effect(q)
    <3>1. /\ UNCHANGED <<up, tenants, users, sessions, entries>> /\ keys' = [keys EXCEPT ![k] = None]
          /\ req' = [req EXCEPT ![r] = None] /\ at(r, "authed") /\ r \in Actors
      BY <2>2 DEF HandleDeleteAPIKey, goto, Actors
    <3> QED BY <1>1, <3>1 DEF Typed
  <2> QED BY <2>1, <2>2
<1>3. NoOrphanCredentials'
  BY <1>1, <1>2 DEF NoOrphanCredentials, there
<1>4. LockedOut'
  <2>1. \A q \in Actors : at(q, "drop") \/ at(q, "revoke") => req'[q] = req[q]
    BY <1>1, <1>2 DEF at, Typed
  <2>2. /\ \A t \in Tokens : sessions'[t] # None /\ sessions'[t].age = "due" => sessions'[t] = sessions[t]
        /\ \A k \in Keys : keys'[k] # None /\ keys'[k].age = "due" => keys'[k] = keys[k]
    BY <1>2
  <2> QED BY <1>1, <2>1, <2>2, LockedKept
<1>5. UsersAge
  BY <1>2 DEF UsersAge
<1> QED BY <1>1, <1>2, <1>3, <1>4, <1>5, WriteKeeps DEF Typed

(* Users go with everything that is theirs. *)
LEMMA DeleteKeeps ==
    ASSUME IInv, NEW r \in Requests,
           \/ \E t \in Tenants : HandleDeleteTenant(r, t)
           \/ \E u \in Users : HandleDeleteUser(r, u)
    PROVE  IInv'
<1>1. Typed /\ NoOrphanCredentials /\ LockedOut /\ r \in Actors
  BY DEF IInv, Actors
<1> DEFINE Effect(X) ==
           /\ \A u \in X : there(u)
           /\ DeleteUsers(X) /\ at(r, "authed") /\ req' = [req EXCEPT ![r] = None]
           /\ tenants' \subseteq tenants /\ UNCHANGED <<up, entries>>
<1>2. PICK X \in SUBSET Users : Effect(X)
  <2>1. ASSUME NEW t \in Tenants, HandleDeleteTenant(r, t)
        PROVE  \E X \in SUBSET Users : Effect(X)
    BY <2>1 DEF HandleDeleteTenant, asAdmin, goto
  <2>2. ASSUME NEW u \in Users, HandleDeleteUser(r, u)
        PROVE  \E X \in SUBSET Users : Effect(X)
    BY <2>2 DEF HandleDeleteUser, asAdmin, goto
  <2> QED BY <2>1, <2>2
<1>3. /\ users' = [u \in Users |-> IF u \in X THEN Gone ELSE users[u]]
      /\ sessions' = of(sessions, X) /\ keys' = of(keys, X)
  BY <1>2 DEF DeleteUsers
<1>4. /\ sessions' \in [Tokens -> {None} \cup Credential] /\ keys' \in [Keys -> {None} \cup Credential]
      /\ \A t \in Tokens : sessions'[t] = IF sessions[t] # None /\ sessions[t].user \in X THEN None ELSE sessions[t]
      /\ \A k \in Keys : keys'[k] = IF keys[k] # None /\ keys[k].user \in X THEN None ELSE keys[k]
  BY <1>1, <1>3, OfTable DEF Typed
<1>5. users' \in [Users -> {Unborn, Gone} \cup UserRow] /\ UsersAge
  BY <1>1, <1>3 DEF Typed, UsersAge
<1>6. NoOrphanCredentials'
  <2>1. \A t \in Tokens : sessions[t] # None => sessions[t].user \in Users
    BY <1>1 DEF Typed, Credential
  <2>2. \A k \in Keys : keys[k] # None => keys[k].user \in Users
    BY <1>1 DEF Typed, Credential
  <2> QED BY <1>1, <1>3, <1>4, <2>1, <2>2 DEF NoOrphanCredentials, there
<1>7. LockedOut'
  <2>1. \A q \in Actors : at(q, "drop") \/ at(q, "revoke") => req'[q] = req[q]
    BY <1>1, <1>2 DEF at, Typed
  <2>2. /\ \A t \in Tokens : sessions'[t] # None /\ sessions'[t].age = "due" => sessions'[t] = sessions[t]
        /\ \A k \in Keys : keys'[k] # None /\ keys'[k].age = "due" => keys'[k] = keys[k]
    BY <1>4
  <2> QED BY <1>1, <2>1, <2>2, LockedKept
<1> QED BY <1>1, <1>2, <1>4, <1>5, <1>6, <1>7, WriteKeeps DEF Typed

(* A user is made, by an admin or at the first start. *)
LEMMA CreateKeeps ==
    ASSUME IInv,
           \/ BootstrapAdmin
           \/ \E r \in Requests, u \in Users, admin \in BOOLEAN, t \in Tenants \cup {None} :
                 HandleCreateUser(r, u, admin, t)
    PROVE  IInv'
<1>1. Typed /\ NoOrphanCredentials /\ LockedOut
  BY DEF IInv
<1> DEFINE Effect(q) ==
           /\ req' = [req EXCEPT ![q] = None] \/ UNCHANGED req
           /\ UNCHANGED req \/ at(q, "authed")
           /\ UNCHANGED <<tenants, sessions, keys, entries>> /\ up' \in BOOLEAN
           /\ UNCHANGED users \/ \E u \in Users, admin \in BOOLEAN, t \in Tenants \cup {None} : CreateUser(u, admin, t)
<1>2. PICK r \in Actors : Effect(r)
  <2>1. CASE BootstrapAdmin
    BY <2>1 DEF BootstrapAdmin, Actors
  <2>2. ASSUME NEW r \in Requests, NEW u \in Users, NEW admin \in BOOLEAN, NEW t \in Tenants \cup {None},
               HandleCreateUser(r, u, admin, t)
        PROVE  \E q \in Actors : Effect(q)
    <3>1. /\ at(r, "authed") /\ req' = [req EXCEPT ![r] = None] /\ CreateUser(u, admin, t)
          /\ UNCHANGED <<up, tenants, sessions, keys, entries>>
      BY <2>2 DEF HandleCreateUser, asAdmin, goto
    <3>2. r \in Actors /\ up \in BOOLEAN
      BY <1>1 DEF Actors, Typed
    <3>3. Effect(r)
      BY <3>1, <3>2
    <3> QED BY <3>2, <3>3
  <2> QED BY <2>1, <2>2
<1> DEFINE Grown == /\ users' \in [Users -> {Unborn, Gone} \cup UserRow] /\ UsersAge
                    /\ \A u \in Users : there(u) => users'[u] = users[u]
<1>3. Grown
  <2>1. CASE UNCHANGED users
    BY <1>1, <2>1 DEF Typed, UsersAge
  <2>2. ASSUME NEW u \in Users, NEW admin \in BOOLEAN, NEW t \in Tenants \cup {None}, CreateUser(u, admin, t)
        PROVE  Grown
    <3>1. [admin |-> admin, tenant |-> t] \in UserRow
      BY DEF UserRow
    <3> QED BY <1>1, <2>2, <3>1 DEF CreateUser, Typed, UsersAge, there
  <2> QED BY <1>2, <2>1, <2>2
<1>4. NoOrphanCredentials'
  <2>1. \A t \in Tokens : sessions[t] # None => sessions[t].user \in Users
    BY <1>1 DEF Typed, Credential
  <2>2. \A k \in Keys : keys[k] # None => keys[k].user \in Users
    BY <1>1 DEF Typed, Credential
  <2> QED BY <1>1, <1>2, <1>3, <2>1, <2>2 DEF NoOrphanCredentials, there
<1>5. LockedOut'
  <2>1. \A q \in Actors : at(q, "drop") \/ at(q, "revoke") => req'[q] = req[q]
    BY <1>1, <1>2 DEF at, Typed
  <2> QED BY <1>1, <1>2, <2>1, LockedKept
<1> QED BY <1>1, <1>2, <1>3, <1>4, <1>5, WriteKeeps DEF Typed

-----------------------------------------------------------------------------
(* A password is set: the sessions become due, and the keys if somebody    *)
(* else set it; the request that did so will delete them.                  *)
LEMMA SetPasswordKeeps ==
    ASSUME IInv, NEW r \in Actors, SetPassword(r)
    PROVE  IInv'
<1> DEFINE u == req[r].target
           b == req[r].self
           w == [op |-> "drop", target |-> u, self |-> b]
<1>1. /\ Typed /\ NoOrphanCredentials /\ LockedOut
      /\ req[r] # None /\ req[r] \in Doing /\ req[r].op = "update"
      /\ sessions' = due(sessions, u) /\ keys' = IF b THEN keys ELSE due(keys, u)
      /\ req' = [req EXCEPT ![r] = w] /\ UNCHANGED <<up, tenants, users, entries>>
  BY DEF IInv, SetPassword, at, goto, Typed
<1>2. u \in Users /\ b \in BOOLEAN
  BY <1>1, DoingFields
<1>3. w \in Doing /\ w # None /\ w.op = "drop" /\ w.target = u /\ w.self = b
  <2>1. w \in Doing
    BY <1>2, DoingNext
  <2> QED BY <2>1, AccountsNulls
<1> HIDE DEF w, u, b
<1>4. req'[r] = w /\ \A q \in Actors \ {r} : req'[q] = req[q]
  BY <1>1 DEF Typed
<1>5. /\ sessions' \in [Tokens -> {None} \cup Credential]
      /\ \A t \in Tokens : (sessions'[t] = None) = (sessions[t] = None)
      /\ \A t \in Tokens : sessions[t] # None =>
            /\ sessions'[t].user = sessions[t].user
            /\ sessions'[t].age = IF sessions[t].user = u THEN "due" ELSE sessions[t].age
  BY <1>1, DueTable DEF Typed
<1>6. /\ keys' \in [Keys -> {None} \cup Credential]
      /\ \A k \in Keys : (keys'[k] = None) = (keys[k] = None)
      /\ \A k \in Keys : keys[k] # None =>
            /\ keys'[k].user = keys[k].user
            /\ keys'[k].age = IF keys[k].user = u /\ ~ b THEN "due" ELSE keys[k].age
  BY <1>1, <1>2, DueTable DEF Typed
<1>7. NoOrphanCredentials'
  BY <1>1, <1>5, <1>6 DEF NoOrphanCredentials, there
<1>8. ASSUME NEW q \in Actors, at(q, "drop") \/ at(q, "revoke")
      PROVE  req'[q] = req[q]
  BY <1>1, <1>4, <1>8 DEF at
<1>9. LockedOut'
  <2>1. ASSUME NEW t \in Tokens, sessions'[t] # None, sessions'[t].age = "due"
        PROVE  \E q \in Actors : req'[q] # None /\ req'[q].op = "drop" /\ req'[q].target = sessions'[t].user
    <3>1. CASE sessions[t].user = u
      BY <1>3, <1>4, <1>5, <2>1, <3>1
    <3>2. CASE sessions[t].user # u
      BY <1>1, <1>5, <1>8, <2>1, <3>2 DEF LockedOut, at
    <3> QED BY <3>1, <3>2
  <2>2. ASSUME NEW k \in Keys, keys'[k] # None, keys'[k].age = "due"
        PROVE  \E q \in Actors :
                  /\ req'[q] # None
                  /\ (req'[q].op = "drop" /\ ~ req'[q].self) \/ req'[q].op = "revoke"
                  /\ req'[q].target = keys'[k].user
    <3>1. CASE keys[k].user = u /\ ~ b
      BY <1>3, <1>4, <1>6, <2>2, <3>1
    <3>2. CASE ~ (keys[k].user = u /\ ~ b)
      <4>1. keys[k] # None /\ keys[k].age = "due" /\ keys'[k].user = keys[k].user
        BY <1>6, <2>2, <3>2
      <4>2. PICK q \in Actors : /\ (at(q, "drop") /\ ~ req[q].self) \/ at(q, "revoke")
                                /\ req[q].target = keys[k].user
        BY <1>1, <4>1 DEF LockedOut
      <4> QED BY <1>8, <4>1, <4>2 DEF at
    <3> QED BY <3>1, <3>2
  <2> QED BY <2>1, <2>2 DEF LockedOut, at
<1>10. UsersAge
  BY <1>1 DEF UsersAge
<1> QED BY <1>1, <1>3, <1>5, <1>6, <1>7, <1>9, <1>10, WriteKeeps DEF Typed

(* The sessions of a user go before the API keys do: the keys stay due until the second delete. *)
LEMMA DropSessionsKeeps ==
    ASSUME IInv, NEW r \in Actors, DropSessions(r)
    PROVE  IInv'
<1> DEFINE u == req[r].target
           b == req[r].self
           w == IF b THEN [op |-> "cookie", user |-> u] ELSE [op |-> "revoke", target |-> u]
<1>1. /\ Typed /\ NoOrphanCredentials /\ LockedOut
      /\ req[r] # None /\ req[r] \in Doing /\ req[r].op = "drop"
      /\ sessions' = of(sessions, {u})
      /\ req' = [req EXCEPT ![r] = w] /\ UNCHANGED <<up, tenants, users, keys, entries>>
  BY DEF IInv, DropSessions, at, goto, Typed
<1>2. u \in Users /\ b \in BOOLEAN
  BY <1>1, DoingFields
<1>3. /\ w \in Doing /\ w # None /\ w.op \in {"cookie", "revoke"}
      /\ ~ b => w.op = "revoke" /\ w.target = u
  <2>1. w \in Doing
    BY <1>2, DoingNext
  <2> QED BY <1>2, <2>1, AccountsNulls
<1> HIDE DEF w
<1>4. req'[r] = w /\ \A q \in Actors \ {r} : req'[q] = req[q]
  BY <1>1 DEF Typed
<1>5. /\ sessions' \in [Tokens -> {None} \cup Credential]
      /\ \A t \in Tokens : sessions'[t] = IF sessions[t] # None /\ sessions[t].user \in {u} THEN None ELSE sessions[t]
  BY <1>1, OfTable DEF Typed
<1>6. NoOrphanCredentials'
  BY <1>1, <1>5 DEF NoOrphanCredentials, there
<1>7. LockedOut'
  <2>1. ASSUME NEW t \in Tokens, sessions'[t] # None, sessions'[t].age = "due"
        PROVE  \E q \in Actors : req'[q] # None /\ req'[q].op = "drop" /\ req'[q].target = sessions'[t].user
    <3>1. sessions'[t] = sessions[t] /\ sessions[t].user # u
      BY <1>5, <2>1
    <3>2. PICK q \in Actors : at(q, "drop") /\ req[q].target = sessions[t].user
      BY <1>1, <2>1, <3>1 DEF LockedOut
    <3> QED BY <1>4, <3>1, <3>2 DEF at
  <2>2. ASSUME NEW k \in Keys, keys'[k] # None, keys'[k].age = "due"
        PROVE  \E q \in Actors :
                  /\ req'[q] # None
                  /\ (req'[q].op = "drop" /\ ~ req'[q].self) \/ req'[q].op = "revoke"
                  /\ req'[q].target = keys'[k].user
    <3>1. PICK q \in Actors : /\ (at(q, "drop") /\ ~ req[q].self) \/ at(q, "revoke")
                              /\ req[q].target = keys[k].user
      BY <1>1, <2>2 DEF LockedOut
    <3>2. CASE q = r
      BY <1>1, <1>3, <1>4, <3>1, <3>2 DEF at
    <3>3. CASE q # r
      BY <1>1, <1>4, <3>1, <3>3 DEF at
    <3> QED BY <3>2, <3>3
  <2> QED BY <2>1, <2>2 DEF LockedOut, at
<1>8. UsersAge
  BY <1>1 DEF UsersAge
<1> QED BY <1>1, <1>3, <1>5, <1>6, <1>7, <1>8, WriteKeeps DEF Typed

(* The second delete of a password change takes the API keys that were due. *)
LEMMA RevokeKeeps ==
    ASSUME IInv, NEW r \in Actors, DeleteAPIKeysForUser(r)
    PROVE  IInv'
<1> DEFINE u == req[r].target
<1>1. /\ Typed /\ NoOrphanCredentials /\ LockedOut
      /\ req[r] # None /\ req[r].op = "revoke"
      /\ keys' = of(keys, {u})
      /\ req' = [req EXCEPT ![r] = None] /\ UNCHANGED <<up, tenants, users, sessions, entries>>
  BY DEF IInv, DeleteAPIKeysForUser, at, goto
<1>2. \A q \in Actors \ {r} : req'[q] = req[q]
  BY <1>1 DEF Typed
<1>3. /\ keys' \in [Keys -> {None} \cup Credential]
      /\ \A k \in Keys : keys'[k] = IF keys[k] # None /\ keys[k].user \in {u} THEN None ELSE keys[k]
  BY <1>1, OfTable DEF Typed
<1>4. NoOrphanCredentials'
  BY <1>1, <1>3 DEF NoOrphanCredentials, there
<1>5. LockedOut'
  <2>1. ASSUME NEW t \in Tokens, sessions'[t] # None, sessions'[t].age = "due"
        PROVE  \E q \in Actors : req'[q] # None /\ req'[q].op = "drop" /\ req'[q].target = sessions'[t].user
    <3>1. PICK q \in Actors : at(q, "drop") /\ req[q].target = sessions[t].user
      BY <1>1, <2>1 DEF LockedOut
    <3> QED BY <1>1, <1>2, <3>1 DEF at
  <2>2. ASSUME NEW k \in Keys, keys'[k] # None, keys'[k].age = "due"
        PROVE  \E q \in Actors :
                  /\ req'[q] # None
                  /\ (req'[q].op = "drop" /\ ~ req'[q].self) \/ req'[q].op = "revoke"
                  /\ req'[q].target = keys'[k].user
    <3>1. keys'[k] = keys[k] /\ keys[k].user # u
      BY <1>3, <2>2
    <3>2. PICK q \in Actors : /\ (at(q, "drop") /\ ~ req[q].self) \/ at(q, "revoke")
                              /\ req[q].target = keys[k].user
      BY <1>1, <2>2, <3>1 DEF LockedOut
    <3> QED BY <1>2, <3>1, <3>2 DEF at
  <2> QED BY <2>1, <2>2 DEF LockedOut, at
<1>6. UsersAge
  BY <1>1 DEF UsersAge
<1> QED BY <1>1, <1>3, <1>4, <1>5, <1>6, WriteKeeps DEF Typed

(* Lemma: what interrupted requests had still to delete is no longer due. *)
LEMMA InterruptKeeps ==
    ASSUME Typed, NoOrphanCredentials, LockedOut, NEW R \in SUBSET Actors, Interrupt(R), UNCHANGED users,
           \A q \in Actors \ R : req'[q] = req[q]
    PROVE  /\ sessions' \in [Tokens -> {None} \cup Credential]
           /\ keys' \in [Keys -> {None} \cup Credential]
           /\ NoOrphanCredentials' /\ LockedOut'
<1> DEFINE S == {req[r].target : r \in {q \in R : at(q, "drop")}}
           K == {req[r].target : r \in {q \in R : (at(q, "drop") /\ ~ req[q].self) \/ at(q, "revoke")}}
<1>1. sessions' = left(sessions, S) /\ keys' = left(keys, K)
  BY DEF Interrupt
<1>2. \A q \in R : at(q, "drop") => req[q].target \in S
  OBVIOUS
<1>3. \A q \in R : (at(q, "drop") /\ ~ req[q].self) \/ at(q, "revoke") => req[q].target \in K
  OBVIOUS
<1> HIDE DEF S, K
<1>4. /\ sessions' \in [Tokens -> {None} \cup Credential]
      /\ \A t \in Tokens : (sessions'[t] = None) = (sessions[t] = None)
      /\ \A t \in Tokens : sessions[t] # None =>
            /\ sessions'[t].user = sessions[t].user
            /\ sessions'[t].age = IF sessions[t].user \in S /\ sessions[t].age = "due" THEN "left" ELSE sessions[t].age
  BY <1>1, LeftTable DEF Typed
<1>5. /\ keys' \in [Keys -> {None} \cup Credential]
      /\ \A k \in Keys : (keys'[k] = None) = (keys[k] = None)
      /\ \A k \in Keys : keys[k] # None =>
            /\ keys'[k].user = keys[k].user
            /\ keys'[k].age = IF keys[k].user \in K /\ keys[k].age = "due" THEN "left" ELSE keys[k].age
  BY <1>1, LeftTable DEF Typed
<1>6. NoOrphanCredentials'
  BY <1>4, <1>5 DEF NoOrphanCredentials, there
<1>7. LockedOut'
  <2>1. ASSUME NEW t \in Tokens, sessions'[t] # None, sessions'[t].age = "due"
        PROVE  \E q \in Actors : req'[q] # None /\ req'[q].op = "drop" /\ req'[q].target = sessions'[t].user
    <3>1. sessions[t] # None /\ sessions[t].age = "due" /\ sessions'[t].user = sessions[t].user /\ sessions[t].user \notin S
      BY <1>4, <2>1
    <3>2. PICK q \in Actors : at(q, "drop") /\ req[q].target = sessions[t].user
      BY <3>1 DEF LockedOut
    <3>3. q \notin R
      BY <1>2, <3>1, <3>2
    <3> QED BY <3>1, <3>2, <3>3 DEF at
  <2>2. ASSUME NEW k \in Keys, keys'[k] # None, keys'[k].age = "due"
        PROVE  \E q \in Actors :
                  /\ req'[q] # None
                  /\ (req'[q].op = "drop" /\ ~ req'[q].self) \/ req'[q].op = "revoke"
                  /\ req'[q].target = keys'[k].user
    <3>1. keys[k] # None /\ keys[k].age = "due" /\ keys'[k].user = keys[k].user /\ keys[k].user \notin K
      BY <1>5, <2>2
    <3>2. PICK q \in Actors : /\ (at(q, "drop") /\ ~ req[q].self) \/ at(q, "revoke")
                              /\ req[q].target = keys[k].user
      BY <3>1 DEF LockedOut
    <3>3. q \notin R
      BY <1>3, <3>1, <3>2
    <3> QED BY <3>1, <3>2, <3>3 DEF at
  <2> QED BY <2>1, <2>2 DEF LockedOut, at
<1> QED BY <1>4, <1>5, <1>6, <1>7

(* A database error between the two deletes leaves the credentials it did not reach, marked as left. *)
LEMMA FailsKeeps ==
    ASSUME IInv, NEW r \in Actors, Fails(r)
    PROVE  IInv'
<1>1. /\ Typed /\ NoOrphanCredentials /\ LockedOut
      /\ Interrupt({r}) /\ req' = [req EXCEPT ![r] = None] /\ UNCHANGED <<up, tenants, users, entries>>
  BY DEF IInv, Fails, goto
<1>2. \A q \in Actors \ {r} : req'[q] = req[q]
  BY <1>1 DEF Typed
<1>3. /\ sessions' \in [Tokens -> {None} \cup Credential] /\ keys' \in [Keys -> {None} \cup Credential]
      /\ NoOrphanCredentials' /\ LockedOut'
  BY <1>1, <1>2, InterruptKeeps
<1>4. UsersAge
  BY <1>1 DEF UsersAge
<1> QED BY <1>1, <1>3, <1>4, WriteKeeps DEF Typed

(* A stop of the server loses the throttle and the requests under way, and keeps the tables. *)
LEMMA StopKeeps ==
    ASSUME IInv, Stop
    PROVE  IInv'
<1>1. /\ Typed /\ NoOrphanCredentials /\ LockedOut /\ Budget /\ CallersTrue
      /\ Interrupt(Requests) /\ req' = [r \in Actors |-> IF r \in Requests THEN None ELSE req[r]]
      /\ entries' = [u \in Users |-> [failures |-> 0, passed |-> FALSE]]
      /\ UNCHANGED <<tenants, users>> /\ up' \in BOOLEAN
  BY DEF IInv, Stop
<1>2. \A q \in Actors \ Requests : req'[q] = req[q]
  BY <1>1
<1>3. /\ sessions' \in [Tokens -> {None} \cup Credential] /\ keys' \in [Keys -> {None} \cup Credential]
      /\ NoOrphanCredentials' /\ LockedOut'
  BY <1>1, <1>2, InterruptKeeps DEF Actors
<1>4. Typed'
  BY <1>1, <1>3 DEF Typed
<1>5. \A r \in Requests : req'[r] = None
  BY <1>1 DEF Actors
<1>6. Budget'
  <2>1. \A u \in Users : Attempts(u)' \subseteq Attempts(u)
    BY <1>5 DEF Attempts
  <2>2. \A u \in Users : entries'[u].failures <= entries[u].failures
    BY <1>1 DEF Typed
  <2> QED BY <1>1, <1>4, <2>1, <2>2, BudgetShrinks
<1>7. CallersTrue'
  BY <1>5 DEF CallersTrue, at
<1> QED BY <1>3, <1>4, <1>6, <1>7 DEF IInv

-----------------------------------------------------------------------------
(* Every step preserves the inductive invariant. *)
LEMMA NextIInv == IInv /\ [Next]_vars => IInv'
<1> SUFFICES ASSUME IInv, [Next]_vars PROVE IInv'
  OBVIOUS
<1>1. ASSUME NEW r \in Requests, Steps(r)
      PROVE  IInv'
  BY <1>1, AllowedKeeps, FailureKeeps, SuccessKeeps, CallerKeeps, IssueKeeps, RemoveKeeps, DeleteKeeps, CreateKeeps
     DEF Steps
<1>2. ASSUME NEW r \in Actors, SetPassword(r) \/ DropSessions(r) \/ DeleteAPIKeysForUser(r) \/ Fails(r)
      PROVE  IInv'
  BY <1>2, SetPasswordKeeps, DropSessionsKeeps, RevokeKeeps, FailsKeeps
<1>3. CASE UNCHANGED vars
  <2>1. \A u \in Users : Attempts(u)' = Attempts(u)
    BY <1>3 DEF vars, Attempts
  <2>2. Budget'
    BY <1>3, <2>1 DEF vars, IInv, Budget
  <2> QED BY <1>3, <2>2 DEF vars, IInv, Typed, NoOrphanCredentials, LockedOut, CallersTrue, at, there
<1> QED BY <1>1, <1>2, <1>3, StopKeeps, CreateKeeps, OutsideKeeps, RemoveKeeps DEF Next

(* The invariant holds in every reachable state. *)
THEOREM Invariance == Spec => []IInv
BY InitIInv, NextIInv, PTL DEF Spec

(* A session or a key never outlives its user, also when the user is       *)
(* deleted while a request is about to make one.                           *)
THEOREM NoCredentialOrphaned == Spec => []NoOrphanCredentials
<1>1. IInv => NoOrphanCredentials
  BY DEF IInv
<1> QED BY <1>1, Invariance, PTL

(* A password that was changed to the end locks out whoever was logged in, *)
(* whatever changes of the same password overlap (store.SetPassword,       *)
(* handleSetPassword).                                                     *)
THEOREM ResetLocksOut == Spec => []LockedOut
<1>1. IInv => LockedOut
  BY DEF IInv
<1> QED BY <1>1, Invariance, PTL

(* The throttle counts at most one failure beyond its budget for each      *)
(* request but one: those that were allowed in before the others failed.   *)
THEOREM FailuresBounded == Spec => []ThrottleBound
<1>1. IInv => ThrottleBound
  <2> SUFFICES ASSUME IInv, NEW u \in Users
               PROVE  entries[u].failures <= MaxAuthFailures + Cardinality(Requests) - 1
    BY DEF ThrottleBound
  <2>1. entries[u].failures + Cardinality(Attempts(u)) <= MaxAuthFailures + Cardinality(Requests) - 1
    BY DEF IInv, Budget
  <2>2. entries[u].failures \in Nat /\ Cardinality(Attempts(u)) \in Nat /\ Cardinality(Requests) \in Nat
    BY AttemptsFinite DEF IInv, Typed
  <2> QED BY <2>1, <2>2, AccountsBounds
<1> QED BY <1>1, Invariance, PTL
=============================================================================
